CONSTANTS
    r1 = r1
    r2 = r2
    None = None
    Runners <- MCRunners
    Events = {1, 2, 3}
    Passive = {2}
    InboxMax = 2
    MaxChats = 1
    Limit <- FaultLimit
SPECIFICATION LifeSpec
SYMMETRY Symmetry
INVARIANTS TypeOK ReadWasShown RepeatsNeedFaults PassiveWakesNobody OneRoundAtATime
PROPERTIES NoRoundTwice FoldKeepsRounds
CHECK_DEADLOCK FALSE
