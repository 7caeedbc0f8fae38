CONSTANTS
    r1 = r1
    r2 = r2
    None = None
    Runners <- MCRunners
    Events = {1, 2}
    Passive = {}
    InboxMax = 1
    MaxChats = 1
    Limit <- OneCall
SPECIFICATION FairSpec
PROPERTIES EventuallySeen
CHECK_DEADLOCK FALSE
