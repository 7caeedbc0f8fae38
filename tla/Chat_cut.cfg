CONSTANTS
    MaxParts = 2
    MaxRecalls = 1
    MaxMuddles = 1
SPECIFICATION ChatSpec
INVARIANTS FailsOpen
CHECK_DEADLOCK FALSE
