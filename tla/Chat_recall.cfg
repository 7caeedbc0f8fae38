CONSTANTS
    MaxParts = 2
    MaxRecalls = 1
    MaxMuddles = 0
SPECIFICATION ChatSpec
INVARIANTS RecalledLeavesNothing
CHECK_DEADLOCK FALSE
