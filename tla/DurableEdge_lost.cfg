CONSTANTS
    k1 = k1
    k2 = k2
    w1 = w1
    w2 = w2
    none = none
    NoKey = none
    Keys <- OneKey
    Workers <- MCWorkers
    RetryN = 1
    OnError = "dlq"
    IsAdoption = FALSE
    LeaseOutlivesRun = TRUE
    Limit <- OneCrash
SPECIFICATION Spec
SYMMETRY WorkersOnly
INVARIANTS AtLeastOnce
CHECK_DEADLOCK FALSE
