CONSTANTS
    k1 = k1
    k2 = k2
    w1 = w1
    w2 = w2
    none = none
    NoKey = none
    Keys <- OneKey
    Workers <- MCWorkers
    RetryN = 2
    OnError = "manual-review"
    IsAdoption = TRUE
    LeaseOutlivesRun = FALSE
    Limit <- FaultLimit
SPECIFICATION Spec
SYMMETRY WorkersOnly
INVARIANT Custody
CHECK_DEADLOCK FALSE
