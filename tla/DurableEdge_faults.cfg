CONSTANTS
    k1 = k1
    k2 = k2
    w1 = w1
    w2 = w2
    none = none
    NoKey = none
    Keys <- OneKey
    Workers <- MCWorkers
    RetryN = 2
    OnError = "dlq"
    IsAdoption = FALSE
    LeaseOutlivesRun = TRUE
    Limit <- FaultLimit
SPECIFICATION Spec
SYMMETRY WorkersOnly
INVARIANTS TypeOK Custody MutualExclusion RepeatsNeedFaults SucceededWasRun
PROPERTIES SucceededIsFinal
CHECK_DEADLOCK FALSE
