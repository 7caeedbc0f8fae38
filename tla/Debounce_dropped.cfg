CONSTANTS
    h1 = h1
    h2 = h2
    None = None
    Handlers <- MCHandlers
    MaxBuffer = 2
    MaxEvents = 1
    MaxReschedules = 1
    Limit <- OneCrash
SPECIFICATION Spec
SYMMETRY Symmetry
INVARIANTS RescheduleKeepsTheFire
CHECK_DEADLOCK FALSE
