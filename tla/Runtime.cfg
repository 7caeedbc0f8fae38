CONSTANTS
    h1 = h1
    h2 = h2
    None = None
    Handlers <- MCHandlers
    MaxBuffer = 2
    MaxEvents = 2
    MaxReschedules = 1
    Limit <- AllLimit
    Nobody = Nobody
    Requests <- MCHandlers
    Letters <- MCLetters
    NoLetter = Nobody
    Body <- Carried
    MaxBatch = 2
    DeadLimit <- MCDeadLimit
    Rows = {1, 2, 3}
    Dispatchers <- MCHandlers
    BatchSize = 2
    MaxAttempts = 1
    OutboxLimit <- MCOutboxLimit
    Emits <- MCHandlers
    Wirings <- MCWirings
    FanKeys = {"m", "n"}
    Correlations = {"a", "b"}
    NoCall = Nobody
    EmitLimit <- MCEmitLimit
    Timed = {"beat"}
    Queue = "mq"
    Frames = {1, 2}
    NoFrame = 0
    Prefetch = 2
    TimeSources = TRUE
    MaxTicks = 1
    LoopLimit <- MCLoopLimit
    Lanes = {"prod", "x"}
    Prod = "prod"
    NoLane = Nobody
    Mail = {1, 2}
    MaxStops = 1
    Writers = {1, 2, 3}
    DataKeys = {"k"}
    LockOf <- MCLockOf
    Free = Nobody
    MaxVer = 2
    Failures = 1
    DataTypes <- MCDataTypes
    Nodes <- MCNodes
    DefaultApp = "agent"
    Declared <- MCDeclared
    MaxCalls = 4
    Pods <- MCHandlers
    Releases <- MCReleases
    MaxBoots = 4
    Threads <- MCHandlers
    Raws = {"on"}
    TTL = 2
    MaxTime = 3
    Dirs <- MCDirs
    Titles = {"a"}
    MaxEdits = 3
    Missing = Nobody
    Tasks = {"t", "u"}
    Submitted <- MCSubmitted
    Objects = {"a", "b"}
    Unreadable = {"b"}
    MaxBatchPaths = 3
    QueueSize = 1
    Retries = 1
    Nothing = Nobody
    TaggerLimit <- MCTaggerLimit
SPECIFICATION RuntimeSpec
SYMMETRY Symmetry
INVARIANTS TypeOK NoLostFire CountIsBacklog WellTyped PromisesAreKept LanesStaySeparate EmissionIsClean FramesAreAccounted VersionsAreAChain ProcessesFit TasksAreKept
PROPERTIES OnlyTheNewestFires
CHECK_DEADLOCK FALSE
