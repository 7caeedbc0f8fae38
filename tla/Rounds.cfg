CONSTANTS
    Runners = {r1}
    Free = Free
    Orphan = Orphan
    MaxActs = 2
    MaxDay = 1
    MaxWakes = 1
    PullLimit = 2
    Tried = 1
    a1 = a1
    a2 = a2
    Limit <- Failing
    Tools = {"act", "chat", "note", "jot", "letter", "user", "group", "read"}
    MaxToolRounds = 2
    MaxThings = 2
    ToolLimit <- MCToolLimit
    Entries = {a1, a2}
    MaxHour = 2
    MaxEdits = 3
    NoteLimit <- MCNoteLimit
    MaxLiving = 2
    Sweeps = 2
    MaxRounds = 2
    MaxJots = 2
    MaxWrites = 1
    DayLimit <- DayTries
    Sweepers = {a1, a2}
    Dates = {"d1"}
    MaxTime = 5
    MaxDrafts = 1
    PersonaLimit <- MCPersonaLimit
    MaxParts = 2
    MaxRecalls = 1
    MaxMuddles = 2
    MaxRetries = 2
    RecursionLimit = 2
    EmptyAttempts = 2
    MaxMessages = 5
    MaxAsks = 2
    MaxRuns = 2
    RunLimit <- MCRunLimit
    NoValue = NoValue
    MaxReadings = 2
    MaxTurns = 3
    MaxCalls = 2
    MaxPieces = 1
    MaxCuts = 1
    Files = {"f"}
    Requests = {1, 2, 3}
    Texts <- BookTexts
    PageSize = 2
    MaxReads = 2
    NoFile = NoFile
    ReadingLimit <- MCReadingLimit
SPECIFICATION Spec
SYMMETRY Symmetry
INVARIANTS WellTyped WorldCanBeTrusted RunsCanBeTrusted ToolsCountRight RemindersCanBeTrusted HerDaysCanBeTrusted RepliesCanBeTrusted ReadingCanBeTrusted
PROPERTIES RowIsKept
CHECK_DEADLOCK FALSE
