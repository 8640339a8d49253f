SPECIFICATION CollectionSpec
CONSTANTS
    Worker = {w1, w2}
    Type = {b1}
    Job = {j1, j2}
    MaxNow = 3
    MaxChanges = 3
    Delay = 1
    Overlap = 1
    Lookback = 1
    MaxRecovery = 2
    PageSize = 1
    MaxPages = 2
    BatchSize = 1
    Retry = 1
    RetryCap = 2
    Stale = 1
    MaxApi = 1
    MaxCrash = 1
    None = None
    Code = {1, 2}
    Name = {"old", "new"}
    Windows <- TwoDatasets
    PageRows = 1
    WindowSize = 2
    Reread = 1
    DayLength = 2
    DailyLimit = 2
    MaxEntries = 2
    MaxClock = 2
    MaxChanged = 2
    MaxAmended = 3
    MaxStarts = 2
    MaxDeaths = 1
    Null = Null
INVARIANTS
    ChangesAccountedFor JobRunsOnce NoJobStarves
     WholeWhenComplete NewestChangeKept
CONSTRAINTS OneConcern TwoNames
SYMMETRY Symmetry
CHECK_DEADLOCK FALSE
