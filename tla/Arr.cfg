CONSTANTS
    Titles = {"t1", "t2"}
    Service <- ServiceDef
    Partial = {"t2"}
    Pages = {"page"}
    Scheduler = "job"
    ArrWindow = 1
    BackoffBase = 1
    BackoffMax = 4
    StrandedTtl = 4
    MaxTime = 6
    MaxAbandons = 1
    Films = {"film", "show"}
    DlId <- DlIdDef
    TitleOf <- TitleOfDef
    SourceOf <- SourceOfDef
    CardOrder <- CardOrderDef
    SeriesIds = {"sonarr:x"}
    Jobs = {"j", "k"}
    Alike <- AlikeDef
    SeriesLike = {"j"}
    Remaining <- RemainingDef
    Requests = {r1, r2}
    MaxChanges = 2
    Seasons = {s1, s2}
    Writers = {r1, r2}
    MaxRetries = 3
    SeasonNumbers = {0, 2}
    MaxEpisodes = 2
    DownloadIds = {"d"}
    Sizes = {0, 200}
    Lefts = {0, 1, 3}
    MaxQueue = 2
SPECIFICATION MCSpec
INVARIANTS SearchBudget PageRecordsCompletions SeriesKeepsRest PagesTellTheState
CHECK_DEADLOCK FALSE
SYMMETRY Symmetry
VIEW View
