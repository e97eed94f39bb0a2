CONSTANTS
    Items = {"film1", "film2", "season"}
    Libraries = {"films", "shows"}
    LibraryOf <- LibraryOfDef
    Managed = {"film1"}
    Workers = {w1, w2}
    Jobs = {"scan", "sync"}
    ScanJob = "scan"
    MinToTrust = 1
    RatioFrom = 1
    RatioBase = 2
    MaxIntents = 2
    Parts = {"e1", "e2"}
    Day = 2
    MinAge = 1
    Inactivity = 1
    MaxTime = 2
    MaxChanges = 3
    Titles = {"film", "show"}
    Films = {"film"}
    PickRequests = {"r1", "r2"}
    PickDay = 2
    KeepDays = 1
    MaxRows = 3
    MaxPickTime = 5
    MaxMoves = 3
SPECIFICATION ApartSpec
SYMMETRY WorkerSymmetry
PROPERTY SecondLookPrunes
CHECK_DEADLOCK FALSE
