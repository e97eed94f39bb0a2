SPECIFICATION MCSpec
CONSTANTS
    Items = {"film", "season", "nopath", "stray"}
    Movies = {"film", "stray"}
    Seasons = {"season", "nopath"}
    Inside = {"film", "season"}
    Outside = {"stray"}
    Grace = 1
    Durations = {2}
    Workers = {w1, w2}
    DryRuns = {TRUE, FALSE}
    Traffic = {"link", "keep", "show", "unprotect", "clear", "sync", "vanish"}
    MaxTime = 3
    MaxRows = 2
    MaxFaults = 1
INVARIANTS
    TypeOK
    OneLiveDeletion
    LinkKeepHolds
    WorkSparesLinkKeeps
    Inductive
PROPERTIES
    OnlyDueFilesRemoved
    ScannerSparesProtection
    RecoveryAuditsRemovals
    DryRunKeepsTables
SYMMETRY WorkerSymmetry
