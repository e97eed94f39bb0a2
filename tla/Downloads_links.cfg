SPECIFICATION Spec
CONSTANTS
    Titles = {"film"}
    Checkers = {}
    MaxDelay = 1
    Grace = 1
    Failures = {"crash", "db", "arr"}
    MaxNotes = 1
    MaxFaults = 2
    Tokens = {"link", "again"}
    Redownloads = {"again"}
    TitleOf <- OneTitle
    Workers = {w1, w2}
    CacheMax = 1
SYMMETRY WorkerSymmetry
INVARIANTS
    LinkGrantedOnce
    NoLinkBurned
