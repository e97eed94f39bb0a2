SPECIFICATION FairSpec
CONSTANTS
    Titles = {"film"}
    Checkers = {"scheduled", "manual"}
    MaxDelay = 2
    Grace = 1
    Failures = {"crash", "mail", "db", "arr", "uncaught"}
    MaxNotes = 2
    MaxFaults = 1
    Tokens = {}
    Redownloads = {}
    TitleOf <- OneTitle
    Workers = {}
    CacheMax = 1
INVARIANTS
    ClaimsExclusive
    MailedOnce
    OnlyFailuresStrand
PROPERTIES
    Announced
