CONSTANTS
    Kinds = {"scheduled", "manual", "refresh"}
    Stale = 3
    MaxMisses = 1
    Failures = {"finish", "crash", "handler", "worker"}
    MaxRuns = 3
    MaxFaults = 2
    Names = {"ann"}
    Checkers = {"w1", "w2"}
    LockRules <- LockRulesDef
    Decay = 2
    Emails = {"ann", "bob"}
    Actions = {"a"}
    MaxFailures = 2
    MaxChanges = 2
SPECIFICATION MCFairSpec
INVARIANTS OneRunAtATime LockFitsCount LettersReach
PROPERTIES LeaseIsSingleRun LeaseReleased LockNeverShortens LocksEnd DueAreTold
CHECK_DEADLOCK FALSE
