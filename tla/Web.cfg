CONSTANTS
    Users = {"ann", "bob"}
    Founders = {"ann", "bob"}
    WeakUsers = {"bob"}
    Tokens = {"s1", "s2"}
    Workers = {w1, w2}
    MaxPasswords = 1
    Admins = {"ann", "bob"}
    Addresses = {"c1", "c2", "c3", "p1", "p2"}
    Trusted = {"p1", "p2"}
    Cloudflare = {"p2"}
    BucketOf <- BucketOfDef
    Window = 2
    Day = 3
    MaxInWindow = 2
    MaxPerDay = 3
    MaxAttempts = 2
    MaxBuckets = 2
    PruneEvery = 3
    Secrets = {"api key"}
    MasterKeys = {"k1", "k2"}
    Writers = {w1, w2}
    Testers = {"t1"}
    MaxWrites = 2
    MaxBoots = 3
    Posters = {"p", "q"}
    Viewers = {w1, w2}
    Cap = 1
    Target = 1
    RecheckEvery = 2
    MaxFetches = 4
    MaxMishaps = 1
    Threads = {"t1"}
    Hosts = {"arr", "bridge"}
    Bridges = {"bridge"}
    Unlisted = {}
    Ips = {"a", "b"}
    Blocked = {"b"}
    Strict = FALSE
    MaxTries = 3
SPECIFICATION MCSpec
SYMMETRY WebSymmetry
INVARIANTS LastAdminStays AccountsKept LimitsKept SettingsKept PostersKept OutboundKept
CHECK_DEADLOCK FALSE
