SPECIFICATION FairSpec
CONSTANTS
    c1 = c1
    NoWorker = NoWorker
    Uploads = {u1, u2}
    Commits = {c1}
    CommitOf <- OneCommit
    Workers = {w1, w2}
    PopCount = 1
    Expiry = 1
    LockRetries = 1
    DbRetries = 1
    MaxFaults = 1
    Events = {"parse", "db", "error", "lock_timeout", "kill"}
CHECK_DEADLOCK FALSE
INVARIANTS
    TypeOK
    NoUploadUnprocessed
    FlakesAreExact
    OneOpenFlake
PROPERTIES
    FlakesComeToRest
