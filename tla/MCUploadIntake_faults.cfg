SPECIFICATION FairSpec
CONSTANTS
    NoUpload = NoUpload
    Uploads = {u1, u2}
    PopCount = 1
    MaxRetries = 3
    Debounce = TRUE
    Events = {"api_crash", "queue_ttl", "lock_timeout", "not_ready", "abort", "error", "kill"}
CHECK_DEADLOCK FALSE
INVARIANTS
    TypeOK
    NoTaskEndsEarly
    EachUploadOnce
    NoOvertaking
PROPERTIES
    TasksEnd
