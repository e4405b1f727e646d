SPECIFICATION FairSpec
CONSTANTS
    NoTask = NoTask
    Uploads = {u1, u2}
    Requests = {r1}
    CiRetries = 1
    ProviderRetries = 1
    DbRetries = 1
    TriggerRetries = 1
    AfterNBuilds = 1
    WaitForCi = TRUE
    RequireCi = TRUE
    ManualTrigger = FALSE
    CarriedForward = TRUE
    MaxFaults = 1
    Events = {"upload_error", "tests_failed", "rate_limited", "provider", "stale_head", "lock_timeout", "lock_expiry", "db", "error", "kill"}
CHECK_DEADLOCK FALSE
INVARIANTS
    TypeOK
    ManualIsComplete
    CompleteIsNotified
PROPERTIES
    NotificationsNeverRegress
    NotifyEnds
