SPECIFICATION FairSpec
CONSTANTS
    Free = Free
    Uploads = {u1, u2}
    Chords = {c1, c2}
    MaxRetries = 1
    MaxDbRetries = 1
    Events = {"upload_error", "file_missing", "raise", "db", "kill", "lock_timeout", "lock_expiry", "finisher_error"}
    ManualTrigger = FALSE
    AfterNBuilds = 0
    NotifyError = FALSE
    CiSkip = FALSE
    CarriedForward = TRUE
CHECK_DEADLOCK FALSE
INVARIANTS
    TypeOK
    PostprocessingIsComplete
    DoneLeavesNothing
PROPERTIES
    ReportNeverShrinks
    FinisherProceeds
