SPECIFICATION Spec
CONSTANTS
    Free = Free
    Uploads = {u1, u2, u3}
    Chords = {c1, c2, c3}
    MaxRetries = 1
    MaxDbRetries = 1
    Events = {"upload_error", "file_missing"}
    ManualTrigger = FALSE
    AfterNBuilds = 2
    NotifyError = FALSE
    CiSkip = FALSE
    CarriedForward = TRUE
SYMMETRY Symmetry
CHECK_DEADLOCK FALSE
INVARIANTS
    NoMissedPostprocessing
    MergedIsReported
    CompleteReportIsNotified
PROPERTIES
    ImplementsLifecycle
