SPECIFICATION Spec
CONSTANTS
    Free = Free
    Uploads = {u1, u2}
    Chords = {c1, c2}
    MaxRetries = 1
    MaxDbRetries = 1
    Events = {"upload_error"}
    ManualTrigger = FALSE
    AfterNBuilds = 0
    NotifyError = FALSE
    CiSkip = FALSE
    CarriedForward = TRUE
SYMMETRY Symmetry
CHECK_DEADLOCK FALSE
INVARIANT
    MergedIsNotified
