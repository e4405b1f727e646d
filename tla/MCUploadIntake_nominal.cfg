SPECIFICATION FairSpec
CONSTANTS
    NoUpload = NoUpload
    Uploads = {u1, u2, u3}
    PopCount = 1
    MaxRetries = 2
    Debounce = TRUE
    Events = {}
CHECK_DEADLOCK FALSE
PROPERTIES
    EventuallyScheduled
