SPECIFICATION FairSpec
CONSTANTS
    None = None
    p = p
    h = h
    flagA = flagA
    flagB = flagB
    pa = pa
    pb = pb
    px = px
    hb = hb
    hx = hx
    hf = hf
    pre1 = pre1
    pre2 = pre2
    up = up
    uh = uh
    fp1 = fp1
    fp2 = fp2
    fh = fh
    Commits = {p, h}
    Parent <- ParentOf
    MaxDepth = 2
    Flags = {flagA, flagB}
    CarryFlags = {flagA, flagB}
    Uploads = {pa, pb, px, hb, hx, hf}
    FlagsOf <- FlagsOfUpload
    Failed = {hf}
    Hollow = {hx}
    PreTasks = {pre1, pre2}
    UpTasks = {up, uh}
    FinTasks = {fp1, fp2, fh}
    CommitOf <- TaskCommit
    Batch <- Batches
    Events = {"kill", "save_error"}
    MaxFaults = 1
CHECK_DEADLOCK FALSE
INVARIANTS
    TypeOK
    RowsMatchSessions
    LinesMatchSessions
    CarriedForwardIsSuperseded
PROPERTIES
    SessionsStay
    PreprocessEnds
