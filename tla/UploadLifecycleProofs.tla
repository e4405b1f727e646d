---------------------- MODULE UploadLifecycleProofs -------------------------
(***************************************************************************)
(* UploadProcessing implements UploadLifecycle: the initial state maps to  *)
(* the initial state, and every step to a step of the lifecycle or to none.*)
(***************************************************************************)
EXTENDS UploadProcessingProofs

(* A step that touches neither the redis sets nor the batches nor the report, and
   no result of an upload that has left "processing", is invisible in the lifecycle. *)
LEMMA LifecycleStutter ==
    ASSUME UNCHANGED <<batch, processing, processed, merged, report>>,
           \A u \in processed \cup merged : res'[u] = res[u]
    PROVE  UNCHANGED Lifecycle!vars
<1>1. \A u : StageOf(u)' = StageOf(u)
  BY DEF StageOf, Scheduled
<1>2. {u \in processed \cup merged : res[u] = "ok"}' = {u \in processed \cup merged : res[u] = "ok"}
  OBVIOUS
<1> QED
  BY <1>1, <1>2 DEF Lifecycle!vars

(* Every step of the tasks is a step of the lifecycle or changes nothing in it.        *)
LEMMA LifecycleStep ==
    ASSUME IInv, [Next]_vars, CarriedForward, "ttl" \notin Events
    PROVE  [Lifecycle!Next]_(Lifecycle!vars)
<1> USE DEF IInv, TypeOK, procVars, finVars, redisVars, lockVars, dbVars,
            postVars, Goto,
            ProcUnchanged, FinUnchanged
<1> DEFINE S == [u \in Uploads |-> StageOf(u)]
           G == {u \in processed \cup merged : res[u] = "ok"}
<1>a. /\ processing \subseteq Scheduled /\ processed \subseteq Scheduled /\ merged \subseteq Scheduled
      /\ \A u \in Uploads : proc[u] \in {"queued", "running", "built", "marked"} =>
             u \in Scheduled /\ u \notin merged
  BY DEF RedisInv, MergedInv, ProcInv, Scheduled
<1>1. CASE UNCHANGED vars
  BY <1>1, LifecycleStutter DEF vars
<1>2. ASSUME NEW c \in Chords, NEW B \in SUBSET Uploads, MarkUploadsAsProcessing(c, B)
      PROVE  Lifecycle!Receive(B)
  <2>1. /\ processing' = processing \cup B /\ UNCHANGED <<processed, merged, report, res>>
        /\ B \cap Scheduled = {} /\ Scheduled' = Scheduled \cup B
    BY <1>2 DEF MarkUploadsAsProcessing, Scheduled, BatchInv
  <2>2. \A u \in B : StageOf(u) = "absent" /\ StageOf(u)' = "processing"
    BY <2>1, <1>a DEF StageOf
  <2>3. \A u \in Uploads \ B : StageOf(u)' = StageOf(u)
    BY <2>1 DEF StageOf
  <2> QED
    BY <2>1, <2>2, <2>3 DEF Lifecycle!Receive, Lifecycle!Advance,
       Lifecycle!InStage
<1>3. ASSUME NEW u \in Uploads, UNCHANGED <<batch, processed, merged, report>>,
             \A v \in processed \cup merged : res'[v] = res[v],
             u \in Scheduled, processing' = processing \cup {u}
      PROVE  Lifecycle!Receive({u}) \/ UNCHANGED Lifecycle!vars
  <2>1. CASE u \in processing
    BY <1>3, <2>1, LifecycleStutter
  <2>3. CASE u \in processed \cup merged
    <3>1. \A v : StageOf(v)' = StageOf(v)
      BY <1>3, <2>3 DEF StageOf, Scheduled
    <3>2. G' = G
      BY <1>3
    <3> QED
      BY <1>3, <3>1, <3>2 DEF Lifecycle!vars
  <2>2. CASE u \notin processing \cup processed \cup merged
    <3>1. StageOf(u) = "cleared" /\ StageOf(u)' = "processing"
      BY <1>3, <2>2 DEF StageOf
    <3>2. \A v \in Uploads \ {u} : StageOf(v)' = StageOf(v)
      BY <1>3 DEF StageOf, Scheduled
    <3>3. G' = G
      BY <1>3
    <3> QED
      BY <1>3, <3>1, <3>2, <3>3 DEF Lifecycle!Receive, Lifecycle!Advance,
         Lifecycle!InStage
  <2> QED
    BY <2>1, <2>2, <2>3
<1>4. ASSUME NEW u \in Uploads, UNCHANGED <<batch, processed, merged, report>>,
             \A v \in processed \cup merged : res'[v] = res[v],
             processing' = processing \ {u}
      PROVE  Lifecycle!Clear(u) \/ UNCHANGED Lifecycle!vars
  <2>1. CASE StageOf(u) = "processing"
    <3>1. StageOf(u)' = "cleared"
      BY <1>4, <2>1, <1>a DEF StageOf, Scheduled
    <3>2. \A v \in Uploads \ {u} : StageOf(v)' = StageOf(v)
      BY <1>4 DEF StageOf, Scheduled
    <3>3. G' = G
      BY <1>4
    <3> QED
      BY <1>4, <2>1, <3>1, <3>2, <3>3 DEF Lifecycle!Clear, Lifecycle!Advance
  <2>2. CASE StageOf(u) # "processing"
    <3>1. \A v : StageOf(v)' = StageOf(v)
      BY <1>4, <2>2, <1>a DEF StageOf, Scheduled
    <3>2. G' = G
      BY <1>4
    <3> QED
      BY <1>4, <3>1, <3>2 DEF Lifecycle!vars
  <2> QED
    BY <2>1, <2>2
(* A result that changes while the upload is "processed" already.          *)
<1>b. ASSUME NEW u \in Uploads, UNCHANGED <<batch, processed, merged, report>>,
             \A v \in Uploads \ {u} : res'[v] = res[v],
             u \in processed, u \notin merged,
             \A v \in Uploads \ {u} : v \in processing' <=> v \in processing
      PROVE  Lifecycle!Process(u)
  <2>1. StageOf(u) = "processed" /\ StageOf(u)' = "processed"
    BY <1>b DEF StageOf
  <2>2. \A v \in Uploads \ {u} : StageOf(v)' = StageOf(v)
    BY <1>b DEF StageOf, Scheduled
  <2>3. processed \cup merged \subseteq Uploads
    BY <1>a DEF Scheduled
  <2>4. G' = G \cup {u} \/ G' = G \ {u}
    <3>1. CASE res'[u] = "ok"
      BY <1>b, <2>3, <3>1
    <3>2. CASE res'[u] # "ok"
      BY <1>b, <2>3, <3>2
    <3> QED
      BY <3>1, <3>2
  <2> QED
    BY <1>b, <2>1, <2>2, <2>4 DEF Lifecycle!Process, Lifecycle!Advance
<1>5. ASSUME NEW u \in Uploads, ProcStart(u)
      PROVE [Lifecycle!Next]_(Lifecycle!vars)
  <2>1. Lifecycle!Receive({u}) \/ UNCHANGED Lifecycle!vars
    BY <1>5, <1>3, <1>a DEF ProcStart
  <2> QED
    BY <2>1 DEF Lifecycle!Next
<1>6. ASSUME NEW u \in Uploads, BuildSuccess(u) \/ BuildError(u)
      PROVE  Lifecycle!Process(u) \/ UNCHANGED Lifecycle!vars
  <2>1. /\ UNCHANGED <<batch, processing, processed, merged, report>> /\ u \notin merged
        /\ \A v \in Uploads \ {u} : res'[v] = res[v]
    BY <1>6, <1>a DEF BuildSuccess, BuildError
  <2>2. CASE u \in processed
    BY <1>b, <2>1, <2>2
  <2>3. CASE u \notin processed
    BY <1>a, <2>1, <2>3, LifecycleStutter DEF Scheduled
  <2> QED
    BY <2>2, <2>3
<1>7. ASSUME NEW u \in Uploads,
             BuildRetry(u) \/ ProcReturn(u) \/ ProcRaise(u)
      PROVE  [Lifecycle!Next]_(Lifecycle!vars)
  <2>1. Lifecycle!Clear(u) \/ UNCHANGED Lifecycle!vars
    BY <1>7, <1>4 DEF BuildRetry, ProcReturn, ProcRaise
  <2> QED
    BY <2>1 DEF Lifecycle!Next
<1>8. ASSUME NEW u \in Uploads, MarkUploadAsProcessed(u)
      PROVE Lifecycle!Process(u)
  <2>1. /\ proc[u] = "built" /\ u \in Scheduled /\ u \notin merged
        /\ processing' = processing \ {u} /\ processed' = processed \cup {u}
        /\ UNCHANGED <<batch, merged, report, res>>
    BY <1>8, <1>a DEF MarkUploadAsProcessed
  <2>2. StageOf(u) \in {"processing", "cleared", "processed"} /\ StageOf(u)' = "processed"
    BY <2>1 DEF StageOf, Scheduled
  <2>3. \A v \in Uploads \ {u} : StageOf(v)' = StageOf(v)
    BY <2>1 DEF StageOf, Scheduled
  <2>4. G' = G \cup {u} \/ G' = G \ {u}
    BY <2>1
  <2> QED
    BY <2>1, <2>2, <2>3, <2>4 DEF Lifecycle!Process, Lifecycle!Advance
<1>9. ASSUME NEW u \in Uploads, ProcStartDbError(u) \/ ProcDbError(u)
      PROVE [Lifecycle!Next]_(Lifecycle!vars)
  <2>1. /\ UNCHANGED <<batch, processed, merged, report>>
        /\ u \in Scheduled /\ u \notin merged
        /\ \A v \in Uploads \ {u} : res'[v] = res[v]
    BY <1>9, <1>a DEF ProcStartDbError, ProcDbError, RetryOrNull
  <2>2. \/ processing' = processing \/ processing' = processing \cup {u}
        \/ processing' = processing \ {u}
    BY <1>9 DEF ProcStartDbError, ProcDbError
  <2>3. CASE u \in processed
    <3>1. Lifecycle!Process(u)
      BY <1>b, <2>1, <2>2, <2>3
    <3> QED
      BY <3>1 DEF Lifecycle!Next
  <2>4. CASE u \notin processed
    <3>1. \A v \in processed \cup merged : res'[v] = res[v]
      BY <1>a, <2>1, <2>4 DEF Scheduled
    <3>2. CASE processing' = processing
      BY <2>1, <3>1, <3>2, LifecycleStutter
    <3>3. CASE processing' = processing \cup {u}
      BY <1>3, <2>1, <3>1, <3>3 DEF Lifecycle!Next
    <3>4. CASE processing' = processing \ {u}
      BY <1>4, <2>1, <3>1, <3>4 DEF Lifecycle!Next
    <3> QED
      BY <2>2, <3>2, <3>3, <3>4
  <2> QED
    BY <2>3, <2>4
<1>11. ASSUME NEW u \in Uploads, ProcKilled(u) PROVE UNCHANGED Lifecycle!vars
  BY <1>11, LifecycleStutter DEF ProcKilled
<1>12. ASSUME NEW u \in Uploads, ExpireIntermediate(u) PROVE FALSE
  BY <1>12 DEF ExpireIntermediate
<1>13. ASSUME NEW c \in Chords, MergeAndSaveReport(c)
       PROVE Lifecycle!Publish(Mergeable(c))
  <2>1. /\ report' = report \cup Mergeable(c)
        /\ UNCHANGED <<batch, processing, processed, merged, res>>
    BY <1>13 DEF MergeAndSaveReport, LockInv
  <2>2. \A u \in Mergeable(c) : u \in G /\ StageOf(u) = "processed"
    BY <1>13 DEF MergeAndSaveReport, Mergeable, RedisInv, MergedInv, Unmerged,
       StageOf
  <2>3. S' = S /\ G' = G
    BY <2>1 DEF StageOf, Scheduled
  <2>4. Mergeable(c) \subseteq Uploads
    BY DEF Mergeable
  <2> QED
    BY <2>1, <2>2, <2>3, <2>4 DEF Lifecycle!Publish, Lifecycle!InStage
<1>14. ASSUME NEW c \in Chords, MarkUploadsAsMerged(c)
       PROVE Lifecycle!Merge(batch[c])
  <2>1. /\ processed' = processed \ batch[c] /\ merged' = merged \cup batch[c]
        /\ UNCHANGED <<batch, processing, report, res>>
    BY <1>14 DEF MarkUploadsAsMerged
  <2>2. batch[c] \subseteq processed /\ batch[c] \cap merged = {}
    BY <1>14 DEF MarkUploadsAsMerged, RedisInv, MergedInv, Unmerged
  <2>3. \A u \in batch[c] : StageOf(u) = "processed" /\ StageOf(u)' = "merged"
    BY <2>1, <2>2 DEF StageOf
  <2>4. \A u \in Uploads \ batch[c] : StageOf(u)' = StageOf(u)
    BY <2>1 DEF StageOf, Scheduled
  <2>5. G' = G
    BY <2>1, <2>2
  <2>6. batch[c] \cap G \subseteq report
    BY <1>14 DEF MarkUploadsAsMerged, ReportInv
  <2> QED
    BY <2>1, <2>3, <2>4, <2>5, <2>6 DEF Lifecycle!Merge, Lifecycle!Advance,
       Lifecycle!InStage
<1>15. ASSUME NEW c \in Chords, ApplyChord(c) PROVE UNCHANGED Lifecycle!vars
  BY <1>15, LifecycleStutter DEF ApplyChord
<1>16. ASSUME NEW c \in Chords, FinStart(c) PROVE UNCHANGED Lifecycle!vars
  BY <1>16, LifecycleStutter DEF FinStart
<1>17. ASSUME NEW c \in Chords, AcquireReportLock(c)
       PROVE UNCHANGED Lifecycle!vars
  BY <1>17, LifecycleStutter DEF AcquireReportLock
<1>18. ASSUME NEW c \in Chords, ReportLockTimeout(c)
       PROVE UNCHANGED Lifecycle!vars
  BY <1>18, LifecycleStutter DEF ReportLockTimeout
<1>19. ASSUME NEW c \in Chords, GetExistingReport(c)
       PROVE UNCHANGED Lifecycle!vars
  BY <1>19, LifecycleStutter DEF GetExistingReport
<1>20. ASSUME NEW c \in Chords, CommitDb(c) PROVE UNCHANGED Lifecycle!vars
  BY <1>20, LifecycleStutter DEF CommitDb
<1>21. ASSUME NEW c \in Chords, ReleaseReportLock(c)
       PROVE UNCHANGED Lifecycle!vars
  BY <1>21, LifecycleStutter DEF ReleaseReportLock
<1>22. ASSUME NEW c \in Chords, CleanupIntermediateReports(c)
       PROVE UNCHANGED Lifecycle!vars
  BY <1>22, LifecycleStutter DEF CleanupIntermediateReports
<1>23. ASSUME NEW c \in Chords, ReadProcessing(c)
       PROVE UNCHANGED Lifecycle!vars
  BY <1>23, LifecycleStutter DEF ReadProcessing
<1>24. ASSUME NEW c \in Chords, ReadProcessed(c) PROVE UNCHANGED Lifecycle!vars
  BY <1>24, LifecycleStutter DEF ReadProcessed
<1>25. ASSUME NEW c \in Chords, AcquireFinisherLock(c)
       PROVE UNCHANGED Lifecycle!vars
  BY <1>25, LifecycleStutter DEF AcquireFinisherLock
<1>26. ASSUME NEW c \in Chords, FinisherLockTimeout(c)
       PROVE UNCHANGED Lifecycle!vars
  BY <1>26, LifecycleStutter DEF FinisherLockTimeout
<1>27. ASSUME NEW c \in Chords, Postprocess(c) PROVE UNCHANGED Lifecycle!vars
  BY <1>27, LifecycleStutter DEF Postprocess
<1>28. ASSUME NEW c \in Chords, ReleaseFinisherLock(c)
       PROVE UNCHANGED Lifecycle!vars
  BY <1>28, LifecycleStutter DEF ReleaseFinisherLock
<1>29. ASSUME NEW c \in Chords, FinError(c) PROVE UNCHANGED Lifecycle!vars
  BY <1>29, LifecycleStutter DEF FinError
<1>30. ASSUME NEW c \in Chords, FinKilled(c) PROVE UNCHANGED Lifecycle!vars
  BY <1>30, LifecycleStutter DEF FinKilled
<1>31. ASSUME NEW c \in Chords, ReportLockExpires(c)
       PROVE UNCHANGED Lifecycle!vars
  BY <1>31, LifecycleStutter DEF ReportLockExpires
<1>32. ASSUME NEW c \in Chords, FinisherLockExpires(c)
       PROVE UNCHANGED Lifecycle!vars
  BY <1>32, LifecycleStutter DEF FinisherLockExpires
<1>33. ASSUME NEW c \in Chords, FinStartDbError(c)
      PROVE  UNCHANGED Lifecycle!vars
  BY <1>33, LifecycleStutter DEF FinStartDbError
<1>a2. \A u \in Uploads : Lifecycle!Process(u) => Lifecycle!Next
  BY DEF Lifecycle!Next
<1>a3. \A B \in SUBSET Uploads : Lifecycle!Receive(B) \/ Lifecycle!Publish(B) \/ Lifecycle!Merge(B) => Lifecycle!Next
  BY DEF Lifecycle!Next
<1>a4. \A c \in Chords : batch[c] \subseteq Uploads /\ Mergeable(c) \subseteq Uploads
  BY DEF Mergeable
<1> QED
  BY <1>a2, <1>a3, <1>a4, <1>1, <1>2, <1>5, <1>6, <1>7, <1>8, <1>9,
     <1>11, <1>12, <1>13, <1>14, <1>15, <1>16, <1>17, <1>18, <1>19, <1>20,
     <1>21, <1>22, <1>23, <1>24, <1>25, <1>26, <1>27, <1>28, <1>29, <1>30,
     <1>31, <1>32, <1>33
     DEF Next, ProcStep, ProcFault, FinStep, FinFault, LockExpiry

(* On a commit with a carried-forward report the tasks implement the       *)
(* lifecycle of state.py in every behaviour in which no intermediate report*)
(* expires before it is merged.                                            *)
THEOREM LifecycleImplemented ==
    CarriedForward /\ "ttl" \notin Events => (Spec => ImplementsLifecycle)
<1> SUFFICES ASSUME CarriedForward, "ttl" \notin Events
             PROVE  Spec => ImplementsLifecycle
  OBVIOUS
<1>1. Init => Lifecycle!Init
  BY DEF Init, Lifecycle!Init, StageOf, Scheduled
<1>2. IInv /\ [Next]_vars => [Lifecycle!Next]_(Lifecycle!vars)
  BY LifecycleStep
<1> QED
  BY <1>1, <1>2, Invariant, PTL DEF Spec, ImplementsLifecycle, Lifecycle!Spec

=============================================================================
