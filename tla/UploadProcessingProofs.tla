---------------------- MODULE UploadProcessingProofs ------------------------
(***************************************************************************)
(* Proofs about UploadProcessing, for any set of uploads and chords, any   *)
(* retry limits, any yaml and any selection of Events.                     *)
(***************************************************************************)
EXTENDS UploadProcessing, TLAPS

-----------------------------------------------------------------------------
(* The inductive invariant.                                                *)

(* The finisher of the chord has been started with results it can read and *)
(* has neither failed nor died.                                            *)
Started == FinRunning \cup {"done", "gaveup"}

(* ... and has not marked its uploads as merged yet.                       *)
Unmerged == {"waiting", "locked", "merging", "saved", "committed"}

(* The chords partition what was scheduled.                                *)
BatchInv ==
    /\ \A c, d \in Chords : c # d => batch[c] \cap batch[d] = {}
    /\ \A c \in Chords : fin[c] = "idle" => batch[c] = {}

(* Where the processors of a chord can be, given where the chord is.       *)
ProcInv ==
    /\ \A c \in Chords : fin[c] \in {"idle", "scheduling"} =>
            \A u \in batch[c] : proc[u] = "none"
    /\ \A c \in Chords : fin[c] \in Started =>
            \A u \in batch[c] : proc[u] = "done" /\ res[u] # "null"
    /\ \A u \in Uploads : res[u] = "null" => proc[u] = "done"
    /\ \A u \in Uploads : proc[u] = "none" => res[u] = "none"
    /\ \A u \in Uploads : proc[u] # "none" => u \in Scheduled

(* An upload is in "processing" only until its processor is through with   *)
(* it, and in "processed" only until its finisher has merged it; a chord   *)
(* that stopped halfway may leave it there.                                *)
RedisInv ==
    /\ processing \subseteq Scheduled /\ processed \subseteq Scheduled
    /\ \A c \in Chords : \A u \in batch[c] \cap processing :
        /\ fin[c] \in {"scheduling", "header", "failed", "dead"}
        /\ fin[c] = "header" => \/ proc[u] \in {"queued", "running", "built", "failed"}
                                \/ res[u] = "null"
    /\ \A c \in Chords : \A u \in batch[c] \cap processed :
        /\ fin[c] \in Unmerged \cup {"header", "failed", "dead"}
        /\ proc[u] \in {"marked", "done", "failed"} \/ retries[u] > 0
    /\ \A c \in Chords : fin[c] \in Unmerged => batch[c] \subseteq processed
    /\ \A c \in Chords : fin[c] = "header" => \A u \in batch[c] :
        proc[u] \in {"marked", "done"} => u \in processed \/ res[u] = "null"

(* No upload vanishes: it is in one of the sets, or was retried, or its    *)
(* chord is broken.                                                        *)
Accounted(u) ==
    \/ retries[u] > 0
    \/ \E d \in Chords : u \in batch[d] /\ Broken(d)

TrackInv ==
    \A u \in Scheduled : u \in processing \cup processed \cup merged \/ Accounted(u)

(* What a finisher may conclude from the counts it has read.               *)
ElectionInv ==
    /\ \A c \in Chords : fin[c] = "counted" /\ sawNone[c] =>
        \A u \in before[c] : u \in processed \cup merged \/ Accounted(u)
    /\ \A c \in Chords : fin[c] \in {"elected", "posting", "posted"} =>
        \A u \in before[c] : u \in merged \/ Accounted(u)

(* Chord c may still become the one that postprocesses.                    *)
Hopeful(c) ==
    \/ fin[c] \in InReportLock \cup {"scheduling", "header", "waiting",
                                     "released", "cleaned", "elected", "posting"}
    \/ fin[c] = "counted" /\ sawNone[c]

HandoverInv ==
    ~(merged \subseteq AllCovered) =>
        \E c \in Chords : Hopeful(c) \/ Broken(c)

(* A notification of all the coverage can no longer be expected of c: it is*)
(* broken, or its finisher runs with an unsuccessful result.               *)
Spoiled(c) ==
    \/ Broken(c)
    \/ fin[c] \in Started /\ \E u \in batch[c] : res[u] # "ok"

(* Coverage that no notification has covered yet, though enough builds are *)
(* there, is still in the hands of some chord.                             *)
NotifiedInv ==
    /\ \A c \in Chords : fin[c] # "idle" => batch[c] # {}
    /\ ~ManualTrigger /\ ~CiSkip /\ AfterNBuilds <= Cardinality(report)
            /\ ~(report \subseteq notified)
        => \E c \in Chords : Hopeful(c) \/ Spoiled(c)

(* The report lock is held throughout the read-merge-write of the report,  *)
(* and where a report was carried forward every finisher knows of it.      *)
LockInv ==
    /\ \A c \in Chords : fin[c] \in InReportLock => reportLock = c
    /\ CarriedForward =>
        /\ hasReport
        /\ \A c \in Chords : known[c]
        /\ \A c \in Chords : fin[c] = "merging" => copy[c] = report

(* Intermediate reports live from the processor to the cleanup.            *)
IntermediateInv ==
    /\ intermediate \subseteq Scheduled
    /\ \A c \in Chords : fin[c] \in {"cleaned", "counted", "elected",
                              "posting", "posted", "done", "gaveup"} =>
            batch[c] \cap intermediate = {}

(* Successful uploads are in redis until they are in the report.           *)
ReportInv ==
    CarriedForward /\ "ttl" \notin Events =>
        /\ \A c \in Chords : fin[c] \in {"header", "waiting", "locked", "merging"} =>
                \A u \in batch[c] : res[u] = "ok" => u \in intermediate
        /\ \A c \in Chords : fin[c] \in {"saved", "committed"} =>
                \A u \in batch[c] : res[u] = "ok" => u \in report
        /\ \A u \in merged : res[u] = "ok" => u \in report

(* Only uploads whose processor is through are merged.                     *)
MergedInv ==
    /\ merged \subseteq Scheduled
    /\ \A u \in merged : proc[u] = "done"
    /\ \A c \in Chords : fin[c] \in Unmerged \cup {"idle", "scheduling", "header"} =>
            batch[c] \cap merged = {}

IInv ==
    /\ TypeOK /\ BatchInv /\ ProcInv /\ RedisInv /\ TrackInv /\ ElectionInv
    /\ HandoverInv /\ LockInv /\ IntermediateInv /\ ReportInv /\ MergedInv

-----------------------------------------------------------------------------
(* Every action keeps the types.                                           *)
LEMMA TypeStep ==
    ASSUME TypeOK, [Next]_vars
    PROVE  TypeOK'
<1> USE RetriesAssumption, FreeAssumption DEF TypeOK, ProcStates, Results, FinStates
<1> USE DEF procVars, finVars, redisVars, lockVars, dbVars, postVars, Goto,
            ProcUnchanged, FinUnchanged
<1>1. CASE UNCHANGED vars
  BY <1>1 DEF vars
<1>2. ASSUME NEW c \in Chords, NEW B \in SUBSET Uploads,
             MarkUploadsAsProcessing(c, B)
      PROVE TypeOK'
  BY <1>2 DEF MarkUploadsAsProcessing
<1>3. ASSUME NEW u \in Uploads, ProcStart(u) PROVE TypeOK'
  BY <1>3 DEF ProcStart
<1>4. ASSUME NEW u \in Uploads, BuildSuccess(u) PROVE TypeOK'
  BY <1>4 DEF BuildSuccess
<1>5. ASSUME NEW u \in Uploads, BuildError(u) PROVE TypeOK'
  BY <1>5 DEF BuildError
<1>6. ASSUME NEW u \in Uploads, BuildRetry(u) PROVE TypeOK'
  BY <1>6 DEF BuildRetry
<1>7. ASSUME NEW u \in Uploads, MarkUploadAsProcessed(u) PROVE TypeOK'
  BY <1>7 DEF MarkUploadAsProcessed
<1>8. ASSUME NEW u \in Uploads, ProcReturn(u) PROVE TypeOK'
  BY <1>8 DEF ProcReturn
<1>9. ASSUME NEW u \in Uploads, ProcRaise(u) PROVE TypeOK'
  BY <1>9 DEF ProcRaise
<1>10. ASSUME NEW u \in Uploads, ProcStartDbError(u) PROVE TypeOK'
  BY <1>10 DEF ProcStartDbError, RetryOrNull
<1>11. ASSUME NEW u \in Uploads, ProcDbError(u) PROVE TypeOK'
  BY <1>11 DEF ProcDbError, RetryOrNull
<1>12. ASSUME NEW u \in Uploads, ProcKilled(u) PROVE TypeOK'
  BY <1>12 DEF ProcKilled
<1>13. ASSUME NEW u \in Uploads, ExpireIntermediate(u) PROVE TypeOK'
  BY <1>13 DEF ExpireIntermediate
<1>14. ASSUME NEW c \in Chords, ApplyChord(c) PROVE TypeOK'
  BY <1>14 DEF ApplyChord
<1>15. ASSUME NEW c \in Chords, FinStart(c) PROVE TypeOK'
  BY <1>15 DEF FinStart
<1>16. ASSUME NEW c \in Chords, AcquireReportLock(c) PROVE TypeOK'
  BY <1>16 DEF AcquireReportLock
<1>17. ASSUME NEW c \in Chords, ReportLockTimeout(c) PROVE TypeOK'
  BY <1>17 DEF ReportLockTimeout
<1>18. ASSUME NEW c \in Chords, GetExistingReport(c) PROVE TypeOK'
  BY <1>18 DEF GetExistingReport
<1>19. ASSUME NEW c \in Chords, MergeAndSaveReport(c) PROVE TypeOK'
  BY <1>19 DEF MergeAndSaveReport, Mergeable
<1>20. ASSUME NEW c \in Chords, CommitDb(c) PROVE TypeOK'
  BY <1>20 DEF CommitDb, UpdatedUploads
<1>21. ASSUME NEW c \in Chords, MarkUploadsAsMerged(c) PROVE TypeOK'
  BY <1>21 DEF MarkUploadsAsMerged
<1>22. ASSUME NEW c \in Chords, ReleaseReportLock(c) PROVE TypeOK'
  BY <1>22 DEF ReleaseReportLock
<1>23. ASSUME NEW c \in Chords, CleanupIntermediateReports(c) PROVE TypeOK'
  BY <1>23 DEF CleanupIntermediateReports
<1>24. ASSUME NEW c \in Chords, ReadProcessing(c) PROVE TypeOK'
  BY <1>24 DEF ReadProcessing, Scheduled
<1>25. ASSUME NEW c \in Chords, ReadProcessed(c) PROVE TypeOK'
  BY <1>25 DEF ReadProcessed
<1>26. ASSUME NEW c \in Chords, AcquireFinisherLock(c) PROVE TypeOK'
  BY <1>26 DEF AcquireFinisherLock
<1>27. ASSUME NEW c \in Chords, FinisherLockTimeout(c) PROVE TypeOK'
  BY <1>27 DEF FinisherLockTimeout
<1>28. ASSUME NEW c \in Chords, Postprocess(c) PROVE TypeOK'
  BY <1>28 DEF Postprocess
<1>29. ASSUME NEW c \in Chords, ReleaseFinisherLock(c) PROVE TypeOK'
  BY <1>29 DEF ReleaseFinisherLock
<1>30. ASSUME NEW c \in Chords, FinError(c) PROVE TypeOK'
  BY <1>30 DEF FinError, UpdatedUploads
<1>31. ASSUME NEW c \in Chords, FinKilled(c) PROVE TypeOK'
  BY <1>31 DEF FinKilled
<1>32. ASSUME NEW c \in Chords, ReportLockExpires(c) PROVE TypeOK'
  BY <1>32 DEF ReportLockExpires
<1>33. ASSUME NEW c \in Chords, FinisherLockExpires(c) PROVE TypeOK'
  BY <1>33 DEF FinisherLockExpires
<1>34. ASSUME NEW c \in Chords, FinStartDbError(c)
      PROVE  TypeOK'
  BY <1>34 DEF FinStartDbError
<1> QED
  BY <1>1, <1>2, <1>3, <1>4, <1>5, <1>6, <1>7, <1>8, <1>9, <1>10, <1>11, <1>12,
     <1>13, <1>14, <1>15, <1>16, <1>17, <1>18, <1>19, <1>20, <1>21, <1>22,
     <1>23, <1>24, <1>25, <1>26, <1>27, <1>28, <1>29, <1>30, <1>31, <1>32,
     <1>33, <1>34
     DEF Next, ProcStep, ProcFault, FinStep, FinFault, LockExpiry

(* Only scheduling changes a batch, and it takes unscheduled uploads.      *)
LEMMA BatchStep ==
    ASSUME TypeOK, BatchInv, [Next]_vars
    PROVE  BatchInv'
<1> USE DEF TypeOK, BatchInv, Scheduled, FinStates
<1> USE DEF procVars, finVars, redisVars, lockVars, dbVars, postVars, Goto,
            ProcUnchanged, FinUnchanged
<1>1. CASE UNCHANGED vars
  BY <1>1 DEF vars
<1>2. ASSUME NEW c \in Chords, NEW B \in SUBSET Uploads,
             MarkUploadsAsProcessing(c, B)
      PROVE BatchInv'
  BY <1>2 DEF MarkUploadsAsProcessing
<1>3. ASSUME NEW u \in Uploads, ProcStart(u) PROVE BatchInv'
  BY <1>3 DEF ProcStart
<1>4. ASSUME NEW u \in Uploads, BuildSuccess(u) PROVE BatchInv'
  BY <1>4 DEF BuildSuccess
<1>5. ASSUME NEW u \in Uploads, BuildError(u) PROVE BatchInv'
  BY <1>5 DEF BuildError
<1>6. ASSUME NEW u \in Uploads, BuildRetry(u) PROVE BatchInv'
  BY <1>6 DEF BuildRetry
<1>7. ASSUME NEW u \in Uploads, MarkUploadAsProcessed(u) PROVE BatchInv'
  BY <1>7 DEF MarkUploadAsProcessed
<1>8. ASSUME NEW u \in Uploads, ProcReturn(u) PROVE BatchInv'
  BY <1>8 DEF ProcReturn
<1>9. ASSUME NEW u \in Uploads, ProcRaise(u) PROVE BatchInv'
  BY <1>9 DEF ProcRaise
<1>10. ASSUME NEW u \in Uploads, ProcStartDbError(u) PROVE BatchInv'
  BY <1>10 DEF ProcStartDbError, RetryOrNull
<1>11. ASSUME NEW u \in Uploads, ProcDbError(u) PROVE BatchInv'
  BY <1>11 DEF ProcDbError, RetryOrNull
<1>12. ASSUME NEW u \in Uploads, ProcKilled(u) PROVE BatchInv'
  BY <1>12 DEF ProcKilled
<1>13. ASSUME NEW u \in Uploads, ExpireIntermediate(u) PROVE BatchInv'
  BY <1>13 DEF ExpireIntermediate
<1>14. ASSUME NEW c \in Chords, ApplyChord(c) PROVE BatchInv'
  BY <1>14 DEF ApplyChord
<1>15. ASSUME NEW c \in Chords, FinStart(c) PROVE BatchInv'
  BY <1>15 DEF FinStart
<1>16. ASSUME NEW c \in Chords, AcquireReportLock(c) PROVE BatchInv'
  BY <1>16 DEF AcquireReportLock
<1>17. ASSUME NEW c \in Chords, ReportLockTimeout(c) PROVE BatchInv'
  BY <1>17 DEF ReportLockTimeout
<1>18. ASSUME NEW c \in Chords, GetExistingReport(c) PROVE BatchInv'
  BY <1>18 DEF GetExistingReport
<1>19. ASSUME NEW c \in Chords, MergeAndSaveReport(c) PROVE BatchInv'
  BY <1>19 DEF MergeAndSaveReport
<1>20. ASSUME NEW c \in Chords, CommitDb(c) PROVE BatchInv'
  BY <1>20 DEF CommitDb
<1>21. ASSUME NEW c \in Chords, MarkUploadsAsMerged(c) PROVE BatchInv'
  BY <1>21 DEF MarkUploadsAsMerged
<1>22. ASSUME NEW c \in Chords, ReleaseReportLock(c) PROVE BatchInv'
  BY <1>22 DEF ReleaseReportLock
<1>23. ASSUME NEW c \in Chords, CleanupIntermediateReports(c) PROVE BatchInv'
  BY <1>23 DEF CleanupIntermediateReports
<1>24. ASSUME NEW c \in Chords, ReadProcessing(c) PROVE BatchInv'
  BY <1>24 DEF ReadProcessing
<1>25. ASSUME NEW c \in Chords, ReadProcessed(c) PROVE BatchInv'
  BY <1>25 DEF ReadProcessed
<1>26. ASSUME NEW c \in Chords, AcquireFinisherLock(c) PROVE BatchInv'
  BY <1>26 DEF AcquireFinisherLock
<1>27. ASSUME NEW c \in Chords, FinisherLockTimeout(c) PROVE BatchInv'
  BY <1>27 DEF FinisherLockTimeout
<1>28. ASSUME NEW c \in Chords, Postprocess(c) PROVE BatchInv'
  BY <1>28 DEF Postprocess
<1>29. ASSUME NEW c \in Chords, ReleaseFinisherLock(c) PROVE BatchInv'
  BY <1>29 DEF ReleaseFinisherLock
<1>30. ASSUME NEW c \in Chords, FinError(c) PROVE BatchInv'
  BY <1>30 DEF FinError
<1>31. ASSUME NEW c \in Chords, FinKilled(c) PROVE BatchInv'
  BY <1>31 DEF FinKilled
<1>32. ASSUME NEW c \in Chords, ReportLockExpires(c) PROVE BatchInv'
  BY <1>32 DEF ReportLockExpires
<1>33. ASSUME NEW c \in Chords, FinisherLockExpires(c) PROVE BatchInv'
  BY <1>33 DEF FinisherLockExpires
<1>34. ASSUME NEW c \in Chords, FinStartDbError(c)
      PROVE  BatchInv'
  BY <1>34 DEF FinStartDbError
<1> QED
  BY <1>1, <1>2, <1>3, <1>4, <1>5, <1>6, <1>7, <1>8, <1>9, <1>10, <1>11, <1>12,
     <1>13, <1>14, <1>15, <1>16, <1>17, <1>18, <1>19, <1>20, <1>21, <1>22,
     <1>23, <1>24, <1>25, <1>26, <1>27, <1>28, <1>29, <1>30, <1>31, <1>32,
     <1>33, <1>34
     DEF Next, ProcStep, ProcFault, FinStep, FinFault, LockExpiry

(* Processors run between ApplyChord and FinStart.                         *)
LEMMA ProcInvStep ==
    ASSUME TypeOK, BatchInv, ProcInv, [Next]_vars
    PROVE  ProcInv'
<1> USE DEF TypeOK, BatchInv, ProcInv, Scheduled,
            Started, Unmerged, FinRunning, InReportLock, InFinisherLock,
            FinStates, ProcStates, Results
<1> USE DEF procVars, finVars, redisVars, lockVars, dbVars, postVars, Goto,
            ProcUnchanged, FinUnchanged
<1>1. CASE UNCHANGED vars
  BY <1>1 DEF vars
<1>2. ASSUME NEW c \in Chords, NEW B \in SUBSET Uploads,
             MarkUploadsAsProcessing(c, B)
      PROVE ProcInv'
  BY <1>2 DEF MarkUploadsAsProcessing
<1>3. ASSUME NEW u \in Uploads, ProcStart(u) PROVE ProcInv'
  BY <1>3 DEF ProcStart
<1>4. ASSUME NEW u \in Uploads, BuildSuccess(u) PROVE ProcInv'
  BY <1>4 DEF BuildSuccess
<1>5. ASSUME NEW u \in Uploads, BuildError(u) PROVE ProcInv'
  BY <1>5 DEF BuildError
<1>6. ASSUME NEW u \in Uploads, BuildRetry(u) PROVE ProcInv'
  BY <1>6 DEF BuildRetry
<1>7. ASSUME NEW u \in Uploads, MarkUploadAsProcessed(u) PROVE ProcInv'
  BY <1>7 DEF MarkUploadAsProcessed
<1>8. ASSUME NEW u \in Uploads, ProcReturn(u) PROVE ProcInv'
  BY <1>8 DEF ProcReturn
<1>9. ASSUME NEW u \in Uploads, ProcRaise(u) PROVE ProcInv'
  BY <1>9 DEF ProcRaise
<1>10. ASSUME NEW u \in Uploads, ProcStartDbError(u) PROVE ProcInv'
  <2>1. /\ proc[u] = "queued" /\ UNCHANGED <<batch, fin>>
        /\ \/ proc' = [proc EXCEPT ![u] = "queued"] /\ UNCHANGED res
           \/ /\ proc' = [proc EXCEPT ![u] = "done"]
              /\ res' = [res EXCEPT ![u] = "null"]
    BY <1>10 DEF ProcStartDbError, RetryOrNull
  <2>2. CASE proc' = [proc EXCEPT ![u] = "queued"] /\ UNCHANGED res
    BY <2>1, <2>2
  <2>3. CASE /\ proc' = [proc EXCEPT ![u] = "done"]
             /\ res' = [res EXCEPT ![u] = "null"]
    BY <2>1, <2>3
  <2> QED
    BY <2>1, <2>2, <2>3
<1>11. ASSUME NEW u \in Uploads, ProcDbError(u) PROVE ProcInv'
  <2>1. /\ proc[u] \notin {"none", "done"} /\ UNCHANGED <<batch, fin>>
        /\ \/ proc' = [proc EXCEPT ![u] = "queued"] /\ UNCHANGED res
           \/ /\ proc' = [proc EXCEPT ![u] = "done"]
              /\ res' = [res EXCEPT ![u] = "null"]
    BY <1>11 DEF ProcDbError, RetryOrNull
  <2>2. CASE proc' = [proc EXCEPT ![u] = "queued"] /\ UNCHANGED res
    BY <2>1, <2>2
  <2>3. CASE /\ proc' = [proc EXCEPT ![u] = "done"]
             /\ res' = [res EXCEPT ![u] = "null"]
    BY <2>1, <2>3
  <2> QED
    BY <2>1, <2>2, <2>3
<1>12. ASSUME NEW u \in Uploads, ProcKilled(u) PROVE ProcInv'
  BY <1>12 DEF ProcKilled
<1>13. ASSUME NEW u \in Uploads, ExpireIntermediate(u) PROVE ProcInv'
  BY <1>13 DEF ExpireIntermediate
<1>14. ASSUME NEW c \in Chords, ApplyChord(c) PROVE ProcInv'
  BY <1>14 DEF ApplyChord
<1>15. ASSUME NEW c \in Chords, FinStart(c) PROVE ProcInv'
  BY <1>15 DEF FinStart
<1>16. ASSUME NEW c \in Chords, AcquireReportLock(c) PROVE ProcInv'
  BY <1>16 DEF AcquireReportLock
<1>17. ASSUME NEW c \in Chords, ReportLockTimeout(c) PROVE ProcInv'
  BY <1>17 DEF ReportLockTimeout
<1>18. ASSUME NEW c \in Chords, GetExistingReport(c) PROVE ProcInv'
  BY <1>18 DEF GetExistingReport
<1>19. ASSUME NEW c \in Chords, MergeAndSaveReport(c) PROVE ProcInv'
  BY <1>19 DEF MergeAndSaveReport
<1>20. ASSUME NEW c \in Chords, CommitDb(c) PROVE ProcInv'
  BY <1>20 DEF CommitDb
<1>21. ASSUME NEW c \in Chords, MarkUploadsAsMerged(c) PROVE ProcInv'
  BY <1>21 DEF MarkUploadsAsMerged
<1>22. ASSUME NEW c \in Chords, ReleaseReportLock(c) PROVE ProcInv'
  BY <1>22 DEF ReleaseReportLock
<1>23. ASSUME NEW c \in Chords, CleanupIntermediateReports(c) PROVE ProcInv'
  BY <1>23 DEF CleanupIntermediateReports
<1>24. ASSUME NEW c \in Chords, ReadProcessing(c) PROVE ProcInv'
  BY <1>24 DEF ReadProcessing
<1>25. ASSUME NEW c \in Chords, ReadProcessed(c) PROVE ProcInv'
  BY <1>25 DEF ReadProcessed
<1>26. ASSUME NEW c \in Chords, AcquireFinisherLock(c) PROVE ProcInv'
  BY <1>26 DEF AcquireFinisherLock
<1>27. ASSUME NEW c \in Chords, FinisherLockTimeout(c) PROVE ProcInv'
  BY <1>27 DEF FinisherLockTimeout
<1>28. ASSUME NEW c \in Chords, Postprocess(c) PROVE ProcInv'
  BY <1>28 DEF Postprocess
<1>29. ASSUME NEW c \in Chords, ReleaseFinisherLock(c) PROVE ProcInv'
  BY <1>29 DEF ReleaseFinisherLock
<1>30. ASSUME NEW c \in Chords, FinError(c) PROVE ProcInv'
  BY <1>30 DEF FinError
<1>31. ASSUME NEW c \in Chords, FinKilled(c) PROVE ProcInv'
  BY <1>31 DEF FinKilled
<1>32. ASSUME NEW c \in Chords, ReportLockExpires(c) PROVE ProcInv'
  BY <1>32 DEF ReportLockExpires
<1>33. ASSUME NEW c \in Chords, FinisherLockExpires(c) PROVE ProcInv'
  BY <1>33 DEF FinisherLockExpires
<1>34. ASSUME NEW c \in Chords, FinStartDbError(c)
      PROVE  ProcInv'
  BY <1>34 DEF FinStartDbError
<1> QED
  BY <1>1, <1>2, <1>3, <1>4, <1>5, <1>6, <1>7, <1>8, <1>9, <1>10, <1>11, <1>12,
     <1>13, <1>14, <1>15, <1>16, <1>17, <1>18, <1>19, <1>20, <1>21, <1>22,
     <1>23, <1>24, <1>25, <1>26, <1>27, <1>28, <1>29, <1>30, <1>31, <1>32,
     <1>33, <1>34
     DEF Next, ProcStep, ProcFault, FinStep, FinFault, LockExpiry

(* The redis sets follow the processors and the finishers.                 *)
LEMMA RedisStep ==
    ASSUME TypeOK, BatchInv, ProcInv, RedisInv, [Next]_vars
    PROVE  RedisInv'
<1> USE DEF TypeOK, BatchInv, ProcInv, RedisInv, Scheduled,
            Started, Unmerged, FinRunning, InReportLock, InFinisherLock,
            FinStates, ProcStates, Results
<1> USE DEF procVars, finVars, redisVars, lockVars, dbVars, postVars, Goto,
            ProcUnchanged, FinUnchanged
<1>1. CASE UNCHANGED vars
  BY <1>1 DEF vars
<1>2. ASSUME NEW c \in Chords, NEW B \in SUBSET Uploads,
             MarkUploadsAsProcessing(c, B)
      PROVE RedisInv'
  BY <1>2 DEF MarkUploadsAsProcessing
<1>3. ASSUME NEW u \in Uploads, ProcStart(u) PROVE RedisInv'
  <2>1. ASSUME NEW c \in Chords, u \in batch[c]
        PROVE fin[c] \in {"header", "failed", "dead"}
    BY <1>3, <2>1 DEF ProcStart
  <2>2. u \in Scheduled
    BY <1>3 DEF ProcStart
  <2> QED
    BY <1>3, <2>1, <2>2 DEF ProcStart
<1>4. ASSUME NEW u \in Uploads, BuildSuccess(u) PROVE RedisInv'
  BY <1>4 DEF BuildSuccess
<1>5. ASSUME NEW u \in Uploads, BuildError(u) PROVE RedisInv'
  BY <1>5 DEF BuildError
<1>6. ASSUME NEW u \in Uploads, BuildRetry(u) PROVE RedisInv'
  BY <1>6 DEF BuildRetry
<1>7. ASSUME NEW u \in Uploads, MarkUploadAsProcessed(u) PROVE RedisInv'
  <2>1. /\ proc[u] = "built" /\ proc' = [proc EXCEPT ![u] = "marked"]
        /\ processing' = processing \ {u} /\ processed' = processed \cup {u}
        /\ UNCHANGED <<fin, batch, res, retries>>
    BY <1>7 DEF MarkUploadAsProcessed
  <2>2. u \in Scheduled /\ proc'[u] = "marked"
    BY <2>1
  <2>3. ASSUME NEW c \in Chords, u \in batch[c]
        PROVE  fin[c] \in {"header", "failed", "dead"}
    BY <2>1, <2>3
  <2>4. \A v \in Uploads : v # u => proc'[v] = proc[v]
    BY <2>1
  <2>5. \A c \in Chords : \A v \in batch[c] \cap processing' : v # u /\ v \in processing
    BY <2>1
  <2> QED
    BY <2>1, <2>2, <2>3, <2>4, <2>5
<1>8. ASSUME NEW u \in Uploads, ProcReturn(u) PROVE RedisInv'
  BY <1>8 DEF ProcReturn
<1>9. ASSUME NEW u \in Uploads, ProcRaise(u) PROVE RedisInv'
  BY <1>9 DEF ProcRaise
<1>10. ASSUME NEW u \in Uploads, ProcStartDbError(u) PROVE RedisInv'
  <2>1. proc[u] = "queued" /\ u \in Scheduled
    BY <1>10 DEF ProcStartDbError
  <2>2. /\ \/ proc'[u] = "queued" /\ retries'[u] > 0
           \/ res'[u] = "null" /\ proc'[u] = "done"
        /\ \A v \in Uploads : v # u => /\ proc'[v] = proc[v] /\ res'[v] = res[v]
                                      /\ retries'[v] = retries[v]
    BY <1>10 DEF ProcStartDbError, RetryOrNull
  <2>3. processing' \subseteq processing \cup {u} /\ UNCHANGED <<processed, batch, fin>>
    BY <1>10 DEF ProcStartDbError
  <2>4. ASSUME NEW c \in Chords, u \in batch[c]
        PROVE fin[c] \in {"header", "failed", "dead"}
    BY <2>1, <2>4
  <2>5. processing' \subseteq Scheduled' /\ processed' \subseteq Scheduled'
    <3>1. Scheduled' = Scheduled
      BY <2>3
    <3>2. processing \subseteq Scheduled /\ processed \subseteq Scheduled
      OBVIOUS
    <3> HIDE DEF Scheduled, TypeOK, BatchInv, ProcInv, RedisInv
    <3> QED
      BY <2>1, <2>3, <3>1, <3>2
  <2>6. \A c \in Chords : \A v \in batch'[c] \cap processing' :
          /\ fin'[c] \in {"scheduling", "header", "failed", "dead"}
          /\ fin'[c] = "header" => \/ proc'[v] \in {"queued", "running", "built", "failed"}
                                   \/ res'[v] = "null"
    BY <2>2, <2>3, <2>4
  <2>7. \A c \in Chords : \A v \in batch'[c] \cap processed' :
          /\ fin'[c] \in Unmerged \cup {"header", "failed", "dead"}
          /\ proc'[v] \in {"marked", "done", "failed"} \/ retries'[v] > 0
    BY <2>2, <2>3
  <2>8. \A c \in Chords : fin'[c] \in Unmerged => batch'[c] \subseteq processed'
    BY <2>3
  <2>9. \A c \in Chords : fin'[c] = "header" => \A v \in batch'[c] :
          proc'[v] \in {"marked", "done"} => v \in processed' \/ res'[v] = "null"
    BY <2>2, <2>3
  <2> QED
    BY <2>5, <2>6, <2>7, <2>8, <2>9 DEF RedisInv
<1>11. ASSUME NEW u \in Uploads, ProcDbError(u) PROVE RedisInv'
  <2>1. proc[u] \in {"running", "built", "marked"} /\ u \in Scheduled
    BY <1>11 DEF ProcDbError
  <2>2. /\ \/ proc'[u] = "queued" /\ retries'[u] > 0
           \/ res'[u] = "null" /\ proc'[u] = "done"
        /\ \A v \in Uploads : v # u => /\ proc'[v] = proc[v] /\ res'[v] = res[v]
                                      /\ retries'[v] = retries[v]
    BY <1>11 DEF ProcDbError, RetryOrNull
  <2>3. processing' = processing \ {u} /\ UNCHANGED <<processed, batch, fin>>
    BY <1>11 DEF ProcDbError
  <2>4. ASSUME NEW c \in Chords, u \in batch[c]
        PROVE fin[c] \in {"header", "failed", "dead"}
    BY <2>1, <2>4
  <2>5. processing' \subseteq Scheduled' /\ processed' \subseteq Scheduled'
    BY <2>1, <2>3
  <2>6. \A c \in Chords : \A v \in batch'[c] \cap processing' :
          /\ fin'[c] \in {"scheduling", "header", "failed", "dead"}
          /\ fin'[c] = "header" => \/ proc'[v] \in {"queued", "running", "built", "failed"}
                                   \/ res'[v] = "null"
    BY <2>2, <2>3, <2>4
  <2>7. \A c \in Chords : \A v \in batch'[c] \cap processed' :
          /\ fin'[c] \in Unmerged \cup {"header", "failed", "dead"}
          /\ proc'[v] \in {"marked", "done", "failed"} \/ retries'[v] > 0
    BY <2>2, <2>3
  <2>8. \A c \in Chords : fin'[c] \in Unmerged => batch'[c] \subseteq processed'
    BY <2>3
  <2>9. \A c \in Chords : fin'[c] = "header" => \A v \in batch'[c] :
          proc'[v] \in {"marked", "done"} => v \in processed' \/ res'[v] = "null"
    BY <2>2, <2>3
  <2> QED
    BY <2>5, <2>6, <2>7, <2>8, <2>9 DEF RedisInv
<1>12. ASSUME NEW u \in Uploads, ProcKilled(u) PROVE RedisInv'
  BY <1>12 DEF ProcKilled
<1>13. ASSUME NEW u \in Uploads, ExpireIntermediate(u) PROVE RedisInv'
  BY <1>13 DEF ExpireIntermediate
<1>14. ASSUME NEW c \in Chords, ApplyChord(c) PROVE RedisInv'
  BY <1>14 DEF ApplyChord
<1>15. ASSUME NEW c \in Chords, FinStart(c) PROVE RedisInv'
  BY <1>15 DEF FinStart
<1>16. ASSUME NEW c \in Chords, AcquireReportLock(c) PROVE RedisInv'
  BY <1>16 DEF AcquireReportLock
<1>17. ASSUME NEW c \in Chords, ReportLockTimeout(c) PROVE RedisInv'
  <2>1. /\ fin[c] = "waiting"
        /\ \/ fin' = [fin EXCEPT ![c] = "header"]
           \/ fin' = [fin EXCEPT ![c] = "failed"]
        /\ UNCHANGED <<redisVars, procVars, batch, report, merged>>
    BY <1>17 DEF ReportLockTimeout
  <2>2. CASE fin' = [fin EXCEPT ![c] = "header"]
    BY <2>1, <2>2
  <2>3. CASE fin' = [fin EXCEPT ![c] = "failed"]
    BY <2>1, <2>3
  <2> QED
    BY <2>1, <2>2, <2>3
<1>18. ASSUME NEW c \in Chords, GetExistingReport(c) PROVE RedisInv'
  BY <1>18 DEF GetExistingReport
<1>19. ASSUME NEW c \in Chords, MergeAndSaveReport(c) PROVE RedisInv'
  BY <1>19 DEF MergeAndSaveReport
<1>20. ASSUME NEW c \in Chords, CommitDb(c) PROVE RedisInv'
  BY <1>20 DEF CommitDb
<1>21. ASSUME NEW c \in Chords, MarkUploadsAsMerged(c) PROVE RedisInv'
  BY <1>21 DEF MarkUploadsAsMerged
<1>22. ASSUME NEW c \in Chords, ReleaseReportLock(c) PROVE RedisInv'
  BY <1>22 DEF ReleaseReportLock
<1>23. ASSUME NEW c \in Chords, CleanupIntermediateReports(c) PROVE RedisInv'
  BY <1>23 DEF CleanupIntermediateReports
<1>24. ASSUME NEW c \in Chords, ReadProcessing(c) PROVE RedisInv'
  BY <1>24 DEF ReadProcessing
<1>25. ASSUME NEW c \in Chords, ReadProcessed(c) PROVE RedisInv'
  BY <1>25 DEF ReadProcessed
<1>26. ASSUME NEW c \in Chords, AcquireFinisherLock(c) PROVE RedisInv'
  BY <1>26 DEF AcquireFinisherLock
<1>27. ASSUME NEW c \in Chords, FinisherLockTimeout(c) PROVE RedisInv'
  BY <1>27 DEF FinisherLockTimeout
<1>28. ASSUME NEW c \in Chords, Postprocess(c) PROVE RedisInv'
  BY <1>28 DEF Postprocess
<1>29. ASSUME NEW c \in Chords, ReleaseFinisherLock(c) PROVE RedisInv'
  BY <1>29 DEF ReleaseFinisherLock
<1>30. ASSUME NEW c \in Chords, FinError(c) PROVE RedisInv'
  BY <1>30 DEF FinError
<1>31. ASSUME NEW c \in Chords, FinKilled(c) PROVE RedisInv'
  BY <1>31 DEF FinKilled
<1>32. ASSUME NEW c \in Chords, ReportLockExpires(c) PROVE RedisInv'
  BY <1>32 DEF ReportLockExpires
<1>33. ASSUME NEW c \in Chords, FinisherLockExpires(c) PROVE RedisInv'
  BY <1>33 DEF FinisherLockExpires
<1>34. ASSUME NEW c \in Chords, FinStartDbError(c)
      PROVE  RedisInv'
  <2>1. /\ fin[c] = "header"
        /\ fin' = fin \/ fin' = [fin EXCEPT ![c] = "failed"]
        /\ UNCHANGED <<redisVars, procVars, batch>>
    BY <1>34 DEF FinStartDbError
  <2>2. CASE fin' = fin
    BY <2>1, <2>2
  <2>3. CASE fin' = [fin EXCEPT ![c] = "failed"]
    BY <2>1, <2>3
  <2> QED
    BY <2>1, <2>2, <2>3
<1> QED
  BY <1>1, <1>2, <1>3, <1>4, <1>5, <1>6, <1>7, <1>8, <1>9, <1>10, <1>11, <1>12,
     <1>13, <1>14, <1>15, <1>16, <1>17, <1>18, <1>19, <1>20, <1>21, <1>22,
     <1>23, <1>24, <1>25, <1>26, <1>27, <1>28, <1>29, <1>30, <1>31, <1>32,
     <1>33, <1>34
     DEF Next, ProcStep, ProcFault, FinStep, FinFault, LockExpiry

(* A broken chord stays broken.                                            *)
LEMMA BrokenStable ==
    ASSUME TypeOK, BatchInv, ProcInv, [Next]_vars
    PROVE  (\A d \in Chords : Broken(d) => Broken(d)')
<1> USE DEF TypeOK, BatchInv, ProcInv, Broken, Scheduled,
            Started, Unmerged, FinRunning, InReportLock, InFinisherLock,
            FinStates, ProcStates, Results
<1> USE DEF procVars, finVars, redisVars, lockVars, dbVars, postVars, Goto,
            ProcUnchanged, FinUnchanged
<1>1. CASE UNCHANGED vars
  BY <1>1 DEF vars
<1>2. ASSUME NEW c \in Chords, NEW B \in SUBSET Uploads,
             MarkUploadsAsProcessing(c, B)
      PROVE (\A d \in Chords : Broken(d) => Broken(d)')
  BY <1>2 DEF MarkUploadsAsProcessing
<1>3. ASSUME NEW u \in Uploads, ProcStart(u)
      PROVE (\A d \in Chords : Broken(d) => Broken(d)')
  BY <1>3 DEF ProcStart
<1>4. ASSUME NEW u \in Uploads, BuildSuccess(u)
      PROVE (\A d \in Chords : Broken(d) => Broken(d)')
  BY <1>4 DEF BuildSuccess
<1>5. ASSUME NEW u \in Uploads, BuildError(u)
      PROVE (\A d \in Chords : Broken(d) => Broken(d)')
  BY <1>5 DEF BuildError
<1>6. ASSUME NEW u \in Uploads, BuildRetry(u)
      PROVE (\A d \in Chords : Broken(d) => Broken(d)')
  BY <1>6 DEF BuildRetry
<1>7. ASSUME NEW u \in Uploads, MarkUploadAsProcessed(u)
      PROVE (\A d \in Chords : Broken(d) => Broken(d)')
  BY <1>7 DEF MarkUploadAsProcessed
<1>8. ASSUME NEW u \in Uploads, ProcReturn(u)
      PROVE (\A d \in Chords : Broken(d) => Broken(d)')
  BY <1>8 DEF ProcReturn
<1>9. ASSUME NEW u \in Uploads, ProcRaise(u)
      PROVE (\A d \in Chords : Broken(d) => Broken(d)')
  BY <1>9 DEF ProcRaise
<1>10. ASSUME NEW u \in Uploads, ProcStartDbError(u)
       PROVE (\A d \in Chords : Broken(d) => Broken(d)')
  BY <1>10 DEF ProcStartDbError, RetryOrNull
<1>11. ASSUME NEW u \in Uploads, ProcDbError(u)
       PROVE (\A d \in Chords : Broken(d) => Broken(d)')
  BY <1>11 DEF ProcDbError, RetryOrNull
<1>12. ASSUME NEW u \in Uploads, ProcKilled(u)
       PROVE (\A d \in Chords : Broken(d) => Broken(d)')
  BY <1>12 DEF ProcKilled
<1>13. ASSUME NEW u \in Uploads, ExpireIntermediate(u)
       PROVE (\A d \in Chords : Broken(d) => Broken(d)')
  BY <1>13 DEF ExpireIntermediate
<1>14. ASSUME NEW c \in Chords, ApplyChord(c)
       PROVE (\A d \in Chords : Broken(d) => Broken(d)')
  BY <1>14 DEF ApplyChord
<1>15. ASSUME NEW c \in Chords, FinStart(c)
       PROVE (\A d \in Chords : Broken(d) => Broken(d)')
  BY <1>15 DEF FinStart
<1>16. ASSUME NEW c \in Chords, AcquireReportLock(c)
       PROVE (\A d \in Chords : Broken(d) => Broken(d)')
  BY <1>16 DEF AcquireReportLock
<1>17. ASSUME NEW c \in Chords, ReportLockTimeout(c)
       PROVE (\A d \in Chords : Broken(d) => Broken(d)')
  BY <1>17 DEF ReportLockTimeout
<1>18. ASSUME NEW c \in Chords, GetExistingReport(c)
       PROVE (\A d \in Chords : Broken(d) => Broken(d)')
  BY <1>18 DEF GetExistingReport
<1>19. ASSUME NEW c \in Chords, MergeAndSaveReport(c)
       PROVE (\A d \in Chords : Broken(d) => Broken(d)')
  BY <1>19 DEF MergeAndSaveReport
<1>20. ASSUME NEW c \in Chords, CommitDb(c)
       PROVE (\A d \in Chords : Broken(d) => Broken(d)')
  BY <1>20 DEF CommitDb
<1>21. ASSUME NEW c \in Chords, MarkUploadsAsMerged(c)
       PROVE (\A d \in Chords : Broken(d) => Broken(d)')
  BY <1>21 DEF MarkUploadsAsMerged
<1>22. ASSUME NEW c \in Chords, ReleaseReportLock(c)
       PROVE (\A d \in Chords : Broken(d) => Broken(d)')
  BY <1>22 DEF ReleaseReportLock
<1>23. ASSUME NEW c \in Chords, CleanupIntermediateReports(c)
       PROVE (\A d \in Chords : Broken(d) => Broken(d)')
  BY <1>23 DEF CleanupIntermediateReports
<1>24. ASSUME NEW c \in Chords, ReadProcessing(c)
       PROVE (\A d \in Chords : Broken(d) => Broken(d)')
  BY <1>24 DEF ReadProcessing
<1>25. ASSUME NEW c \in Chords, ReadProcessed(c)
       PROVE (\A d \in Chords : Broken(d) => Broken(d)')
  BY <1>25 DEF ReadProcessed
<1>26. ASSUME NEW c \in Chords, AcquireFinisherLock(c)
       PROVE (\A d \in Chords : Broken(d) => Broken(d)')
  BY <1>26 DEF AcquireFinisherLock
<1>27. ASSUME NEW c \in Chords, FinisherLockTimeout(c)
       PROVE (\A d \in Chords : Broken(d) => Broken(d)')
  BY <1>27 DEF FinisherLockTimeout
<1>28. ASSUME NEW c \in Chords, Postprocess(c)
       PROVE (\A d \in Chords : Broken(d) => Broken(d)')
  BY <1>28 DEF Postprocess
<1>29. ASSUME NEW c \in Chords, ReleaseFinisherLock(c)
       PROVE (\A d \in Chords : Broken(d) => Broken(d)')
  BY <1>29 DEF ReleaseFinisherLock
<1>30. ASSUME NEW c \in Chords, FinError(c)
       PROVE (\A d \in Chords : Broken(d) => Broken(d)')
  BY <1>30 DEF FinError
<1>31. ASSUME NEW c \in Chords, FinKilled(c)
       PROVE (\A d \in Chords : Broken(d) => Broken(d)')
  BY <1>31 DEF FinKilled
<1>32. ASSUME NEW c \in Chords, ReportLockExpires(c)
       PROVE (\A d \in Chords : Broken(d) => Broken(d)')
  BY <1>32 DEF ReportLockExpires
<1>33. ASSUME NEW c \in Chords, FinisherLockExpires(c)
       PROVE (\A d \in Chords : Broken(d) => Broken(d)')
  BY <1>33 DEF FinisherLockExpires
<1>34. ASSUME NEW c \in Chords, FinStartDbError(c)
      PROVE  (\A d \in Chords : Broken(d) => Broken(d)')
  BY <1>34 DEF FinStartDbError
<1> QED
  BY <1>1, <1>2, <1>3, <1>4, <1>5, <1>6, <1>7, <1>8, <1>9, <1>10, <1>11, <1>12,
     <1>13, <1>14, <1>15, <1>16, <1>17, <1>18, <1>19, <1>20, <1>21, <1>22,
     <1>23, <1>24, <1>25, <1>26, <1>27, <1>28, <1>29, <1>30, <1>31, <1>32,
     <1>33, <1>34
     DEF Next, ProcStep, ProcFault, FinStep, FinFault, LockExpiry

(* No upload vanishes from the books.                                      *)
LEMMA TrackStep ==
    ASSUME TypeOK, BatchInv, ProcInv, RedisInv, TrackInv,
           \A d \in Chords : Broken(d) => Broken(d)',
           [Next]_vars
    PROVE  TrackInv'
<1> USE DEF TypeOK, BatchInv, ProcInv, RedisInv, TrackInv, Accounted, Broken,
            Scheduled,
            Started, Unmerged, FinRunning, InReportLock, InFinisherLock,
            FinStates, ProcStates, Results
<1> USE DEF procVars, finVars, redisVars, lockVars, dbVars, postVars, Goto,
            ProcUnchanged, FinUnchanged
<1>1. CASE UNCHANGED vars
  BY <1>1 DEF vars
<1>2. ASSUME NEW c \in Chords, NEW B \in SUBSET Uploads,
             MarkUploadsAsProcessing(c, B)
      PROVE TrackInv'
  <2>1. /\ processing' = processing \cup B
        /\ UNCHANGED <<processed, merged, retries>>
        /\ batch[c] = {} /\ batch'[c] = B
        /\ \A d \in Chords : d # c => batch'[d] = batch[d]
    BY <1>2 DEF MarkUploadsAsProcessing
  <2>2. ASSUME NEW v \in Scheduled'
        PROVE  v \in (processing \cup processed \cup merged)' \/ Accounted(v)'
    <3> HIDE DEF TypeOK, BatchInv, ProcInv, RedisInv, Broken
    <3>1. CASE v \in B
      BY <2>1, <3>1
    <3>2. CASE v \notin B
      <4>1. v \in Scheduled
        BY <2>1, <2>2, <3>2
      <4>2. CASE v \in processing \cup processed \cup merged
        BY <2>1, <4>2
      <4>3. CASE Accounted(v)
        BY <2>1, <4>3
      <4> QED
        BY <4>1, <4>2, <4>3
    <3> QED
      BY <3>1, <3>2
  <2> QED
    BY <2>2
<1>3. ASSUME NEW u \in Uploads, ProcStart(u) PROVE TrackInv'
  BY <1>3 DEF ProcStart
<1>4. ASSUME NEW u \in Uploads, BuildSuccess(u) PROVE TrackInv'
  BY <1>4 DEF BuildSuccess
<1>5. ASSUME NEW u \in Uploads, BuildError(u) PROVE TrackInv'
  BY <1>5 DEF BuildError
<1>6. ASSUME NEW u \in Uploads, BuildRetry(u) PROVE TrackInv'
  BY <1>6 DEF BuildRetry
<1>7. ASSUME NEW u \in Uploads, MarkUploadAsProcessed(u) PROVE TrackInv'
  BY <1>7 DEF MarkUploadAsProcessed
<1>8. ASSUME NEW u \in Uploads, ProcReturn(u) PROVE TrackInv'
  BY <1>8 DEF ProcReturn
<1>9. ASSUME NEW u \in Uploads, ProcRaise(u) PROVE TrackInv'
  BY <1>9 DEF ProcRaise
<1>10. ASSUME NEW u \in Uploads, ProcStartDbError(u) PROVE TrackInv'
  <2>1. /\ UNCHANGED <<batch, processed, merged>>
        /\ processing \subseteq processing'
    BY <1>10 DEF ProcStartDbError
  <2>2. \A v \in Uploads : retries[v] > 0 => retries'[v] > 0
    BY <1>10 DEF ProcStartDbError, RetryOrNull
  <2> QED
    BY <2>1, <2>2 DEF TrackInv, Accounted, Scheduled
<1>11. ASSUME NEW u \in Uploads, ProcDbError(u) PROVE TrackInv'
  <2>1. UNCHANGED <<batch, processed, merged>> /\ processing' = processing \ {u}
    BY <1>11 DEF ProcDbError
  <2>2. /\ \A v \in Uploads : retries[v] > 0 => retries'[v] > 0
        /\ retries'[u] > 0 \/ res'[u] = "null"
    BY <1>11 DEF ProcDbError, RetryOrNull
  <2>3. u \in Scheduled => Accounted(u)'
    BY <2>1, <2>2 DEF Accounted, Broken, Scheduled
  <2>4. \A v \in Uploads : Accounted(v) => Accounted(v)'
    BY <2>1, <2>2 DEF Accounted
  <2>5. Scheduled' = Scheduled /\ Scheduled \subseteq Uploads
    BY <2>1 DEF Scheduled
  <2> HIDE DEF TypeOK, BatchInv, ProcInv, RedisInv, Broken, Scheduled, Accounted
  <2> QED
    BY <2>1, <2>3, <2>4, <2>5 DEF TrackInv
<1>12. ASSUME NEW u \in Uploads, ProcKilled(u) PROVE TrackInv'
  BY <1>12 DEF ProcKilled
<1>13. ASSUME NEW u \in Uploads, ExpireIntermediate(u) PROVE TrackInv'
  BY <1>13 DEF ExpireIntermediate
<1>14. ASSUME NEW c \in Chords, ApplyChord(c) PROVE TrackInv'
  <2>1. UNCHANGED <<batch, processing, processed, merged, retries>>
    BY <1>14 DEF ApplyChord
  <2> HIDE DEF TypeOK, BatchInv, ProcInv, RedisInv, Broken
  <2> QED
    BY <2>1 DEF TrackInv, Accounted, Scheduled
<1>15. ASSUME NEW c \in Chords, FinStart(c) PROVE TrackInv'
  <2>1. UNCHANGED <<batch, processing, processed, merged, retries>>
    BY <1>15 DEF FinStart
  <2> HIDE DEF TypeOK, BatchInv, ProcInv, RedisInv, Broken
  <2> QED
    BY <2>1 DEF TrackInv, Accounted, Scheduled
<1>16. ASSUME NEW c \in Chords, AcquireReportLock(c) PROVE TrackInv'
  <2>1. UNCHANGED <<batch, processing, processed, merged, retries>>
    BY <1>16 DEF AcquireReportLock
  <2> HIDE DEF TypeOK, BatchInv, ProcInv, RedisInv, Broken
  <2> QED
    BY <2>1 DEF TrackInv, Accounted, Scheduled
<1>17. ASSUME NEW c \in Chords, ReportLockTimeout(c) PROVE TrackInv'
  <2>1. UNCHANGED <<batch, processing, processed, merged, retries>>
    BY <1>17 DEF ReportLockTimeout
  <2> HIDE DEF TypeOK, BatchInv, ProcInv, RedisInv, Broken
  <2> QED
    BY <2>1 DEF TrackInv, Accounted, Scheduled
<1>18. ASSUME NEW c \in Chords, GetExistingReport(c) PROVE TrackInv'
  BY <1>18 DEF GetExistingReport
<1>19. ASSUME NEW c \in Chords, MergeAndSaveReport(c) PROVE TrackInv'
  BY <1>19 DEF MergeAndSaveReport
<1>20. ASSUME NEW c \in Chords, CommitDb(c) PROVE TrackInv'
  BY <1>20 DEF CommitDb
<1>21. ASSUME NEW c \in Chords, MarkUploadsAsMerged(c) PROVE TrackInv'
  BY <1>21 DEF MarkUploadsAsMerged
<1>22. ASSUME NEW c \in Chords, ReleaseReportLock(c) PROVE TrackInv'
  BY <1>22 DEF ReleaseReportLock
<1>23. ASSUME NEW c \in Chords, CleanupIntermediateReports(c) PROVE TrackInv'
  BY <1>23 DEF CleanupIntermediateReports
<1>24. ASSUME NEW c \in Chords, ReadProcessing(c) PROVE TrackInv'
  <2>1. UNCHANGED <<processing, processed, merged, retries, batch>>
    BY <1>24 DEF ReadProcessing
  <2> HIDE DEF TypeOK, BatchInv, ProcInv, RedisInv, Broken
  <2> QED
    BY <2>1
<1>25. ASSUME NEW c \in Chords, ReadProcessed(c) PROVE TrackInv'
  BY <1>25 DEF ReadProcessed
<1>26. ASSUME NEW c \in Chords, AcquireFinisherLock(c) PROVE TrackInv'
  BY <1>26 DEF AcquireFinisherLock
<1>27. ASSUME NEW c \in Chords, FinisherLockTimeout(c) PROVE TrackInv'
  BY <1>27 DEF FinisherLockTimeout
<1>28. ASSUME NEW c \in Chords, Postprocess(c) PROVE TrackInv'
  BY <1>28 DEF Postprocess
<1>29. ASSUME NEW c \in Chords, ReleaseFinisherLock(c) PROVE TrackInv'
  BY <1>29 DEF ReleaseFinisherLock
<1>30. ASSUME NEW c \in Chords, FinError(c) PROVE TrackInv'
  BY <1>30 DEF FinError
<1>31. ASSUME NEW c \in Chords, FinKilled(c) PROVE TrackInv'
  BY <1>31 DEF FinKilled
<1>32. ASSUME NEW c \in Chords, ReportLockExpires(c) PROVE TrackInv'
  BY <1>32 DEF ReportLockExpires
<1>33. ASSUME NEW c \in Chords, FinisherLockExpires(c) PROVE TrackInv'
  BY <1>33 DEF FinisherLockExpires
<1>34. ASSUME NEW c \in Chords, FinStartDbError(c)
      PROVE  TrackInv'
  BY <1>34 DEF FinStartDbError
<1> QED
  BY <1>1, <1>2, <1>3, <1>4, <1>5, <1>6, <1>7, <1>8, <1>9, <1>10, <1>11, <1>12,
     <1>13, <1>14, <1>15, <1>16, <1>17, <1>18, <1>19, <1>20, <1>21, <1>22,
     <1>23, <1>24, <1>25, <1>26, <1>27, <1>28, <1>29, <1>30, <1>31, <1>32,
     <1>33, <1>34
     DEF Next, ProcStep, ProcFault, FinStep, FinFault, LockExpiry

(* Read-merge-write of the master report is exclusive.                     *)
LEMMA LockStep ==
    ASSUME TypeOK, LockInv, [Next]_vars
    PROVE  LockInv'
<1> USE DEF TypeOK, LockInv, InReportLock, FinRunning, InFinisherLock,
            FinStates
<1> USE DEF procVars, finVars, redisVars, lockVars, dbVars, postVars, Goto,
            ProcUnchanged, FinUnchanged
<1>1. CASE UNCHANGED vars
  BY <1>1 DEF vars
<1>2. ASSUME NEW c \in Chords, NEW B \in SUBSET Uploads,
             MarkUploadsAsProcessing(c, B)
      PROVE LockInv'
  BY <1>2 DEF MarkUploadsAsProcessing
<1>3. ASSUME NEW u \in Uploads, ProcStart(u) PROVE LockInv'
  BY <1>3 DEF ProcStart
<1>4. ASSUME NEW u \in Uploads, BuildSuccess(u) PROVE LockInv'
  BY <1>4 DEF BuildSuccess
<1>5. ASSUME NEW u \in Uploads, BuildError(u) PROVE LockInv'
  BY <1>5 DEF BuildError
<1>6. ASSUME NEW u \in Uploads, BuildRetry(u) PROVE LockInv'
  BY <1>6 DEF BuildRetry
<1>7. ASSUME NEW u \in Uploads, MarkUploadAsProcessed(u) PROVE LockInv'
  BY <1>7 DEF MarkUploadAsProcessed
<1>8. ASSUME NEW u \in Uploads, ProcReturn(u) PROVE LockInv'
  BY <1>8 DEF ProcReturn
<1>9. ASSUME NEW u \in Uploads, ProcRaise(u) PROVE LockInv'
  BY <1>9 DEF ProcRaise
<1>10. ASSUME NEW u \in Uploads, ProcStartDbError(u) PROVE LockInv'
  BY <1>10 DEF ProcStartDbError, RetryOrNull
<1>11. ASSUME NEW u \in Uploads, ProcDbError(u) PROVE LockInv'
  BY <1>11 DEF ProcDbError, RetryOrNull
<1>12. ASSUME NEW u \in Uploads, ProcKilled(u) PROVE LockInv'
  BY <1>12 DEF ProcKilled
<1>13. ASSUME NEW u \in Uploads, ExpireIntermediate(u) PROVE LockInv'
  BY <1>13 DEF ExpireIntermediate
<1>14. ASSUME NEW c \in Chords, ApplyChord(c) PROVE LockInv'
  BY <1>14 DEF ApplyChord
<1>15. ASSUME NEW c \in Chords, FinStart(c) PROVE LockInv'
  BY <1>15 DEF FinStart
<1>16. ASSUME NEW c \in Chords, AcquireReportLock(c) PROVE LockInv'
  BY <1>16, FreeAssumption DEF AcquireReportLock
<1>17. ASSUME NEW c \in Chords, ReportLockTimeout(c) PROVE LockInv'
  BY <1>17 DEF ReportLockTimeout
<1>18. ASSUME NEW c \in Chords, GetExistingReport(c) PROVE LockInv'
  BY <1>18 DEF GetExistingReport
<1>19. ASSUME NEW c \in Chords, MergeAndSaveReport(c) PROVE LockInv'
  BY <1>19 DEF MergeAndSaveReport
<1>20. ASSUME NEW c \in Chords, CommitDb(c) PROVE LockInv'
  BY <1>20 DEF CommitDb
<1>21. ASSUME NEW c \in Chords, MarkUploadsAsMerged(c) PROVE LockInv'
  BY <1>21 DEF MarkUploadsAsMerged
<1>22. ASSUME NEW c \in Chords, ReleaseReportLock(c) PROVE LockInv'
  BY <1>22 DEF ReleaseReportLock
<1>23. ASSUME NEW c \in Chords, CleanupIntermediateReports(c) PROVE LockInv'
  BY <1>23 DEF CleanupIntermediateReports
<1>24. ASSUME NEW c \in Chords, ReadProcessing(c) PROVE LockInv'
  BY <1>24 DEF ReadProcessing
<1>25. ASSUME NEW c \in Chords, ReadProcessed(c) PROVE LockInv'
  BY <1>25 DEF ReadProcessed
<1>26. ASSUME NEW c \in Chords, AcquireFinisherLock(c) PROVE LockInv'
  BY <1>26 DEF AcquireFinisherLock
<1>27. ASSUME NEW c \in Chords, FinisherLockTimeout(c) PROVE LockInv'
  BY <1>27 DEF FinisherLockTimeout
<1>28. ASSUME NEW c \in Chords, Postprocess(c) PROVE LockInv'
  BY <1>28 DEF Postprocess
<1>29. ASSUME NEW c \in Chords, ReleaseFinisherLock(c) PROVE LockInv'
  BY <1>29 DEF ReleaseFinisherLock
<1>30. ASSUME NEW c \in Chords, FinError(c) PROVE LockInv'
  BY <1>30 DEF FinError
<1>31. ASSUME NEW c \in Chords, FinKilled(c) PROVE LockInv'
  BY <1>31 DEF FinKilled
<1>32. ASSUME NEW c \in Chords, ReportLockExpires(c) PROVE LockInv'
  BY <1>32 DEF ReportLockExpires
<1>33. ASSUME NEW c \in Chords, FinisherLockExpires(c) PROVE LockInv'
  BY <1>33 DEF FinisherLockExpires
<1>34. ASSUME NEW c \in Chords, FinStartDbError(c)
      PROVE  LockInv'
  BY <1>34 DEF FinStartDbError
<1> QED
  BY <1>1, <1>2, <1>3, <1>4, <1>5, <1>6, <1>7, <1>8, <1>9, <1>10, <1>11, <1>12,
     <1>13, <1>14, <1>15, <1>16, <1>17, <1>18, <1>19, <1>20, <1>21, <1>22,
     <1>23, <1>24, <1>25, <1>26, <1>27, <1>28, <1>29, <1>30, <1>31, <1>32,
     <1>33, <1>34
     DEF Next, ProcStep, ProcFault, FinStep, FinFault, LockExpiry

(* A chord's intermediate reports do not come back after the cleanup.      *)
LEMMA IntermediateStep ==
    ASSUME TypeOK, BatchInv, ProcInv, IntermediateInv, [Next]_vars
    PROVE  IntermediateInv'
<1> USE DEF TypeOK, BatchInv, ProcInv, IntermediateInv, Scheduled,
            Started, Unmerged, FinRunning, InReportLock, InFinisherLock,
            FinStates, ProcStates, Results
<1> USE DEF procVars, finVars, redisVars, lockVars, dbVars, postVars, Goto,
            ProcUnchanged, FinUnchanged
<1>1. CASE UNCHANGED vars
  BY <1>1 DEF vars
<1>2. ASSUME NEW c \in Chords, NEW B \in SUBSET Uploads,
             MarkUploadsAsProcessing(c, B)
      PROVE IntermediateInv'
  BY <1>2 DEF MarkUploadsAsProcessing
<1>3. ASSUME NEW u \in Uploads, ProcStart(u) PROVE IntermediateInv'
  BY <1>3 DEF ProcStart
<1>4. ASSUME NEW u \in Uploads, BuildSuccess(u) PROVE IntermediateInv'
  BY <1>4 DEF BuildSuccess
<1>5. ASSUME NEW u \in Uploads, BuildError(u) PROVE IntermediateInv'
  BY <1>5 DEF BuildError
<1>6. ASSUME NEW u \in Uploads, BuildRetry(u) PROVE IntermediateInv'
  BY <1>6 DEF BuildRetry
<1>7. ASSUME NEW u \in Uploads, MarkUploadAsProcessed(u) PROVE IntermediateInv'
  BY <1>7 DEF MarkUploadAsProcessed
<1>8. ASSUME NEW u \in Uploads, ProcReturn(u) PROVE IntermediateInv'
  BY <1>8 DEF ProcReturn
<1>9. ASSUME NEW u \in Uploads, ProcRaise(u) PROVE IntermediateInv'
  BY <1>9 DEF ProcRaise
<1>10. ASSUME NEW u \in Uploads, ProcStartDbError(u) PROVE IntermediateInv'
  BY <1>10 DEF ProcStartDbError, RetryOrNull
<1>11. ASSUME NEW u \in Uploads, ProcDbError(u) PROVE IntermediateInv'
  BY <1>11 DEF ProcDbError, RetryOrNull
<1>12. ASSUME NEW u \in Uploads, ProcKilled(u) PROVE IntermediateInv'
  BY <1>12 DEF ProcKilled
<1>13. ASSUME NEW u \in Uploads, ExpireIntermediate(u) PROVE IntermediateInv'
  BY <1>13 DEF ExpireIntermediate
<1>14. ASSUME NEW c \in Chords, ApplyChord(c) PROVE IntermediateInv'
  BY <1>14 DEF ApplyChord
<1>15. ASSUME NEW c \in Chords, FinStart(c) PROVE IntermediateInv'
  BY <1>15 DEF FinStart
<1>16. ASSUME NEW c \in Chords, AcquireReportLock(c) PROVE IntermediateInv'
  BY <1>16 DEF AcquireReportLock
<1>17. ASSUME NEW c \in Chords, ReportLockTimeout(c) PROVE IntermediateInv'
  BY <1>17 DEF ReportLockTimeout
<1>18. ASSUME NEW c \in Chords, GetExistingReport(c) PROVE IntermediateInv'
  BY <1>18 DEF GetExistingReport
<1>19. ASSUME NEW c \in Chords, MergeAndSaveReport(c) PROVE IntermediateInv'
  BY <1>19 DEF MergeAndSaveReport
<1>20. ASSUME NEW c \in Chords, CommitDb(c) PROVE IntermediateInv'
  BY <1>20 DEF CommitDb
<1>21. ASSUME NEW c \in Chords, MarkUploadsAsMerged(c) PROVE IntermediateInv'
  BY <1>21 DEF MarkUploadsAsMerged
<1>22. ASSUME NEW c \in Chords, ReleaseReportLock(c) PROVE IntermediateInv'
  BY <1>22 DEF ReleaseReportLock
<1>23. ASSUME NEW c \in Chords, CleanupIntermediateReports(c)
       PROVE IntermediateInv'
  BY <1>23 DEF CleanupIntermediateReports
<1>24. ASSUME NEW c \in Chords, ReadProcessing(c) PROVE IntermediateInv'
  BY <1>24 DEF ReadProcessing
<1>25. ASSUME NEW c \in Chords, ReadProcessed(c) PROVE IntermediateInv'
  BY <1>25 DEF ReadProcessed
<1>26. ASSUME NEW c \in Chords, AcquireFinisherLock(c) PROVE IntermediateInv'
  BY <1>26 DEF AcquireFinisherLock
<1>27. ASSUME NEW c \in Chords, FinisherLockTimeout(c) PROVE IntermediateInv'
  BY <1>27 DEF FinisherLockTimeout
<1>28. ASSUME NEW c \in Chords, Postprocess(c) PROVE IntermediateInv'
  BY <1>28 DEF Postprocess
<1>29. ASSUME NEW c \in Chords, ReleaseFinisherLock(c) PROVE IntermediateInv'
  BY <1>29 DEF ReleaseFinisherLock
<1>30. ASSUME NEW c \in Chords, FinError(c) PROVE IntermediateInv'
  BY <1>30 DEF FinError
<1>31. ASSUME NEW c \in Chords, FinKilled(c) PROVE IntermediateInv'
  BY <1>31 DEF FinKilled
<1>32. ASSUME NEW c \in Chords, ReportLockExpires(c) PROVE IntermediateInv'
  BY <1>32 DEF ReportLockExpires
<1>33. ASSUME NEW c \in Chords, FinisherLockExpires(c) PROVE IntermediateInv'
  BY <1>33 DEF FinisherLockExpires
<1>34. ASSUME NEW c \in Chords, FinStartDbError(c)
      PROVE  IntermediateInv'
  BY <1>34 DEF FinStartDbError
<1> QED
  BY <1>1, <1>2, <1>3, <1>4, <1>5, <1>6, <1>7, <1>8, <1>9, <1>10, <1>11, <1>12,
     <1>13, <1>14, <1>15, <1>16, <1>17, <1>18, <1>19, <1>20, <1>21, <1>22,
     <1>23, <1>24, <1>25, <1>26, <1>27, <1>28, <1>29, <1>30, <1>31, <1>32,
     <1>33, <1>34
     DEF Next, ProcStep, ProcFault, FinStep, FinFault, LockExpiry

(* A batch is merged at once, by its finisher.                             *)
LEMMA MergedStep ==
    ASSUME TypeOK, BatchInv, ProcInv, MergedInv, [Next]_vars
    PROVE  MergedInv'
<1> USE DEF TypeOK, BatchInv, ProcInv, MergedInv, Scheduled,
            Started, Unmerged, FinRunning, InReportLock, InFinisherLock,
            FinStates, ProcStates, Results
<1> USE DEF procVars, finVars, redisVars, lockVars, dbVars, postVars, Goto,
            ProcUnchanged, FinUnchanged
<1>1. CASE UNCHANGED vars
  BY <1>1 DEF vars
<1>2. ASSUME NEW c \in Chords, NEW B \in SUBSET Uploads,
             MarkUploadsAsProcessing(c, B)
      PROVE MergedInv'
  BY <1>2 DEF MarkUploadsAsProcessing
<1>3. ASSUME NEW u \in Uploads, ProcStart(u) PROVE MergedInv'
  BY <1>3 DEF ProcStart
<1>4. ASSUME NEW u \in Uploads, BuildSuccess(u) PROVE MergedInv'
  BY <1>4 DEF BuildSuccess
<1>5. ASSUME NEW u \in Uploads, BuildError(u) PROVE MergedInv'
  BY <1>5 DEF BuildError
<1>6. ASSUME NEW u \in Uploads, BuildRetry(u) PROVE MergedInv'
  BY <1>6 DEF BuildRetry
<1>7. ASSUME NEW u \in Uploads, MarkUploadAsProcessed(u) PROVE MergedInv'
  BY <1>7 DEF MarkUploadAsProcessed
<1>8. ASSUME NEW u \in Uploads, ProcReturn(u) PROVE MergedInv'
  BY <1>8 DEF ProcReturn
<1>9. ASSUME NEW u \in Uploads, ProcRaise(u) PROVE MergedInv'
  BY <1>9 DEF ProcRaise
<1>10. ASSUME NEW u \in Uploads, ProcStartDbError(u) PROVE MergedInv'
  BY <1>10 DEF ProcStartDbError, RetryOrNull
<1>11. ASSUME NEW u \in Uploads, ProcDbError(u) PROVE MergedInv'
  BY <1>11 DEF ProcDbError, RetryOrNull
<1>12. ASSUME NEW u \in Uploads, ProcKilled(u) PROVE MergedInv'
  BY <1>12 DEF ProcKilled
<1>13. ASSUME NEW u \in Uploads, ExpireIntermediate(u) PROVE MergedInv'
  BY <1>13 DEF ExpireIntermediate
<1>14. ASSUME NEW c \in Chords, ApplyChord(c) PROVE MergedInv'
  BY <1>14 DEF ApplyChord
<1>15. ASSUME NEW c \in Chords, FinStart(c) PROVE MergedInv'
  BY <1>15 DEF FinStart
<1>16. ASSUME NEW c \in Chords, AcquireReportLock(c) PROVE MergedInv'
  BY <1>16 DEF AcquireReportLock
<1>17. ASSUME NEW c \in Chords, ReportLockTimeout(c) PROVE MergedInv'
  BY <1>17 DEF ReportLockTimeout
<1>18. ASSUME NEW c \in Chords, GetExistingReport(c) PROVE MergedInv'
  BY <1>18 DEF GetExistingReport
<1>19. ASSUME NEW c \in Chords, MergeAndSaveReport(c) PROVE MergedInv'
  BY <1>19 DEF MergeAndSaveReport
<1>20. ASSUME NEW c \in Chords, CommitDb(c) PROVE MergedInv'
  BY <1>20 DEF CommitDb
<1>21. ASSUME NEW c \in Chords, MarkUploadsAsMerged(c) PROVE MergedInv'
  BY <1>21 DEF MarkUploadsAsMerged
<1>22. ASSUME NEW c \in Chords, ReleaseReportLock(c) PROVE MergedInv'
  BY <1>22 DEF ReleaseReportLock
<1>23. ASSUME NEW c \in Chords, CleanupIntermediateReports(c) PROVE MergedInv'
  BY <1>23 DEF CleanupIntermediateReports
<1>24. ASSUME NEW c \in Chords, ReadProcessing(c) PROVE MergedInv'
  BY <1>24 DEF ReadProcessing
<1>25. ASSUME NEW c \in Chords, ReadProcessed(c) PROVE MergedInv'
  BY <1>25 DEF ReadProcessed
<1>26. ASSUME NEW c \in Chords, AcquireFinisherLock(c) PROVE MergedInv'
  BY <1>26 DEF AcquireFinisherLock
<1>27. ASSUME NEW c \in Chords, FinisherLockTimeout(c) PROVE MergedInv'
  BY <1>27 DEF FinisherLockTimeout
<1>28. ASSUME NEW c \in Chords, Postprocess(c) PROVE MergedInv'
  BY <1>28 DEF Postprocess
<1>29. ASSUME NEW c \in Chords, ReleaseFinisherLock(c) PROVE MergedInv'
  BY <1>29 DEF ReleaseFinisherLock
<1>30. ASSUME NEW c \in Chords, FinError(c) PROVE MergedInv'
  BY <1>30 DEF FinError
<1>31. ASSUME NEW c \in Chords, FinKilled(c) PROVE MergedInv'
  BY <1>31 DEF FinKilled
<1>32. ASSUME NEW c \in Chords, ReportLockExpires(c) PROVE MergedInv'
  BY <1>32 DEF ReportLockExpires
<1>33. ASSUME NEW c \in Chords, FinisherLockExpires(c) PROVE MergedInv'
  BY <1>33 DEF FinisherLockExpires
<1>34. ASSUME NEW c \in Chords, FinStartDbError(c)
      PROVE  MergedInv'
  BY <1>34 DEF FinStartDbError
<1> QED
  BY <1>1, <1>2, <1>3, <1>4, <1>5, <1>6, <1>7, <1>8, <1>9, <1>10, <1>11, <1>12,
     <1>13, <1>14, <1>15, <1>16, <1>17, <1>18, <1>19, <1>20, <1>21, <1>22,
     <1>23, <1>24, <1>25, <1>26, <1>27, <1>28, <1>29, <1>30, <1>31, <1>32,
     <1>33, <1>34
     DEF Next, ProcStep, ProcFault, FinStep, FinFault, LockExpiry

(* Coverage is in redis until it is in the report.                         *)
LEMMA ReportStep ==
    ASSUME TypeOK, BatchInv, ProcInv, LockInv, MergedInv, ReportInv, [Next]_vars
    PROVE  ReportInv'
<1> USE DEF TypeOK, BatchInv, ProcInv, LockInv, MergedInv, ReportInv,
            Mergeable, Scheduled,
            Started, Unmerged, FinRunning, InReportLock, InFinisherLock,
            FinStates, ProcStates, Results
<1> USE DEF procVars, finVars, redisVars, lockVars, dbVars, postVars, Goto,
            ProcUnchanged, FinUnchanged
<1>1. CASE UNCHANGED vars
  BY <1>1 DEF vars
<1>2. ASSUME NEW c \in Chords, NEW B \in SUBSET Uploads,
             MarkUploadsAsProcessing(c, B)
      PROVE ReportInv'
  BY <1>2 DEF MarkUploadsAsProcessing
<1>3. ASSUME NEW u \in Uploads, ProcStart(u) PROVE ReportInv'
  BY <1>3 DEF ProcStart
<1>4. ASSUME NEW u \in Uploads, BuildSuccess(u) PROVE ReportInv'
  BY <1>4 DEF BuildSuccess
<1>5. ASSUME NEW u \in Uploads, BuildError(u) PROVE ReportInv'
  BY <1>5 DEF BuildError
<1>6. ASSUME NEW u \in Uploads, BuildRetry(u) PROVE ReportInv'
  BY <1>6 DEF BuildRetry
<1>7. ASSUME NEW u \in Uploads, MarkUploadAsProcessed(u) PROVE ReportInv'
  BY <1>7 DEF MarkUploadAsProcessed
<1>8. ASSUME NEW u \in Uploads, ProcReturn(u) PROVE ReportInv'
  BY <1>8 DEF ProcReturn
<1>9. ASSUME NEW u \in Uploads, ProcRaise(u) PROVE ReportInv'
  BY <1>9 DEF ProcRaise
<1>10. ASSUME NEW u \in Uploads, ProcStartDbError(u) PROVE ReportInv'
  BY <1>10 DEF ProcStartDbError, RetryOrNull
<1>11. ASSUME NEW u \in Uploads, ProcDbError(u) PROVE ReportInv'
  BY <1>11 DEF ProcDbError, RetryOrNull
<1>12. ASSUME NEW u \in Uploads, ProcKilled(u) PROVE ReportInv'
  BY <1>12 DEF ProcKilled
<1>13. ASSUME NEW u \in Uploads, ExpireIntermediate(u) PROVE ReportInv'
  BY <1>13 DEF ExpireIntermediate
<1>14. ASSUME NEW c \in Chords, ApplyChord(c) PROVE ReportInv'
  BY <1>14 DEF ApplyChord
<1>15. ASSUME NEW c \in Chords, FinStart(c) PROVE ReportInv'
  BY <1>15 DEF FinStart
<1>16. ASSUME NEW c \in Chords, AcquireReportLock(c) PROVE ReportInv'
  BY <1>16 DEF AcquireReportLock
<1>17. ASSUME NEW c \in Chords, ReportLockTimeout(c) PROVE ReportInv'
  <2>1. /\ fin[c] = "waiting"
        /\ \/ fin' = [fin EXCEPT ![c] = "header"]
           \/ fin' = [fin EXCEPT ![c] = "failed"]
        /\ UNCHANGED <<redisVars, procVars, batch, report, merged>>
    BY <1>17 DEF ReportLockTimeout
  <2>2. CASE fin' = [fin EXCEPT ![c] = "header"]
    BY <2>1, <2>2
  <2>3. CASE fin' = [fin EXCEPT ![c] = "failed"]
    BY <2>1, <2>3
  <2> QED
    BY <2>1, <2>2, <2>3
<1>18. ASSUME NEW c \in Chords, GetExistingReport(c) PROVE ReportInv'
  BY <1>18 DEF GetExistingReport
<1>19. ASSUME NEW c \in Chords, MergeAndSaveReport(c) PROVE ReportInv'
  BY <1>19 DEF MergeAndSaveReport
<1>20. ASSUME NEW c \in Chords, CommitDb(c) PROVE ReportInv'
  BY <1>20 DEF CommitDb
<1>21. ASSUME NEW c \in Chords, MarkUploadsAsMerged(c) PROVE ReportInv'
  BY <1>21 DEF MarkUploadsAsMerged
<1>22. ASSUME NEW c \in Chords, ReleaseReportLock(c) PROVE ReportInv'
  BY <1>22 DEF ReleaseReportLock
<1>23. ASSUME NEW c \in Chords, CleanupIntermediateReports(c) PROVE ReportInv'
  BY <1>23 DEF CleanupIntermediateReports
<1>24. ASSUME NEW c \in Chords, ReadProcessing(c) PROVE ReportInv'
  BY <1>24 DEF ReadProcessing
<1>25. ASSUME NEW c \in Chords, ReadProcessed(c) PROVE ReportInv'
  BY <1>25 DEF ReadProcessed
<1>26. ASSUME NEW c \in Chords, AcquireFinisherLock(c) PROVE ReportInv'
  BY <1>26 DEF AcquireFinisherLock
<1>27. ASSUME NEW c \in Chords, FinisherLockTimeout(c) PROVE ReportInv'
  BY <1>27 DEF FinisherLockTimeout
<1>28. ASSUME NEW c \in Chords, Postprocess(c) PROVE ReportInv'
  BY <1>28 DEF Postprocess
<1>29. ASSUME NEW c \in Chords, ReleaseFinisherLock(c) PROVE ReportInv'
  BY <1>29 DEF ReleaseFinisherLock
<1>30. ASSUME NEW c \in Chords, FinError(c) PROVE ReportInv'
  BY <1>30 DEF FinError
<1>31. ASSUME NEW c \in Chords, FinKilled(c) PROVE ReportInv'
  BY <1>31 DEF FinKilled
<1>32. ASSUME NEW c \in Chords, ReportLockExpires(c) PROVE ReportInv'
  BY <1>32 DEF ReportLockExpires
<1>33. ASSUME NEW c \in Chords, FinisherLockExpires(c) PROVE ReportInv'
  BY <1>33 DEF FinisherLockExpires
<1>34. ASSUME NEW c \in Chords, FinStartDbError(c)
      PROVE  ReportInv'
  BY <1>34 DEF FinStartDbError
<1> QED
  BY <1>1, <1>2, <1>3, <1>4, <1>5, <1>6, <1>7, <1>8, <1>9, <1>10, <1>11, <1>12,
     <1>13, <1>14, <1>15, <1>16, <1>17, <1>18, <1>19, <1>20, <1>21, <1>22,
     <1>23, <1>24, <1>25, <1>26, <1>27, <1>28, <1>29, <1>30, <1>31, <1>32,
     <1>33, <1>34
     DEF Next, ProcStep, ProcFault, FinStep, FinFault, LockExpiry

(* An upload that is excused for not being in the sets stays excused.      *)
LEMMA AccountedStable ==
    ASSUME TypeOK, BatchInv, ProcInv, [Next]_vars,
           \A d \in Chords : Broken(d) => Broken(d)'
    PROVE  \A u \in Uploads : Accounted(u) => Accounted(u)'
<1>1. \A u \in Uploads : retries[u] > 0 => retries'[u] > 0
  BY DEF TypeOK, Next, ProcStep, ProcFault, FinStep, FinFault, LockExpiry,
     vars, procVars,
         ProcUnchanged, FinUnchanged, MarkUploadsAsProcessing, RetryOrNull,
         ProcStart, BuildSuccess, BuildError, BuildRetry,
         MarkUploadAsProcessed, ProcReturn,
         ProcRaise, ProcStartDbError, ProcDbError, ProcKilled,
         ExpireIntermediate,
         ApplyChord, FinStart, AcquireReportLock, ReportLockTimeout,
         GetExistingReport, MergeAndSaveReport, CommitDb,
         MarkUploadsAsMerged, ReleaseReportLock, CleanupIntermediateReports,
         ReadProcessing, ReadProcessed,
         AcquireFinisherLock, FinisherLockTimeout, Postprocess,
         ReleaseFinisherLock, FinError, FinKilled, ReportLockExpires,
         FinisherLockExpires, FinStartDbError
<1>2. \A d \in Chords : batch[d] \subseteq batch'[d]
  BY DEF TypeOK, BatchInv, Next, ProcStep, ProcFault, FinStep, FinFault,
     LockExpiry, vars,
         ProcUnchanged, FinUnchanged, MarkUploadsAsProcessing, ProcStart,
         BuildSuccess, BuildError, BuildRetry, MarkUploadAsProcessed,
         ProcReturn,
         ProcRaise, ProcStartDbError, ProcDbError, ProcKilled,
         ExpireIntermediate,
         ApplyChord, FinStart, AcquireReportLock, ReportLockTimeout,
         GetExistingReport, MergeAndSaveReport, CommitDb,
         MarkUploadsAsMerged, ReleaseReportLock, CleanupIntermediateReports,
         ReadProcessing, ReadProcessed,
         AcquireFinisherLock, FinisherLockTimeout, Postprocess,
         ReleaseFinisherLock, FinError, FinKilled, ReportLockExpires,
         FinisherLockExpires, FinStartDbError
<1> QED
  BY <1>1, <1>2 DEF Accounted

(* What a finisher concluded from the counts stays true.                   *)
LEMMA ElectionStep ==
    ASSUME TypeOK, BatchInv, RedisInv, TrackInv, ElectionInv,
           \A u \in Uploads : Accounted(u) => Accounted(u)',
           [Next]_vars
    PROVE  ElectionInv'
<1> USE DEF TypeOK, RedisInv, TrackInv, ElectionInv, Scheduled,
            Started, Unmerged, FinRunning, InReportLock, InFinisherLock,
            FinStates, ProcStates, Results
<1> USE DEF procVars, finVars, redisVars, lockVars, dbVars, postVars, Goto,
            ProcUnchanged, FinUnchanged
<1>1. CASE UNCHANGED vars
  BY <1>1 DEF vars
<1>2. ASSUME NEW c \in Chords, NEW B \in SUBSET Uploads,
             MarkUploadsAsProcessing(c, B)
      PROVE ElectionInv'
  BY <1>2 DEF MarkUploadsAsProcessing
<1>3. ASSUME NEW u \in Uploads, ProcStart(u) PROVE ElectionInv'
  BY <1>3 DEF ProcStart
<1>4. ASSUME NEW u \in Uploads, BuildSuccess(u) PROVE ElectionInv'
  BY <1>4 DEF BuildSuccess
<1>5. ASSUME NEW u \in Uploads, BuildError(u) PROVE ElectionInv'
  BY <1>5 DEF BuildError
<1>6. ASSUME NEW u \in Uploads, BuildRetry(u) PROVE ElectionInv'
  BY <1>6 DEF BuildRetry
<1>7. ASSUME NEW u \in Uploads, MarkUploadAsProcessed(u) PROVE ElectionInv'
  BY <1>7 DEF MarkUploadAsProcessed
<1>8. ASSUME NEW u \in Uploads, ProcReturn(u) PROVE ElectionInv'
  BY <1>8 DEF ProcReturn
<1>9. ASSUME NEW u \in Uploads, ProcRaise(u) PROVE ElectionInv'
  BY <1>9 DEF ProcRaise
<1>10. ASSUME NEW u \in Uploads, ProcStartDbError(u) PROVE ElectionInv'
  BY <1>10 DEF ProcStartDbError, RetryOrNull
<1>11. ASSUME NEW u \in Uploads, ProcDbError(u) PROVE ElectionInv'
  BY <1>11 DEF ProcDbError, RetryOrNull
<1>12. ASSUME NEW u \in Uploads, ProcKilled(u) PROVE ElectionInv'
  BY <1>12 DEF ProcKilled
<1>13. ASSUME NEW u \in Uploads, ExpireIntermediate(u) PROVE ElectionInv'
  BY <1>13 DEF ExpireIntermediate
<1>14. ASSUME NEW c \in Chords, ApplyChord(c) PROVE ElectionInv'
  BY <1>14 DEF ApplyChord
<1>15. ASSUME NEW c \in Chords, FinStart(c) PROVE ElectionInv'
  BY <1>15 DEF FinStart
<1>16. ASSUME NEW c \in Chords, AcquireReportLock(c) PROVE ElectionInv'
  BY <1>16 DEF AcquireReportLock
<1>17. ASSUME NEW c \in Chords, ReportLockTimeout(c) PROVE ElectionInv'
  BY <1>17 DEF ReportLockTimeout
<1>18. ASSUME NEW c \in Chords, GetExistingReport(c) PROVE ElectionInv'
  BY <1>18 DEF GetExistingReport
<1>19. ASSUME NEW c \in Chords, MergeAndSaveReport(c) PROVE ElectionInv'
  BY <1>19 DEF MergeAndSaveReport
<1>20. ASSUME NEW c \in Chords, CommitDb(c) PROVE ElectionInv'
  BY <1>20 DEF CommitDb
<1>21. ASSUME NEW c \in Chords, MarkUploadsAsMerged(c) PROVE ElectionInv'
  BY <1>21 DEF MarkUploadsAsMerged
<1>22. ASSUME NEW c \in Chords, ReleaseReportLock(c) PROVE ElectionInv'
  BY <1>22 DEF ReleaseReportLock
<1>23. ASSUME NEW c \in Chords, CleanupIntermediateReports(c)
       PROVE ElectionInv'
  BY <1>23 DEF CleanupIntermediateReports
<1>24. ASSUME NEW c \in Chords, ReadProcessing(c) PROVE ElectionInv'
  <2>1. /\ before' = [before EXCEPT ![c] = Scheduled]
        /\ fin' = [fin EXCEPT ![c] = "counted"]
        /\ UNCHANGED <<processed, merged>>
    BY <1>24 DEF ReadProcessing
  <2>2. sawNone' = [sawNone EXCEPT ![c] = (processing = {})]
    BY <1>24 DEF ReadProcessing
  <2>3. sawNone'[c] => \A u \in Scheduled : u \in processed \cup merged \/ Accounted(u)
    <3>1. sawNone'[c] => processing = {}
      BY <2>2, Zenon
    <3> QED
      BY <3>1
  <2>4. \A d \in Chords : d # c => sawNone'[d] = sawNone[d]
    BY <2>2
  <2> QED
    BY <2>1, <2>3, <2>4
<1>25. ASSUME NEW c \in Chords, ReadProcessed(c) PROVE ElectionInv'
  BY <1>25 DEF ReadProcessed
<1>26. ASSUME NEW c \in Chords, AcquireFinisherLock(c) PROVE ElectionInv'
  BY <1>26 DEF AcquireFinisherLock
<1>27. ASSUME NEW c \in Chords, FinisherLockTimeout(c) PROVE ElectionInv'
  BY <1>27 DEF FinisherLockTimeout
<1>28. ASSUME NEW c \in Chords, Postprocess(c) PROVE ElectionInv'
  BY <1>28 DEF Postprocess
<1>29. ASSUME NEW c \in Chords, ReleaseFinisherLock(c) PROVE ElectionInv'
  BY <1>29 DEF ReleaseFinisherLock
<1>30. ASSUME NEW c \in Chords, FinError(c) PROVE ElectionInv'
  BY <1>30 DEF FinError
<1>31. ASSUME NEW c \in Chords, FinKilled(c) PROVE ElectionInv'
  BY <1>31 DEF FinKilled
<1>32. ASSUME NEW c \in Chords, ReportLockExpires(c) PROVE ElectionInv'
  BY <1>32 DEF ReportLockExpires
<1>33. ASSUME NEW c \in Chords, FinisherLockExpires(c) PROVE ElectionInv'
  BY <1>33 DEF FinisherLockExpires
<1>34. ASSUME NEW c \in Chords, FinStartDbError(c)
      PROVE  ElectionInv'
  BY <1>34 DEF FinStartDbError
<1> QED
  BY <1>1, <1>2, <1>3, <1>4, <1>5, <1>6, <1>7, <1>8, <1>9, <1>10, <1>11, <1>12,
     <1>13, <1>14, <1>15, <1>16, <1>17, <1>18, <1>19, <1>20, <1>21, <1>22,
     <1>23, <1>24, <1>25, <1>26, <1>27, <1>28, <1>29, <1>30, <1>31, <1>32,
     <1>33, <1>34
     DEF Next, ProcStep, ProcFault, FinStep, FinFault, LockExpiry

(* A finisher that skips postprocessing leaves it to another chord.        *)
LEMMA HandoverStep ==
    ASSUME TypeOK, BatchInv, ProcInv, RedisInv, HandoverInv, [Next]_vars
    PROVE  HandoverInv'
<1> USE DEF TypeOK, BatchInv, ProcInv, RedisInv, HandoverInv, Hopeful, Broken,
            AllCovered, Scheduled,
            Started, Unmerged, FinRunning, InReportLock, InFinisherLock,
            FinStates, ProcStates, Results
<1> USE DEF procVars, finVars, redisVars, lockVars, dbVars, postVars, Goto,
            ProcUnchanged, FinUnchanged
<1>1. CASE UNCHANGED vars
  BY <1>1 DEF vars
<1>2. ASSUME NEW c \in Chords, NEW B \in SUBSET Uploads,
             MarkUploadsAsProcessing(c, B)
      PROVE HandoverInv'
  BY <1>2 DEF MarkUploadsAsProcessing
<1>3. ASSUME NEW u \in Uploads, ProcStart(u) PROVE HandoverInv'
  BY <1>3 DEF ProcStart
<1>4. ASSUME NEW u \in Uploads, BuildSuccess(u) PROVE HandoverInv'
  BY <1>4 DEF BuildSuccess
<1>5. ASSUME NEW u \in Uploads, BuildError(u) PROVE HandoverInv'
  BY <1>5 DEF BuildError
<1>6. ASSUME NEW u \in Uploads, BuildRetry(u) PROVE HandoverInv'
  BY <1>6 DEF BuildRetry
<1>7. ASSUME NEW u \in Uploads, MarkUploadAsProcessed(u) PROVE HandoverInv'
  BY <1>7 DEF MarkUploadAsProcessed
<1>8. ASSUME NEW u \in Uploads, ProcReturn(u) PROVE HandoverInv'
  BY <1>8 DEF ProcReturn
<1>9. ASSUME NEW u \in Uploads, ProcRaise(u) PROVE HandoverInv'
  BY <1>9 DEF ProcRaise
<1>10. ASSUME NEW u \in Uploads, ProcStartDbError(u) PROVE HandoverInv'
  BY <1>10 DEF ProcStartDbError, RetryOrNull
<1>11. ASSUME NEW u \in Uploads, ProcDbError(u) PROVE HandoverInv'
  BY <1>11 DEF ProcDbError, RetryOrNull
<1>12. ASSUME NEW u \in Uploads, ProcKilled(u) PROVE HandoverInv'
  BY <1>12 DEF ProcKilled
<1>13. ASSUME NEW u \in Uploads, ExpireIntermediate(u) PROVE HandoverInv'
  BY <1>13 DEF ExpireIntermediate
<1>14. ASSUME NEW c \in Chords, ApplyChord(c) PROVE HandoverInv'
  BY <1>14 DEF ApplyChord
<1>15. ASSUME NEW c \in Chords, FinStart(c) PROVE HandoverInv'
  BY <1>15 DEF FinStart
<1>16. ASSUME NEW c \in Chords, AcquireReportLock(c) PROVE HandoverInv'
  BY <1>16 DEF AcquireReportLock
<1>17. ASSUME NEW c \in Chords, ReportLockTimeout(c) PROVE HandoverInv'
  BY <1>17 DEF ReportLockTimeout
<1>18. ASSUME NEW c \in Chords, GetExistingReport(c) PROVE HandoverInv'
  BY <1>18 DEF GetExistingReport
<1>19. ASSUME NEW c \in Chords, MergeAndSaveReport(c) PROVE HandoverInv'
  BY <1>19 DEF MergeAndSaveReport
<1>20. ASSUME NEW c \in Chords, CommitDb(c) PROVE HandoverInv'
  BY <1>20 DEF CommitDb
<1>21. ASSUME NEW c \in Chords, MarkUploadsAsMerged(c) PROVE HandoverInv'
  BY <1>21 DEF MarkUploadsAsMerged
<1>22. ASSUME NEW c \in Chords, ReleaseReportLock(c) PROVE HandoverInv'
  BY <1>22 DEF ReleaseReportLock
<1>23. ASSUME NEW c \in Chords, CleanupIntermediateReports(c)
       PROVE HandoverInv'
  BY <1>23 DEF CleanupIntermediateReports
<1>24. ASSUME NEW c \in Chords, ReadProcessing(c) PROVE HandoverInv'
  <2>1. /\ UNCHANGED <<batch, proc, res, covered, merged>>
        /\ fin' = [fin EXCEPT ![c] = "counted"]
    BY <1>24 DEF ReadProcessing
  <2>2. sawNone' = [sawNone EXCEPT ![c] = (processing = {})]
    BY <1>24 DEF ReadProcessing
  <2>3. CASE processing = {}
    <3>1. sawNone' = [sawNone EXCEPT ![c] = TRUE]
      BY <2>2, <2>3
    <3>2. Hopeful(c)'
      BY <2>1, <3>1
    <3> QED
      BY <3>2
  <2>4. CASE processing # {}
    <3>1. PICK d \in Chords : batch[d] \cap processing # {}
      BY <2>4
    <3>2. d # c /\ fin[d] \in {"scheduling", "header", "failed", "dead"}
      BY <3>1, <1>24 DEF ReadProcessing
    <3>3. Hopeful(d)' \/ Broken(d)'
      BY <2>1, <3>2
    <3> QED
      BY <3>3
  <2> QED
    BY <2>3, <2>4
<1>25. ASSUME NEW c \in Chords, ReadProcessed(c) PROVE HandoverInv'
  BY <1>25 DEF ReadProcessed
<1>26. ASSUME NEW c \in Chords, AcquireFinisherLock(c) PROVE HandoverInv'
  BY <1>26 DEF AcquireFinisherLock
<1>27. ASSUME NEW c \in Chords, FinisherLockTimeout(c) PROVE HandoverInv'
  BY <1>27 DEF FinisherLockTimeout
<1>28. ASSUME NEW c \in Chords, Postprocess(c) PROVE HandoverInv'
  BY <1>28 DEF Postprocess
<1>29. ASSUME NEW c \in Chords, ReleaseFinisherLock(c) PROVE HandoverInv'
  BY <1>29 DEF ReleaseFinisherLock
<1>30. ASSUME NEW c \in Chords, FinError(c) PROVE HandoverInv'
  BY <1>30 DEF FinError
<1>31. ASSUME NEW c \in Chords, FinKilled(c) PROVE HandoverInv'
  BY <1>31 DEF FinKilled
<1>32. ASSUME NEW c \in Chords, ReportLockExpires(c) PROVE HandoverInv'
  BY <1>32 DEF ReportLockExpires
<1>33. ASSUME NEW c \in Chords, FinisherLockExpires(c) PROVE HandoverInv'
  BY <1>33 DEF FinisherLockExpires
<1>34. ASSUME NEW c \in Chords, FinStartDbError(c)
      PROVE  HandoverInv'
  BY <1>34 DEF FinStartDbError
<1> QED
  BY <1>1, <1>2, <1>3, <1>4, <1>5, <1>6, <1>7, <1>8, <1>9, <1>10, <1>11, <1>12,
     <1>13, <1>14, <1>15, <1>16, <1>17, <1>18, <1>19, <1>20, <1>21, <1>22,
     <1>23, <1>24, <1>25, <1>26, <1>27, <1>28, <1>29, <1>30, <1>31, <1>32,
     <1>33, <1>34
     DEF Next, ProcStep, ProcFault, FinStep, FinFault, LockExpiry

(* A chord that may still notify, or never will, does not lose that by a   *)
(* step of a processor or by a step of a finisher other than the counting  *)
(* and the notification itself.                                            *)
LEMMA HopeStable ==
    ASSUME TypeOK, BatchInv, ProcInv, Next,
           \A c \in Chords : ~ReadProcessing(c) /\ ~ReadProcessed(c)
                                                /\ ~Postprocess(c)
    PROVE  \A c \in Chords : Hopeful(c) \/ Spoiled(c) => (Hopeful(c) \/ Spoiled(c))'
<1> USE DEF TypeOK, BatchInv, ProcInv, Hopeful, Spoiled, Broken, Scheduled,
            Started, Unmerged, FinRunning, InReportLock, InFinisherLock,
            FinStates, ProcStates, Results
<1> USE DEF procVars, finVars, redisVars, lockVars, dbVars, postVars, Goto,
            ProcUnchanged, FinUnchanged
<1> DEFINE Keeps(c) == Hopeful(c) \/ Spoiled(c) => (Hopeful(c) \/ Spoiled(c))'
<1> SUFFICES ASSUME NEW d \in Chords PROVE Keeps(d)
  OBVIOUS
<1>1. ASSUME NEW c \in Chords, NEW B \in SUBSET Uploads,
             MarkUploadsAsProcessing(c, B)
      PROVE  Keeps(d)
  BY <1>1 DEF MarkUploadsAsProcessing
<1>2. ASSUME NEW u \in Uploads, ProcStep(u) PROVE Keeps(d)
  <2>1. CASE ProcStart(u) \/ BuildRetry(u)
    BY <2>1 DEF ProcStart, BuildRetry
  <2>2. CASE BuildSuccess(u) \/ BuildError(u)
    BY <2>2 DEF BuildSuccess, BuildError
  <2>3. CASE MarkUploadAsProcessed(u) \/ ProcReturn(u)
    BY <2>3 DEF MarkUploadAsProcessed, ProcReturn
  <2> QED
    BY <1>2, <2>1, <2>2, <2>3 DEF ProcStep
<1>3. ASSUME NEW u \in Uploads, ProcFault(u) PROVE Keeps(d)
  <2>1. CASE ProcRaise(u) \/ ProcKilled(u) \/ ExpireIntermediate(u)
    BY <2>1 DEF ProcRaise, ProcKilled, ExpireIntermediate
  <2>2. CASE ProcStartDbError(u)
    BY <2>2 DEF ProcStartDbError, RetryOrNull
  <2>3. CASE ProcDbError(u)
    BY <2>3 DEF ProcDbError, RetryOrNull
  <2> QED
    BY <1>3, <2>1, <2>2, <2>3 DEF ProcFault
<1>4. ASSUME NEW c \in Chords, FinStep(c) PROVE Keeps(d)
  <2>1. CASE ApplyChord(c)
    BY <2>1 DEF ApplyChord
  <2>2. CASE FinStart(c)
    BY <2>2 DEF FinStart
  <2>3. CASE AcquireReportLock(c) \/ GetExistingReport(c) \/ MergeAndSaveReport(c)
    BY <2>3 DEF AcquireReportLock, GetExistingReport, MergeAndSaveReport
  <2>4. CASE CommitDb(c) \/ MarkUploadsAsMerged(c) \/ ReleaseReportLock(c)
    BY <2>4 DEF CommitDb, MarkUploadsAsMerged, ReleaseReportLock
  <2>5. CASE CleanupIntermediateReports(c) \/ AcquireFinisherLock(c)
    BY <2>5 DEF CleanupIntermediateReports, AcquireFinisherLock
  <2>6. CASE ReleaseFinisherLock(c)
    BY <2>6 DEF ReleaseFinisherLock
  <2> QED
    BY <1>4, <2>1, <2>2, <2>3, <2>4, <2>5, <2>6 DEF FinStep
<1>5. ASSUME NEW c \in Chords, FinFault(c) \/ LockExpiry(c) PROVE Keeps(d)
  <2>1. CASE FinStartDbError(c)
    BY <2>1 DEF FinStartDbError
  <2>2. CASE ReportLockTimeout(c)
    BY <2>2 DEF ReportLockTimeout
  <2>3. CASE FinisherLockTimeout(c) \/ FinKilled(c)
    BY <2>3 DEF FinisherLockTimeout, FinKilled
  <2>4. CASE FinError(c)
    BY <2>4 DEF FinError
  <2>5. CASE LockExpiry(c)
    BY <2>5 DEF LockExpiry, ReportLockExpires, FinisherLockExpires
  <2> QED
    BY <1>5, <2>1, <2>2, <2>3, <2>4, <2>5 DEF FinFault
<1> QED
  BY <1>1, <1>2, <1>3, <1>4, <1>5 DEF Next

(* The stored report only changes where a finisher saves its merge, and    *)
(* what was notified only grows in a postprocessing.                       *)
LEMMA ReportSource ==
    ASSUME Next, \A c \in Chords : ~MergeAndSaveReport(c) /\ ~Postprocess(c)
    PROVE  report' = report /\ notified' = notified
<1> USE DEF dbVars, postVars, ProcUnchanged
<1>1. ASSUME NEW c \in Chords, NEW B \in SUBSET Uploads,
             MarkUploadsAsProcessing(c, B)
      PROVE  report' = report /\ notified' = notified
  BY <1>1 DEF MarkUploadsAsProcessing
<1>2. ASSUME NEW u \in Uploads, ProcStep(u) \/ ProcFault(u)
      PROVE  report' = report /\ notified' = notified
  BY <1>2 DEF ProcStep, ProcFault, ProcStart, BuildSuccess, BuildError,
     BuildRetry, MarkUploadAsProcessed, ProcReturn, ProcRaise,
     ProcStartDbError, ProcDbError, ProcKilled, ExpireIntermediate
<1>3. ASSUME NEW c \in Chords, FinStep(c) \/ FinFault(c) \/ LockExpiry(c)
      PROVE  report' = report /\ notified' = notified
  BY <1>3 DEF FinStep, FinFault, LockExpiry, ApplyChord, FinStart,
     AcquireReportLock, ReportLockTimeout, GetExistingReport, CommitDb,
     MarkUploadsAsMerged, ReleaseReportLock, CleanupIntermediateReports,
     ReadProcessing, ReadProcessed, AcquireFinisherLock, FinisherLockTimeout,
     ReleaseFinisherLock, FinError, FinKilled, ReportLockExpires,
     FinisherLockExpires, FinStartDbError
<1> QED
  BY <1>1, <1>2, <1>3 DEF Next

(* A chord has uploads from the moment it is scheduled.                    *)
LEMMA BatchFilled ==
    ASSUME TypeOK, \A c \in Chords : fin[c] # "idle" => batch[c] # {}, [Next]_vars
    PROVE  \A c \in Chords : fin'[c] # "idle" => batch'[c] # {}
<1> USE DEF TypeOK, finVars, ProcUnchanged, FinUnchanged, Goto
<1>1. CASE UNCHANGED vars
  BY <1>1 DEF vars
<1>2. ASSUME NEW c \in Chords, NEW B \in SUBSET Uploads,
             MarkUploadsAsProcessing(c, B)
      PROVE  \A d \in Chords : fin'[d] # "idle" => batch'[d] # {}
  BY <1>2 DEF MarkUploadsAsProcessing
<1>3. ASSUME NEW u \in Uploads, ProcStep(u) \/ ProcFault(u)
      PROVE  \A d \in Chords : fin'[d] # "idle" => batch'[d] # {}
  <2>1. batch' = batch /\ fin' = fin
    BY <1>3 DEF ProcStep, ProcFault, ProcStart, BuildSuccess, BuildError,
       BuildRetry, MarkUploadAsProcessed, ProcReturn, ProcRaise,
       ProcStartDbError, ProcDbError, ProcKilled, ExpireIntermediate
  <2> QED
    BY <2>1
<1>4. ASSUME NEW c \in Chords, FinStep(c) \/ FinFault(c) \/ LockExpiry(c)
      PROVE  \A d \in Chords : fin'[d] # "idle" => batch'[d] # {}
  <2>1. /\ batch' = batch
        /\ fin' = fin \/ (fin[c] # "idle" /\ \E s : fin' = [fin EXCEPT ![c] = s])
    BY <1>4 DEF FinStep, FinFault, LockExpiry, ApplyChord, FinStart,
       AcquireReportLock, ReportLockTimeout, GetExistingReport,
       MergeAndSaveReport, CommitDb, MarkUploadsAsMerged, ReleaseReportLock,
       CleanupIntermediateReports, ReadProcessing, ReadProcessed,
       AcquireFinisherLock, FinisherLockTimeout, Postprocess,
       ReleaseFinisherLock, FinError, FinKilled, ReportLockExpires,
       FinisherLockExpires, FinStartDbError, FinRunning, InReportLock,
       InFinisherLock
  <2> QED
    BY <2>1
<1> QED
  BY <1>1, <1>2, <1>3, <1>4 DEF Next

(* Whoever stops without notifying leaves it to another chord.             *)
LEMMA NotifiedStep ==
    ASSUME TypeOK, BatchInv, ProcInv, RedisInv, NotifiedInv, [Next]_vars
    PROVE  NotifiedInv'
<1> DEFINE Left == /\ ~ManualTrigger /\ ~CiSkip
                   /\ AfterNBuilds <= Cardinality(report)
                   /\ ~(report \subseteq notified)
           Hope(c) == Hopeful(c) \/ Spoiled(c)
<1> USE DEF Goto, FinUnchanged, procVars
<1>1. \A c \in Chords : fin'[c] # "idle" => batch'[c] # {}
  BY BatchFilled DEF NotifiedInv
<1>2. Left' => \E c \in Chords : Hope(c)'
  <2>1. CASE UNCHANGED vars
    BY <2>1 DEF vars, procVars, finVars, dbVars, postVars, NotifiedInv,
       Hopeful, Spoiled, Broken
  <2>2. ASSUME NEW c \in Chords, ReadProcessing(c) PROVE \E d \in Chords : Hope(d)'
    <3>1. /\ batch' = batch /\ proc' = proc /\ res' = res
          /\ fin' = [fin EXCEPT ![c] = "counted"]
          /\ sawNone' = [sawNone EXCEPT ![c] = (processing = {})]
          /\ fin[c] = "cleaned"
      BY <2>2 DEF ReadProcessing
    <3>2. CASE processing = {}
      <4>1. Hopeful(c)'
        BY <3>1, <3>2 DEF TypeOK, Hopeful
      <4> QED
        BY <4>1
    <3>3. CASE processing # {}
      <4>1. PICK d \in Chords : batch[d] \cap processing # {}
        BY <3>3 DEF RedisInv, Scheduled
      <4>2. d # c /\ fin[d] \in {"scheduling", "header", "failed", "dead"}
        BY <4>1, <3>1 DEF RedisInv
      <4>3. Hopeful(d)' \/ Broken(d)'
        BY <3>1, <4>2 DEF TypeOK, Hopeful, Broken
      <4> QED
        BY <4>3 DEF Spoiled
    <3> QED
      BY <3>2, <3>3
  <2>3. ASSUME NEW c \in Chords, ReadProcessed(c), Left'
        PROVE  \E d \in Chords : Hope(d)'
    <3>1. /\ batch' = batch /\ proc' = proc /\ res' = res /\ sawNone' = sawNone
          /\ fin[c] = "counted"
          /\ fin' = [fin EXCEPT ![c] = IF sawNone[c] /\ processed = {}
                                       THEN "elected" ELSE "done"]
          /\ report' = report /\ notified' = notified
      BY <2>3 DEF ReadProcessed, dbVars, postVars
    <3>2. CASE processed # {}
      <4>1. PICK d \in Chords : batch[d] \cap processed # {}
        BY <3>2 DEF RedisInv, Scheduled
      <4>2. d # c /\ fin[d] \in Unmerged \cup {"header", "failed", "dead"}
        BY <4>1, <3>1 DEF RedisInv, Unmerged
      <4>3. Hopeful(d)' \/ Broken(d)'
        BY <3>1, <4>2 DEF TypeOK, Hopeful, Broken, Unmerged, InReportLock
      <4> QED
        BY <4>3 DEF Spoiled
    <3>3. CASE processed = {}
      <4>1. PICK d \in Chords : Hope(d)
        BY <2>3, <3>1 DEF NotifiedInv
      <4>2. Hope(d)'
        BY <3>1, <3>3, <4>1 DEF TypeOK, Hopeful, Spoiled, Broken, Started,
           FinRunning, InReportLock, InFinisherLock
      <4> QED
        BY <4>2
    <3> QED
      BY <3>2, <3>3
  <2>4. ASSUME NEW c \in Chords, Postprocess(c), Left'
        PROVE  \E d \in Chords : Hope(d)'
    <3>1. /\ batch' = batch /\ res' = res /\ report' = report
          /\ fin[c] = "posting" /\ fin' = [fin EXCEPT ![c] = "posted"]
          /\ notified' = IF ShouldCallNotify(c) THEN notified \cup report
                                                ELSE notified
      BY <2>4 DEF Postprocess, dbVars
    <3>2. ~ShouldCallNotify(c)
      BY <2>4, <3>1
    <3>3. batch[c] # {}
      BY <3>1 DEF NotifiedInv
    <3>4. \E u \in batch[c] : res[u] # "ok"
      BY <2>4, <3>1, <3>2, <3>3 DEF ShouldCallNotify
    <3>5. Spoiled(c)'
      BY <3>1, <3>4 DEF TypeOK, Spoiled, Started, FinRunning, InFinisherLock
    <3> QED
      BY <3>5
  <2>5. ASSUME NEW c \in Chords, MergeAndSaveReport(c)
        PROVE  \E d \in Chords : Hope(d)'
    <3>1. Hopeful(c)'
      BY <2>5 DEF MergeAndSaveReport, TypeOK, Hopeful, InReportLock
    <3> QED
      BY <3>1
  <2>6. CASE /\ Next
             /\ \A c \in Chords : ~ReadProcessing(c) /\ ~ReadProcessed(c)
                                                     /\ ~Postprocess(c)
             /\ \A c \in Chords : ~MergeAndSaveReport(c)
    <3>1. report' = report /\ notified' = notified
      BY <2>6, ReportSource
    <3>2. \A c \in Chords : Hope(c) => Hope(c)'
      BY <2>6, HopeStable
    <3> QED
      BY <3>1, <3>2 DEF NotifiedInv
  <2> QED
    BY <2>1, <2>2, <2>3, <2>4, <2>5, <2>6
<1> QED
  BY <1>1, <1>2 DEF NotifiedInv

-----------------------------------------------------------------------------
(* Type correctness: every action keeps the redis sets, the task states,   *)
(* the retry counters and the locks of UploadProcessing in their types.    *)
THEOREM TypeCorrect == Spec => []TypeOK
<1>1. Init => TypeOK
  BY RetriesAssumption, YamlAssumption
     DEF Init, TypeOK, ProcStates, Results, FinStates
<1>2. TypeOK /\ [Next]_vars => TypeOK'
  BY TypeStep
<1> QED
  BY <1>1, <1>2, PTL DEF Spec

(* The inductive invariant holds in every reachable state.                 *)
THEOREM Invariant == Spec => []IInv
<1>1. Init => IInv
  <2> SUFFICES ASSUME Init PROVE IInv
    OBVIOUS
  <2>1. TypeOK
    BY RetriesAssumption, YamlAssumption
     DEF Init, TypeOK, ProcStates, Results, FinStates
  <2>2. Scheduled = {}
    BY DEF Init, Scheduled
  <2>3. BatchInv /\ ProcInv /\ RedisInv
    BY <2>2 DEF Init, BatchInv, ProcInv, RedisInv, Started, Unmerged,
       FinRunning, InReportLock,
                InFinisherLock
  <2>4. TrackInv /\ ElectionInv /\ HandoverInv
    BY <2>2 DEF Init, TrackInv, ElectionInv, HandoverInv
  <2>5. LockInv /\ IntermediateInv /\ ReportInv /\ MergedInv
    BY <2>2 DEF Init, LockInv, IntermediateInv, ReportInv, MergedInv,
       InReportLock, Unmerged
  <2> QED
    BY <2>1, <2>3, <2>4, <2>5 DEF IInv
<1>2. IInv /\ [Next]_vars => IInv'
  <2> SUFFICES ASSUME IInv, [Next]_vars PROVE IInv'
    OBVIOUS
  <2> USE DEF IInv
  <2>1. TypeOK' /\ BatchInv' /\ ProcInv' /\ RedisInv'
    BY TypeStep, BatchStep, ProcInvStep, RedisStep
  <2>2. LockInv' /\ IntermediateInv' /\ MergedInv' /\ ReportInv'
    BY LockStep, IntermediateStep, MergedStep, ReportStep
  <2>3. \A d \in Chords : Broken(d) => Broken(d)'
    BY BrokenStable
  <2>4. \A u \in Uploads : Accounted(u) => Accounted(u)'
    BY <2>3, AccountedStable
  <2>5. TrackInv'
    BY <2>3, TrackStep
  <2>6. ElectionInv'
    BY <2>4, ElectionStep
  <2>7. HandoverInv'
    BY HandoverStep
  <2> QED
    BY <2>1, <2>2, <2>5, <2>6, <2>7
<1> QED
  BY <1>1, <1>2, PTL DEF Spec

(* Whatever the batches and the interleaving, once all scheduled chords ran*)
(* to their normal end every merged upload was part of a postprocessing    *)
(* (get_upload_numbers and should_trigger_postprocessing elect someone).   *)
THEOREM NoMissedPostprocessingHolds == Spec => []NoMissedPostprocessing
<1>1. IInv => NoMissedPostprocessing
  <2> SUFFICES ASSUME IInv, \A c \in Chords : fin[c] \in {"idle", "done"}
               PROVE  merged \subseteq AllCovered
    BY DEF NoMissedPostprocessing
  <2>1. \A c \in Chords : ~Hopeful(c)
    BY DEF Hopeful, InReportLock
  <2>2. \A c \in Chords : ~Broken(c)
    BY DEF Broken, IInv, BatchInv, ProcInv, Started
  <2> QED
    BY <2>1, <2>2 DEF IInv, HandoverInv
<1> QED
  BY <1>1, Invariant, PTL

(* A finisher that goes on to postprocess after reading two zero counts    *)
(* has not overtaken any upload that was scheduled before its first count. *)
THEOREM PostprocessingIsCompleteHolds == Spec => []PostprocessingIsComplete
<1>1. IInv => PostprocessingIsComplete
  BY DEF IInv, ElectionInv, PostprocessingIsComplete, Accounted
<1> QED
  BY <1>1, Invariant, PTL

(* Coverage of a successful upload marked as merged is in the stored       *)
(* report of a commit with a carried-forward one: there the report lock    *)
(* excludes lost updates between finishers.                                *)
THEOREM MergedIsReportedHolds == Spec => []MergedIsReported
<1>1. IInv => MergedIsReported
  BY DEF IInv, ReportInv, MergedIsReported
<1> QED
  BY <1>1, Invariant, PTL

(* A finished chord leaves none of its uploads in the redis sets or among  *)
(* the intermediate reports.                                               *)
THEOREM DoneLeavesNothingHolds == Spec => []DoneLeavesNothing
<1>1. IInv => DoneLeavesNothing
  BY DEF IInv, RedisInv, IntermediateInv, Unmerged, DoneLeavesNothing
<1> QED
  BY <1>1, Invariant, PTL

(* On a commit with a carried-forward report, save_report never drops an   *)
(* upload from the stored report, whichever finisher writes it and whoever *)
(* died inside the report lock before.                                     *)
THEOREM ReportNeverShrinksHolds == Spec => ReportNeverShrinks
<1>1. IInv /\ [Next]_vars => [CarriedForward => report \subseteq report']_vars
  <2> SUFFICES ASSUME IInv, Next, CarriedForward PROVE report \subseteq report'
    OBVIOUS
  <2> USE DEF dbVars, ProcUnchanged
  <2>1. ASSUME NEW c \in Chords, MergeAndSaveReport(c)
        PROVE report \subseteq report'
    BY <2>1 DEF MergeAndSaveReport, IInv, LockInv
  <2>2. ASSUME NEW c \in Chords, NEW B \in SUBSET Uploads, MarkUploadsAsProcessing(c, B)
        PROVE  report' = report
    BY <2>2 DEF MarkUploadsAsProcessing
  <2>3. ASSUME NEW u \in Uploads, ProcStep(u) \/ ProcFault(u)
        PROVE report' = report
    BY <2>3 DEF ProcStep, ProcFault, ProcStart, BuildSuccess, BuildError,
       BuildRetry, MarkUploadAsProcessed, ProcReturn,
                ProcRaise, ProcStartDbError, ProcDbError, ProcKilled,
                ExpireIntermediate
  <2>4. ASSUME NEW c \in Chords, FinStep(c) \/ FinFault(c) \/ LockExpiry(c),
               ~MergeAndSaveReport(c)
        PROVE  report' = report
    BY <2>4 DEF FinStep, FinFault, LockExpiry, ApplyChord, FinStart,
       AcquireReportLock, ReportLockTimeout, GetExistingReport, CommitDb,
                MarkUploadsAsMerged, ReleaseReportLock,
                CleanupIntermediateReports, ReadProcessing, ReadProcessed,
                AcquireFinisherLock, FinisherLockTimeout, Postprocess,
                ReleaseFinisherLock, FinError, FinKilled, ReportLockExpires,
                FinisherLockExpires, FinStartDbError
  <2> QED
    BY <2>1, <2>2, <2>3, <2>4 DEF Next
<1> QED
  BY <1>1, Invariant, PTL DEF Spec, ReportNeverShrinks

(* Where notifications are on, a commit whose uploads were all successful  *)
(* and whose finishers all came to their normal end has had a NotifyTask   *)
(* scheduled for all the coverage of its report, once after_n_builds       *)
(* sessions are in it: election (get_upload_numbers) and                   *)
(* should_call_notifications together never leave it to nobody.            *)
THEOREM CompleteReportIsNotifiedHolds == Spec => []CompleteReportIsNotified
<1>1. Init => NotifiedInv
  BY DEF Init, NotifiedInv
<1>2. IInv /\ NotifiedInv /\ [Next]_vars => NotifiedInv'
  BY NotifiedStep DEF IInv
<1>3. IInv /\ NotifiedInv => CompleteReportIsNotified
  <2> SUFFICES ASSUME IInv, NotifiedInv,
                      \A c \in Chords : fin[c] \in {"idle", "done"},
                      \A u \in Scheduled : res[u] = "ok",
                      NEW c \in Chords
               PROVE  ~Hopeful(c) /\ ~Spoiled(c)
    BY DEF CompleteReportIsNotified, NotifiedInv
  <2>1. ~Hopeful(c)
    BY DEF Hopeful, InReportLock
  <2>2. ~Broken(c)
    BY DEF Broken, IInv, BatchInv, ProcInv, Started
  <2>3. \A u \in batch[c] : res[u] = "ok"
    BY DEF Scheduled
  <2> QED
    BY <2>1, <2>2, <2>3 DEF Spoiled
<1> QED
  BY <1>1, <1>2, <1>3, Invariant, PTL DEF Spec

=============================================================================
