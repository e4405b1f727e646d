-------------------------- MODULE UploadProcessing --------------------------
(***************************************************************************)
(* Processing and merging of the coverage uploads of ONE commit, from the  *)
(* moment the UploadTask hands a batch to celery until the follow-up work  *)
(* ("postprocessing") of the finisher:                                     *)
(*                                                                         *)
(*   apps/worker/services/processing/{state,processing,intermediate}.py    *)
(*   apps/worker/tasks/{upload_processor,upload_finisher}.py               *)
(*   apps/worker/tasks/upload.py (_schedule_coverage_processing_task)      *)
(*                                                                         *)
(* A batch is a celery chord: one UploadProcessorTask per upload, then one *)
(* UploadFinisherTask.  Several chords of a commit run concurrently on     *)
(* different workers; they meet in redis (the sets "processing" and        *)
(* "processed", the intermediate reports, two locks) and in the master     *)
(* report.  A step of the model is one access to that shared state.        *)
(***************************************************************************)
EXTENDS Integers, FiniteSets

CONSTANTS
    Uploads,        \* the uploads of the commit
    Chords,         \* the batches that may be scheduled
    MaxRetries,     \* MAX_RETRIES: retries of a finisher that misses the lock
    MaxDbRetries,   \* celery's default max_retries: retries after a db error
    Events,         \* which of AllEvents may happen in this instance
    ManualTrigger,  \* yaml codecov.notify.manual_trigger
    AfterNBuilds,   \* yaml codecov.notify.after_n_builds
    NotifyError,    \* yaml codecov.notify.notify_error
    CiSkip,         \* the commit message matches regexp_ci_skip
    CarriedForward, \* the UploadTask saved a carried-forward report first
    Free            \* "holder" of a lock that no finisher holds

(* What can go wrong (or merely differ), each at its place in the code.    *)
AllEvents == {
    "upload_error",   \* a report does not parse: an unsuccessful result
    "file_missing",   \* FILE_NOT_IN_STORAGE, the only retryable error
    "raise",          \* an exception leaves process_upload
    "db",             \* a SQLAlchemyError leaves process_upload
    "kill",           \* the worker dies, or the hard time limit strikes
    "lock_timeout",   \* blocking_timeout passes while a lock is held
    "lock_expiry",    \* the finisher lock (5 min) expires under its holder
    "finisher_error", \* an exception or the soft time limit in the finisher
    "ttl"}            \* an intermediate report expires (REPORT_TTL)

ASSUME RetriesAssumption ==
    /\ MaxRetries \in Nat /\ MaxDbRetries \in Nat
    /\ MaxDbRetries <= MaxRetries
ASSUME FreeAssumption == Free \notin Chords
ASSUME EventsAssumption == Events \subseteq AllEvents
ASSUME YamlAssumption ==
    /\ ManualTrigger \in BOOLEAN
    /\ AfterNBuilds \in Nat
    /\ NotifyError \in BOOLEAN
    /\ CiSkip \in BOOLEAN
    /\ CarriedForward \in BOOLEAN

VARIABLES
    processing,    \* redis set "processing"
    processed,     \* redis set "processed"
    intermediate,  \* uploads with an intermediate report in redis
    proc,          \* proc[u]: where the UploadProcessorTask of u is
    res,           \* res[u]: its ProcessingResult
    retries,       \* retries[u]: request.retries of that task
    batch,         \* batch[c]: the uploads of chord c
    fin,           \* fin[c]: where chord c, and then its finisher, is
    finRetries,    \* finRetries[c]: request.retries of the finisher
    known,         \* known[c]: the Commit row c loaded names a report
    copy,          \* copy[c]: the master report the finisher has in memory
    sawNone,       \* sawNone[c]: the finisher's scard("processing") was 0
    reportLock,    \* holder of upload_processing_lock
    finisherLock,  \* holder of upload_finisher_lock
    report,        \* uploads whose coverage the stored master report has
    dbState,       \* dbState[u]: committed Upload.state
    hasReport,     \* the committed Commit row names a stored report
    merged,        \* history: uploads a finisher has marked as merged
    before,        \* history: uploads scheduled when c read scard(processing)
    covered,       \* history: covered[c]: merged uploads c postprocessed
    notified       \* history: uploads in the report of a scheduled NotifyTask

procVars  == <<proc, res, retries>>
finVars   == <<fin, finRetries, known, copy, sawNone, before>>
redisVars == <<processing, processed, intermediate>>
lockVars  == <<reportLock, finisherLock>>
dbVars    == <<report, dbState, hasReport>>
postVars  == <<covered, notified>>
vars == <<procVars, finVars, redisVars, lockVars, dbVars, postVars,
          batch, merged>>

ProcStates == {"none", "queued", "running", "built", "marked", "done",
               "failed"}
Results    == {"none", "ok", "error", "null"}
FinStates  == {"idle", "scheduling", "header", "waiting", "locked", "merging",
               "saved", "committed", "marked", "released", "cleaned",
               "counted", "elected", "posting", "posted",
               "done", "gaveup", "failed", "dead"}

(* A finisher in one of these states is inside `with get_report_lock(...)`.*)
InReportLock   == {"locked", "merging", "saved", "committed", "marked"}
InFinisherLock == {"posting", "posted"}
(* run_impl of the finisher is executing its try block.                    *)
FinRunning == {"waiting", "released", "cleaned", "counted", "elected"}
                  \cup InReportLock \cup InFinisherLock

Init ==
    /\ processing = {} /\ processed = {} /\ intermediate = {}
    /\ proc = [u \in Uploads |-> "none"]
    /\ res = [u \in Uploads |-> "none"]
    /\ retries = [u \in Uploads |-> 0]
    /\ batch = [c \in Chords |-> {}]
    /\ fin = [c \in Chords |-> "idle"]
    /\ finRetries = [c \in Chords |-> 0]
    /\ known = [c \in Chords |-> CarriedForward]
    /\ copy = [c \in Chords |-> {}]
    /\ sawNone = [c \in Chords |-> FALSE]
    /\ reportLock = Free /\ finisherLock = Free
    /\ report = {}
    /\ dbState = [u \in Uploads |-> "uploaded"]
    /\ hasReport = CarriedForward
    /\ merged = {}
    /\ before = [c \in Chords |-> {}]
    /\ covered = [c \in Chords |-> {}]
    /\ notified = {}

Scheduled == UNION {batch[c] : c \in Chords}

-----------------------------------------------------------------------------
(* UploadTask._schedule_coverage_processing_task, inside the upload lock   *)
(* (so one chord at a time): the uploads are marked in redis first, the    *)
(* chord is sent to celery after that.                                     *)

MarkUploadsAsProcessing(c, B) ==
    /\ fin[c] = "idle"
    /\ \A d \in Chords : fin[d] # "scheduling"
    /\ B # {} /\ B \cap Scheduled = {}
    /\ processing' = processing \cup B
    /\ batch' = [batch EXCEPT ![c] = B]
    /\ fin' = [fin EXCEPT ![c] = "scheduling"]
    /\ UNCHANGED <<processed, intermediate, procVars, finRetries, known, copy,
                   sawNone, before, lockVars, dbVars, postVars, merged>>

ApplyChord(c) ==
    /\ fin[c] = "scheduling"
    /\ fin' = [fin EXCEPT ![c] = "header"]
    /\ proc' = [u \in Uploads |-> IF u \in batch[c] THEN "queued" ELSE proc[u]]
    /\ UNCHANGED <<redisVars, res, retries, batch, finRetries, known, copy,
                   sawNone, before, lockVars, dbVars, postVars, merged>>

-----------------------------------------------------------------------------
(* UploadProcessorTask.run_impl and process_upload.                        *)

ProcUnchanged == <<batch, finVars, lockVars, dbVars, postVars, merged>>

(* Loads commit and upload, marks the upload as processing (again, after a *)
(* retry) and commits.                                                     *)
ProcStart(u) ==
    /\ proc[u] = "queued"
    /\ processing' = processing \cup {u}
    /\ proc' = [proc EXCEPT ![u] = "running"]
    /\ UNCHANGED <<processed, intermediate, res, retries, ProcUnchanged>>

(* build_report_from_raw_content succeeds: the intermediate report is saved*)
BuildSuccess(u) ==
    /\ proc[u] = "running"
    /\ res' = [res EXCEPT ![u] = "ok"]
    /\ intermediate' = intermediate \cup {u}
    /\ proc' = [proc EXCEPT ![u] = "built"]
    /\ UNCHANGED <<processing, processed, retries, ProcUnchanged>>

(* An error that is not retried: the result is unsuccessful and there is no*)
(* intermediate report.  A missing file is retried on the first run only.  *)
BuildError(u) ==
    /\ proc[u] = "running"
    /\ \/ "upload_error" \in Events
       \/ "file_missing" \in Events /\ retries[u] > 0
    /\ res' = [res EXCEPT ![u] = "error"]
    /\ proc' = [proc EXCEPT ![u] = "built"]
    /\ UNCHANGED <<redisVars, retries, ProcUnchanged>>

(* on_processing_error throws Retry; the finally block clears the upload.  *)
BuildRetry(u) ==
    /\ proc[u] = "running"
    /\ "file_missing" \in Events
    /\ retries[u] = 0
    /\ retries' = [retries EXCEPT ![u] = @ + 1]
    /\ processing' = processing \ {u}
    /\ proc' = [proc EXCEPT ![u] = "queued"]
    /\ UNCHANGED <<processed, intermediate, res, ProcUnchanged>>

(* smove, or sadd when the upload was not in "processing".                 *)
MarkUploadAsProcessed(u) ==
    /\ proc[u] = "built"
    /\ processing' = processing \ {u}
    /\ processed' = processed \cup {u}
    /\ proc' = [proc EXCEPT ![u] = "marked"]
    /\ UNCHANGED <<intermediate, res, retries, ProcUnchanged>>

(* rewrite_or_delete_upload, the finally block, and the task's result goes *)
(* to the chord.                                                           *)
ProcReturn(u) ==
    /\ proc[u] = "marked"
    /\ processing' = processing \ {u}
    /\ proc' = [proc EXCEPT ![u] = "done"]
    /\ UNCHANGED <<processed, intermediate, res, retries, ProcUnchanged>>

(* An exception leaves process_upload (for "marked": out of               *)
(* rewrite_or_delete_upload).  The finally block runs, the task fails.     *)
ProcRaise(u) ==
    /\ "raise" \in Events
    /\ proc[u] \in {"running", "built", "marked"}
    /\ processing' = processing \ {u}
    /\ proc' = [proc EXCEPT ![u] = "failed"]
    /\ UNCHANGED <<processed, intermediate, res, retries, ProcUnchanged>>

(* BaseCodecovTask.run turns a SQLAlchemyError into a retry and, when there*)
(* are none left, into the result None.                                    *)
RetryOrNull(u) ==
    IF retries[u] < MaxDbRetries
    THEN /\ retries' = [retries EXCEPT ![u] = @ + 1]
         /\ proc' = [proc EXCEPT ![u] = "queued"]
         /\ UNCHANGED res
    ELSE /\ res' = [res EXCEPT ![u] = "null"]
         /\ proc' = [proc EXCEPT ![u] = "done"]
         /\ UNCHANGED retries

(* The database fails in the statements before the try block: before or    *)
(* after the upload was marked, and with no finally block to clear it.     *)
ProcStartDbError(u) ==
    /\ "db" \in Events
    /\ proc[u] = "queued"
    /\ processing' \in {processing, processing \cup {u}}
    /\ RetryOrNull(u)
    /\ UNCHANGED <<processed, intermediate, ProcUnchanged>>

(* The database fails inside the try block: while the report is built, or  *)
(* when the handler of a later exception commits the Commit row.           *)
ProcDbError(u) ==
    /\ "db" \in Events
    /\ proc[u] \in {"running", "built", "marked"}
    /\ processing' = processing \ {u}
    /\ RetryOrNull(u)
    /\ UNCHANGED <<processed, intermediate, ProcUnchanged>>

(* The worker process is gone: no finally block, and the message was       *)
(* acknowledged (acks_late is off by default).                             *)
ProcKilled(u) ==
    /\ "kill" \in Events
    /\ proc[u] \in {"running", "built", "marked"}
    /\ proc' = [proc EXCEPT ![u] = "failed"]
    /\ UNCHANGED <<redisVars, res, retries, ProcUnchanged>>

(* REPORT_TTL passes.                                                      *)
ExpireIntermediate(u) ==
    /\ "ttl" \in Events
    /\ u \in intermediate
    /\ intermediate' = intermediate \ {u}
    /\ UNCHANGED <<processing, processed, procVars, ProcUnchanged>>

-----------------------------------------------------------------------------
(* UploadFinisherTask.run_impl.                                            *)

FinUnchanged == <<procVars, batch, known>>
Goto(c, s) == fin' = [fin EXCEPT ![c] = s]

(* celery runs the body of a chord once every header task has succeeded,   *)
(* and never if one failed.  The Commit row is loaded here, before the     *)
(* report lock is taken, and never refreshed.  A None among the results is *)
(* a TypeError before the try block.                                       *)
FinStart(c) ==
    /\ fin[c] = "header"
    /\ \A u \in batch[c] : proc[u] = "done"
    /\ known' = [known EXCEPT ![c] = hasReport]
    /\ Goto(c, IF \E u \in batch[c] : res[u] = "null"
               THEN "failed" ELSE "waiting")
    /\ UNCHANGED <<redisVars, procVars, batch, finRetries, copy, sawNone,
                   before, lockVars, dbVars, postVars, merged>>

(* The database fails before the try block: BaseCodecovTask.run retries the*)
(* finisher, up to celery's default limit.                                 *)
FinStartDbError(c) ==
    /\ "db" \in Events
    /\ fin[c] = "header"
    /\ \A u \in batch[c] : proc[u] = "done"
    /\ IF finRetries[c] < MaxDbRetries
       THEN /\ finRetries' = [finRetries EXCEPT ![c] = @ + 1]
            /\ UNCHANGED fin
       ELSE /\ Goto(c, "failed")
            /\ UNCHANGED finRetries
    /\ UNCHANGED <<redisVars, FinUnchanged, copy, sawNone, before, lockVars,
                   dbVars, postVars, merged>>

(* Mutant: the merge runs outside the report lock.                         *)
MutantLockNotExclusive(c) ==
    /\ fin[c] = "waiting"
    /\ reportLock' = c
    /\ Goto(c, "locked")
    /\ UNCHANGED <<redisVars, FinUnchanged, finRetries, copy, sawNone, before,
                   finisherLock, dbVars, postVars, merged>>

AcquireReportLock(c) ==
    /\ fin[c] = "waiting"
    /\ reportLock = Free
    /\ reportLock' = c
    /\ Goto(c, "locked")
    /\ UNCHANGED <<redisVars, FinUnchanged, finRetries, copy, sawNone, before,
                   finisherLock, dbVars, postVars, merged>>

(* Mutant: one retry too many.                                             *)
MutantRetryOnceMore(c) ==
    /\ "lock_timeout" \in Events
    /\ fin[c] = "waiting"
    /\ reportLock # Free
    /\ IF finRetries[c] <= MaxRetries
       THEN /\ finRetries' = [finRetries EXCEPT ![c] = @ + 1]
            /\ Goto(c, "header")
       ELSE /\ Goto(c, "failed")
            /\ UNCHANGED finRetries
    /\ UNCHANGED <<redisVars, FinUnchanged, copy, sawNone, before, lockVars,
                   dbVars, postVars, merged>>

(* LockError: the finisher starts anew after a countdown or, with no       *)
(* retries left, `except Exception` turns the MaxRetriesExceededError into *)
(* an error result.                                                        *)
ReportLockTimeout(c) ==
    /\ "lock_timeout" \in Events
    /\ fin[c] = "waiting"
    /\ reportLock # Free
    /\ IF finRetries[c] < MaxRetries
       THEN /\ finRetries' = [finRetries EXCEPT ![c] = @ + 1]
            /\ Goto(c, "header")
       ELSE /\ Goto(c, "failed")
            /\ UNCHANGED finRetries
    /\ UNCHANGED <<redisVars, FinUnchanged, copy, sawNone, before, lockVars,
                   dbVars, postVars, merged>>

(* perform_report_merging reads the existing master report, or starts a    *)
(* new one when the Commit row of FinStart names none ...                  *)
GetExistingReport(c) ==
    /\ fin[c] = "locked"
    /\ copy' = [copy EXCEPT ![c] = IF known[c] THEN report ELSE {}]
    /\ Goto(c, "merging")
    /\ UNCHANGED <<redisVars, FinUnchanged, finRetries, sawNone, before,
                   lockVars, dbVars, postVars, merged>>

(* ... loads the intermediate reports of the successful results (an empty  *)
(* report for one that is gone), merges them, and save_report writes the   *)
(* whole report back.  The Upload rows are updated but not committed.      *)
Mergeable(c) == {u \in batch[c] : res[u] = "ok"} \cap intermediate

(* Mutant: merges into a new report instead of the existing one.           *)
MutantOverwriteReport(c) ==
    /\ fin[c] = "merging"
    /\ report' = Mergeable(c)
    /\ Goto(c, "saved")
    /\ UNCHANGED <<redisVars, FinUnchanged, finRetries, copy, sawNone, before,
                   lockVars, dbState, hasReport, postVars, merged>>

MergeAndSaveReport(c) ==
    /\ fin[c] = "merging"
    /\ report' = copy[c] \cup Mergeable(c)
    /\ Goto(c, "saved")
    /\ UNCHANGED <<redisVars, FinUnchanged, finRetries, copy, sawNone, before,
                   lockVars, dbState, hasReport, postVars, merged>>

UpdatedUploads(c) ==
    [u \in Uploads |->
        IF u \notin batch[c] THEN dbState[u]
        ELSE IF res[u] = "ok" THEN "processed" ELSE "error"]

CommitDb(c) ==
    /\ fin[c] = "saved"
    /\ dbState' = UpdatedUploads(c)
    /\ hasReport' = TRUE
    /\ Goto(c, "committed")
    /\ UNCHANGED <<redisVars, FinUnchanged, finRetries, copy, sawNone, before,
                   lockVars, report, postVars, merged>>

(* Mutant: only the successful uploads leave the redis set.                *)
MutantMergeOnlySuccessful(c) ==
    /\ fin[c] = "committed"
    /\ processed' = processed \ {u \in batch[c] : res[u] = "ok"}
    /\ merged' = merged \cup batch[c]
    /\ Goto(c, "marked")
    /\ UNCHANGED <<processing, intermediate, FinUnchanged, finRetries, copy,
                   sawNone, before, lockVars, dbVars, postVars>>

MarkUploadsAsMerged(c) ==
    /\ fin[c] = "committed"
    /\ processed' = processed \ batch[c]
    /\ merged' = merged \cup batch[c]
    /\ Goto(c, "marked")
    /\ UNCHANGED <<processing, intermediate, FinUnchanged, finRetries, copy,
                   sawNone, before, lockVars, dbVars, postVars>>

ReleaseReportLock(c) ==
    /\ fin[c] = "marked"
    /\ reportLock' = Free
    /\ Goto(c, "released")
    /\ UNCHANGED <<redisVars, FinUnchanged, finRetries, copy, sawNone, before,
                   finisherLock, dbVars, postVars, merged>>

CleanupIntermediateReports(c) ==
    /\ fin[c] = "released"
    /\ intermediate' = intermediate \ batch[c]
    /\ Goto(c, "cleaned")
    /\ UNCHANGED <<processing, processed, FinUnchanged, finRetries, copy,
                   sawNone, before, lockVars, dbVars, postVars, merged>>

(* get_upload_numbers: two separate commands, "processing" first.          *)
ReadProcessing(c) ==
    /\ fin[c] = "cleaned"
    /\ sawNone' = [sawNone EXCEPT ![c] = processing = {}]
    /\ before' = [before EXCEPT ![c] = Scheduled]
    /\ Goto(c, "counted")
    /\ UNCHANGED <<redisVars, FinUnchanged, finRetries, copy, lockVars,
                   dbVars, postVars, merged>>

(* Mutant: only the uploads that wait to be merged are looked at.          *)
MutantIgnoreProcessing(c) ==
    /\ fin[c] = "counted"
    /\ Goto(c, IF processed = {} THEN "elected" ELSE "done")
    /\ UNCHANGED <<redisVars, FinUnchanged, finRetries, copy, sawNone, before,
                   lockVars, dbVars, postVars, merged>>

(* Mutant: a finisher leaves the postprocessing to the one that holds the  *)
(* finisher lock instead of waiting for it.                                *)
MutantElectIfLockFree(c) ==
    /\ fin[c] = "counted"
    /\ Goto(c, IF sawNone[c] /\ processed = {} /\ finisherLock = Free
               THEN "elected" ELSE "done")
    /\ UNCHANGED <<redisVars, FinUnchanged, finRetries, copy, sawNone, before,
                   lockVars, dbVars, postVars, merged>>

(* should_trigger_postprocessing.                                          *)
ReadProcessed(c) ==
    /\ fin[c] = "counted"
    /\ Goto(c, IF sawNone[c] /\ processed = {} THEN "elected" ELSE "done")
    /\ UNCHANGED <<redisVars, FinUnchanged, finRetries, copy, sawNone, before,
                   lockVars, dbVars, postVars, merged>>

AcquireFinisherLock(c) ==
    /\ fin[c] = "elected"
    /\ finisherLock = Free
    /\ finisherLock' = c
    /\ Goto(c, "posting")
    /\ UNCHANGED <<redisVars, FinUnchanged, finRetries, copy, sawNone, before,
                   reportLock, dbVars, postVars, merged>>

(* LockError: the finisher returns, and there is no retry.                 *)
FinisherLockTimeout(c) ==
    /\ "lock_timeout" \in Events
    /\ fin[c] = "elected"
    /\ finisherLock # Free
    /\ Goto(c, "gaveup")
    /\ UNCHANGED <<redisVars, FinUnchanged, finRetries, copy, sawNone, before,
                   lockVars, dbVars, postVars, merged>>

(* Mutant: off by one in after_n_builds.                                   *)
MutantAfterNBuilds(c) ==
    /\ ~CiSkip
    /\ ~ManualTrigger
    /\ AfterNBuilds < Cardinality(report)
    /\ IF NotifyError THEN \A u \in batch[c] : res[u] = "ok"
                      ELSE \E u \in batch[c] : res[u] = "ok"

(* should_call_notifications: TRUE for NOTIFY.  It looks at the results of *)
(* this chord only.                                                        *)
ShouldCallNotify(c) ==
    /\ ~CiSkip
    /\ ~ManualTrigger
    /\ AfterNBuilds <= Cardinality(report)
    /\ IF NotifyError THEN \A u \in batch[c] : res[u] = "ok"
                      ELSE \E u \in batch[c] : res[u] = "ok"

(* finish_reports_processing: the NotifyTask and the other follow-up tasks *)
(* are put into their queues.                                              *)
Postprocess(c) ==
    /\ fin[c] = "posting"
    /\ covered' = [covered EXCEPT ![c] = merged]
    /\ notified' = IF ShouldCallNotify(c) THEN notified \cup report
                                          ELSE notified
    /\ Goto(c, "posted")
    /\ UNCHANGED <<redisVars, FinUnchanged, finRetries, copy, sawNone, before,
                   lockVars, dbVars, merged>>

(* Measurements, the repository's timestamp, the caches; then the lock is  *)
(* released, unless it had expired (LockNotOwnedError, which is caught).   *)
ReleaseFinisherLock(c) ==
    /\ fin[c] = "posted"
    /\ finisherLock' = IF finisherLock = c THEN Free ELSE finisherLock
    /\ Goto(c, "done")
    /\ UNCHANGED <<redisVars, FinUnchanged, finRetries, copy, sawNone, before,
                   reportLock, dbVars, postVars, merged>>

(* Any exception, or the soft time limit: the lock is released on the way  *)
(* out, an error result is returned, and wrap_up_dbsession may still commit*)
(* what update_uploads and save_report had changed in the rows.            *)
FinError(c) ==
    /\ "finisher_error" \in Events
    /\ fin[c] \in FinRunning
    /\ reportLock' = IF reportLock = c THEN Free ELSE reportLock
    /\ finisherLock' = IF finisherLock = c THEN Free ELSE finisherLock
    /\ \/ UNCHANGED <<dbState, hasReport>>
       \/ /\ fin[c] \in {"merging", "saved"}
          /\ dbState' = UpdatedUploads(c)
          /\ hasReport' = (hasReport \/ fin[c] = "saved")
    /\ Goto(c, "failed")
    /\ UNCHANGED <<redisVars, FinUnchanged, finRetries, copy, sawNone, before,
                   report, postVars, merged>>

(* The worker dies, in the finisher or in the UploadTask that was about to *)
(* send the chord.  A lock it held stays until it expires.                 *)
FinKilled(c) ==
    /\ "kill" \in Events
    /\ fin[c] \in FinRunning \cup {"scheduling"}
    /\ Goto(c, "dead")
    /\ UNCHANGED <<redisVars, FinUnchanged, finRetries, copy, sawNone, before,
                   lockVars, dbVars, postVars, merged>>

(* Mutant: the lock's timeout ignores the time limit of the task.          *)
MutantLockExpiresEarly(c) ==
    /\ reportLock = c
    /\ reportLock' = Free
    /\ UNCHANGED <<redisVars, FinUnchanged, finVars, finisherLock, dbVars,
                   postVars, merged>>

(* Mutant: the lock has no timeout.                                        *)
MutantLockNeverExpires(c) ==
    reportLock = c /\ FALSE /\ UNCHANGED vars

(* The report lock's timeout is at least the hard time limit, so it only   *)
(* expires once its holder is dead.                                        *)
ReportLockExpires(c) ==
    /\ reportLock = c
    /\ fin[c] = "dead"
    /\ reportLock' = Free
    /\ UNCHANGED <<redisVars, FinUnchanged, finVars, finisherLock, dbVars,
                   postVars, merged>>

(* The finisher lock's timeout (5 min) is shorter than the time limits of  *)
(* the task: it may expire while its holder still works.                   *)
FinisherLockExpires(c) ==
    /\ finisherLock = c
    /\ \/ fin[c] = "dead"
       \/ "lock_expiry" \in Events
    /\ finisherLock' = Free
    /\ UNCHANGED <<redisVars, FinUnchanged, finVars, reportLock, dbVars,
                   postVars, merged>>

-----------------------------------------------------------------------------
(* Steps that a live worker takes by itself ...                            *)
ProcStep(u) ==
    \/ ProcStart(u) \/ BuildSuccess(u) \/ BuildError(u) \/ BuildRetry(u)
    \/ MarkUploadAsProcessed(u) \/ ProcReturn(u)

FinStep(c) ==
    \/ ApplyChord(c) \/ FinStart(c)
    \/ AcquireReportLock(c) \/ GetExistingReport(c) \/ MergeAndSaveReport(c)
    \/ CommitDb(c) \/ MarkUploadsAsMerged(c) \/ ReleaseReportLock(c)
    \/ CleanupIntermediateReports(c) \/ ReadProcessing(c) \/ ReadProcessed(c)
    \/ AcquireFinisherLock(c) \/ Postprocess(c) \/ ReleaseFinisherLock(c)

LockExpiry(c) == ReportLockExpires(c) \/ FinisherLockExpires(c)

(* ... and what happens to it.                                             *)
ProcFault(u) ==
    \/ ProcRaise(u) \/ ProcStartDbError(u) \/ ProcDbError(u) \/ ProcKilled(u)
    \/ ExpireIntermediate(u)

FinFault(c) ==
    \/ FinStartDbError(c) \/ ReportLockTimeout(c) \/ FinisherLockTimeout(c)
    \/ FinError(c) \/ FinKilled(c)

Next ==
    \/ \E c \in Chords : \E B \in SUBSET Uploads : MarkUploadsAsProcessing(c, B)
    \/ \E u \in Uploads : ProcStep(u) \/ ProcFault(u)
    \/ \E c \in Chords : FinStep(c) \/ LockExpiry(c) \/ FinFault(c)

Spec == Init /\ [][Next]_vars

(* celery delivers every queued task and a live worker keeps running it.   *)
(* Scheduling a batch and every fault stay optional.                       *)
Fairness ==
    /\ \A u \in Uploads : WF_vars(ProcStep(u))
    /\ \A c \in Chords : WF_vars(FinStep(c)) /\ WF_vars(LockExpiry(c))

FairSpec == Spec /\ Fairness

-----------------------------------------------------------------------------
(* Properties.                                                             *)

(* Every variable has its type: the redis sets hold uploads of the commit, *)
(* a lock is free or held by one finisher, retry counters respect the      *)
(* limits that task.retry enforces.                                        *)
TypeOK ==
    /\ processing \subseteq Uploads
    /\ processed \subseteq Uploads
    /\ intermediate \subseteq Uploads
    /\ proc \in [Uploads -> ProcStates]
    /\ res \in [Uploads -> Results]
    /\ retries \in [Uploads -> 0 .. (MaxDbRetries + 1)]
    /\ batch \in [Chords -> SUBSET Uploads]
    /\ fin \in [Chords -> FinStates]
    /\ finRetries \in [Chords -> 0 .. MaxRetries]
    /\ known \in [Chords -> BOOLEAN]
    /\ copy \in [Chords -> SUBSET Uploads]
    /\ sawNone \in [Chords -> BOOLEAN]
    /\ reportLock \in Chords \cup {Free}
    /\ finisherLock \in Chords \cup {Free}
    /\ report \subseteq Uploads
    /\ dbState \in [Uploads -> {"uploaded", "processed", "error"}]
    /\ hasReport \in BOOLEAN
    /\ merged \subseteq Uploads
    /\ before \in [Chords -> SUBSET Uploads]
    /\ covered \in [Chords -> SUBSET Uploads]
    /\ notified \subseteq Uploads

(* Chord d will not complete: a header task failed or returned None, or the*)
(* finisher stopped before its end.                                        *)
Broken(d) ==
    \/ fin[d] \in {"failed", "dead", "gaveup"}
    \/ \E u \in batch[d] : proc[u] = "failed" \/ res[u] = "null"

AllCovered == UNION {covered[c] : c \in Chords}

(* When every chord that was scheduled has run to its normal end, each     *)
(* merged upload has been part of a postprocessing: the finishers that     *)
(* skip it ("Postprocessing should not be triggered") always leave it to   *)
(* another one, whatever the interleaving of the merges and the counts.    *)
NoMissedPostprocessing ==
    (\A c \in Chords : fin[c] \in {"idle", "done"}) => merged \subseteq AllCovered

(* A finisher that found both redis sets empty has not overtaken an upload:*)
(* everything scheduled before its first scard was already merged, unless  *)
(* the upload was in a retry or its chord is broken.  Rests on the atomic  *)
(* smove and on reading "processing" before "processed".                   *)
PostprocessingIsComplete ==
    \A c \in Chords : fin[c] \in {"elected", "posting", "posted"} =>
        \A u \in before[c] :
            \/ u \in merged
            \/ retries[u] > 0
            \/ \E d \in Chords : u \in batch[d] /\ Broken(d)

(* No lost update on a commit with a carried-forward report: coverage of a *)
(* successful upload that was marked as merged is in the stored master     *)
(* report, although every finisher writes back the whole report it read.   *)
(* (An expired intermediate report is merged as an empty one.)             *)
MergedIsReported ==
    CarriedForward /\ "ttl" \notin Events =>
        \A u \in merged : res[u] = "ok" => u \in report

(* On such a commit the stored master report never loses an upload, not    *)
(* even when a finisher dies inside the lock or a lock expires.            *)
ReportNeverShrinks == [][CarriedForward => report \subseteq report']_vars

(* upload_finisher.py, _process_reports_with_lock: the lock is there "to   *)
(* prevent concurrent modifications": on any commit, merged coverage is in *)
(* the stored report.                                                      *)
LockPreventsLostMerges ==
    "ttl" \notin Events => \A u \in merged : res[u] = "ok" => u \in report

(* A chord that ran to its end, successful uploads or not, leaves nothing  *)
(* behind in redis that later finishers would count or that would leak.    *)
DoneLeavesNothing ==
    \A c \in Chords : fin[c] \in {"counted", "elected", "posting", "posted",
                                   "done", "gaveup"} =>
        batch[c] \cap (processing \cup processed \cup intermediate) = {}

(* The stages of state.py, read off the redis sets and the history.        *)
StageOf(u) ==
    CASE u \in merged -> "merged"
      [] u \in processed \ merged -> "processed"
      [] u \in processing \ (processed \cup merged) -> "processing"
      [] u \in Scheduled \ (processing \cup processed \cup merged) -> "cleared"
      [] OTHER -> "absent"

Lifecycle == INSTANCE UploadLifecycle
    WITH stage <- [u \in Uploads |-> StageOf(u)],
         good <- {u \in processed \cup merged : res[u] = "ok"}

(* The tasks, with all their interleavings and retries, implement the      *)
(* lifecycle that state.py documents: stages only advance (or fall back by *)
(* a retry), a batch is merged as a whole, and never before its coverage is*)
(* in the master report.                                                   *)
ImplementsLifecycle == Lifecycle!Spec

(* Every scheduled upload is eventually merged and postprocessed when      *)
(* nothing breaks (uploads may be faulty and be retried).                  *)
EventuallyPostprocessed ==
    \A u \in Uploads : u \in Scheduled ~> u \in AllCovered

(* A finisher that waits for the report lock, over any number of retries,  *)
(* does not wait forever, even if the holder of the lock was killed.       *)
FinisherProceeds ==
    \A c \in Chords : fin[c] = "waiting" ~> fin[c] \notin {"waiting", "header"}

(* With notifications switched on, the coverage of a commit whose uploads  *)
(* are all successful ends up in a notification as soon as after_n_builds  *)
(* sessions are there, however the uploads were spread over batches and    *)
(* whichever finisher was elected.                                         *)
CompleteReportIsNotified ==
    /\ \A c \in Chords : fin[c] \in {"idle", "done"}
    /\ \A u \in Scheduled : res[u] = "ok"
    /\ ~ManualTrigger /\ ~CiSkip /\ AfterNBuilds <= Cardinality(report)
    => report \subseteq notified

(* Nothing of the commit is left to run.                                   *)
Stopped ==
    /\ \A u \in Scheduled : proc[u] \in {"done", "failed"}
    /\ \A c \in Chords :
        fin[c] \in {"idle", "header", "done", "gaveup", "failed", "dead"}
    /\ \A c \in Chords : fin[c] = "header" => Broken(c)

(* processing.py, finally block: errors "are not blocking later            *)
(* merge/notify stages": when all has stopped, what was merged by a        *)
(* finisher that ended normally was postprocessed.                         *)
ErrorsDoNotBlockLaterStages ==
    Stopped => \A c \in Chords : fin[c] = "done" => batch[c] \subseteq AllCovered

(* state.py: postprocessing "only happens once for a commit": no two       *)
(* finishers postprocess the same set of merged uploads.                   *)
PostprocessedOnce ==
    \A c, d \in Chords :
        c # d /\ covered[c] # {} => covered[c] # covered[d]

(* upload_finisher.py: "always notify, let the notify handle if it should  *)
(* submit": coverage in the final master report was part of a notification.*)
MergedIsNotified ==
    (\A c \in Chords : fin[c] \in {"idle", "done"}) => report \subseteq notified

=============================================================================
