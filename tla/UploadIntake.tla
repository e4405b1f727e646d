---------------------------- MODULE UploadIntake ----------------------------
(***************************************************************************)
(* How the uploads of one commit get from the API to the processors:       *)
(*                                                                         *)
(*   apps/codecov-api/upload/helpers.py   dispatch_upload_task             *)
(*   apps/worker/tasks/upload.py          UploadContext, UploadTask        *)
(*   apps/worker/tasks/base.py            retries of BaseCodecovTask       *)
(*                                                                         *)
(* The API appends the arguments of each upload to a redis list and sends  *)
(* one UploadTask per upload; any UploadTask drains the whole list, so most*)
(* of the others find it empty.  Task t is the one sent for upload t.      *)
(***************************************************************************)
EXTENDS Integers, Sequences, SequencesExt

CONSTANTS
    Uploads,      \* the uploads that may arrive
    PopCount,     \* lpop(..., count=50)
    MaxRetries,   \* max_retries of the task (3)
    Debounce,     \* config setup.upload_processing_delay is set
    Events,       \* which of AllEvents may happen in this instance
    NoUpload      \* "no upload", "no task"

AllEvents == {
    "api_crash",     \* the API dies between the redis pipeline and celery
    "queue_ttl",     \* the redis list expires (setup.cache.uploads)
    "lock_timeout",  \* blocking_timeout passes while the upload lock is held
    "not_ready",     \* NotReadyToBuildReportYetError, or all apps rate limited
    "abort",         \* soft time limit or database error: the task is retried
    "error",         \* another exception: the task fails
    "kill"}          \* the worker dies, or the hard time limit strikes

ASSUME PopAssumption == PopCount \in Nat \ {0}
ASSUME LimitAssumption == MaxRetries \in Nat
ASSUME DebounceAssumption == Debounce \in BOOLEAN
ASSUME IntakeEventsAssumption == Events \subseteq AllEvents
ASSUME NoUploadAssumption == NoUpload \notin Uploads

VARIABLES
    queue,       \* redis list uploads/{repoid}/{commitid}
    latest,      \* upload behind latest_upload, while that is recent
    arrivals,    \* history: the uploads in the order of their arrival
    task,        \* task[t]: where the UploadTask is
    retries,     \* retries[t]: request.retries
    delayedBy,   \* delayedBy[t]: the upload whose delay the task sits out
    taken,       \* taken[t]: uploads popped by the current run of t
    uploadLock,  \* holder of upload_lock
    merging,     \* upload_processing_lock is held by a finisher
    scheduled,   \* uploads handed to celery, in that order
    lost         \* history: uploads popped or expired and never handed on

vars == <<queue, latest, arrivals, task, retries, delayedBy, taken, uploadLock,
          merging, scheduled, lost>>

TaskStates == {"none", "unsent", "delayed", "queued", "pending", "idle",
               "locking", "locked", "initializing", "draining", "drained",
               "done", "gaveup", "failed", "dead"}

(* run_impl is inside `with redis_connection.lock(upload_lock)`.           *)
InLock == {"locked", "initializing", "draining", "drained"}

Init ==
    /\ queue = <<>>
    /\ latest = NoUpload
    /\ arrivals = <<>>
    /\ task = [t \in Uploads |-> "none"]
    /\ retries = [t \in Uploads |-> 0]
    /\ delayedBy = [t \in Uploads |-> NoUpload]
    /\ taken = [t \in Uploads |-> <<>>]
    /\ uploadLock = NoUpload
    /\ merging = FALSE
    /\ scheduled = <<>>
    /\ lost = {}

-----------------------------------------------------------------------------
(* dispatch_upload_task: one redis pipeline (rpush, expire, setex), then   *)
(* the task with a countdown of at least the processing delay.             *)

Push(u) ==
    /\ task[u] = "none"
    /\ queue' = Append(queue, u)
    /\ arrivals' = Append(arrivals, u)
    /\ latest' = IF Debounce THEN u ELSE NoUpload
    /\ task' = [task EXCEPT ![u] = "unsent"]
    /\ UNCHANGED <<retries, delayedBy, taken, uploadLock, merging, scheduled,
                   lost>>

SendTask(t) ==
    /\ task[t] = "unsent"
    /\ task' = [task EXCEPT ![t] = "delayed"]
    /\ delayedBy' = [delayedBy EXCEPT ![t] = t]
    /\ UNCHANGED <<queue, latest, arrivals, retries, taken, uploadLock,
                   merging, scheduled, lost>>

ApiCrash(t) ==
    /\ "api_crash" \in Events
    /\ task[t] = "unsent"
    /\ task' = [task EXCEPT ![t] = "dead"]
    /\ UNCHANGED <<queue, latest, arrivals, retries, delayedBy, taken,
                   uploadLock, merging, scheduled, lost>>

(* upload_processing_delay passes without another upload.                  *)
LatestAges ==
    /\ latest # NoUpload
    /\ latest' = NoUpload
    /\ UNCHANGED <<queue, arrivals, task, retries, delayedBy, taken,
                   uploadLock, merging, scheduled, lost>>

(* A finisher takes or releases the report lock (see UploadProcessing).    *)
ReportLockToggles ==
    /\ merging' = ~merging
    /\ UNCHANGED <<queue, latest, arrivals, task, retries, delayedBy, taken,
                   uploadLock, scheduled, lost>>

QueueExpires ==
    /\ "queue_ttl" \in Events
    /\ queue # <<>>
    /\ queue' = <<>>
    /\ lost' = lost \cup ToSet(queue)
    /\ UNCHANGED <<latest, arrivals, task, retries, delayedBy, taken,
                   uploadLock, merging, scheduled>>

-----------------------------------------------------------------------------
(* UploadTask.run_impl.                                                    *)

Goto(t, s) == task' = [task EXCEPT ![t] = s]

(* Mutant: one retry too many.                                             *)
MutantRetryOnceMore(t, s) ==
    IF retries[t] <= MaxRetries
    THEN /\ Goto(t, s)
         /\ retries' = [retries EXCEPT ![t] = @ + 1]
    ELSE /\ Goto(t, "gaveup")
         /\ UNCHANGED retries

(* task.retry: a new run after a countdown, or MaxRetriesExceededError,    *)
(* which BaseCodecovTask.run swallows.                                     *)
Retry(t, s) ==
    IF retries[t] < MaxRetries
    THEN /\ Goto(t, s)
         /\ retries' = [retries EXCEPT ![t] = @ + 1]
    ELSE /\ Goto(t, "gaveup")
         /\ UNCHANGED retries

(* The countdown is over: the delay since the upload it was computed from  *)
(* has passed, unless a newer upload has arrived meanwhile.                *)
Deliver(t) ==
    /\ task[t] = "delayed"
    /\ delayedBy[t] # latest \/ latest = NoUpload
    /\ Goto(t, "queued")
    /\ delayedBy' = [delayedBy EXCEPT ![t] = NoUpload]
    /\ UNCHANGED <<queue, latest, arrivals, retries, taken, uploadLock,
                   merging, scheduled, lost>>

CheckPending(t) ==
    /\ task[t] = "queued"
    /\ Goto(t, IF queue = <<>> THEN "done" ELSE "pending")
    /\ UNCHANGED <<queue, latest, arrivals, retries, delayedBy, taken,
                   uploadLock, merging, scheduled, lost>>

(* Mutant: every run waits while reports are being merged.                 *)
MutantAlwaysWaitForMerge(t) ==
    /\ task[t] = "pending"
    /\ IF merging
       THEN Retry(t, "queued")
       ELSE Goto(t, "idle") /\ UNCHANGED retries
    /\ UNCHANGED <<queue, latest, arrivals, delayedBy, taken, uploadLock,
                   merging, scheduled, lost>>

(* is_currently_processing delays the first run only.                      *)
CheckProcessing(t) ==
    /\ task[t] = "pending"
    /\ IF merging /\ retries[t] = 0
       THEN Retry(t, "queued")
       ELSE Goto(t, "idle") /\ UNCHANGED retries
    /\ UNCHANGED <<queue, latest, arrivals, delayedBy, taken, uploadLock,
                   merging, scheduled, lost>>

(* _should_debounce_processing.                                            *)
CheckDebounce(t) ==
    /\ task[t] = "idle"
    /\ IF latest # NoUpload
       THEN /\ Retry(t, "delayed")
            /\ delayedBy' = [delayedBy EXCEPT ![t] = latest]
       ELSE /\ Goto(t, "locking")
            /\ UNCHANGED <<retries, delayedBy>>
    /\ UNCHANGED <<queue, latest, arrivals, taken, uploadLock, merging,
                   scheduled, lost>>

(* Mutant: the list is drained without a lock.                             *)
MutantLockNotExclusive(t) ==
    /\ task[t] = "locking"
    /\ uploadLock' = t
    /\ Goto(t, "locked")
    /\ UNCHANGED <<queue, latest, arrivals, retries, delayedBy, taken,
                   merging, scheduled, lost>>

AcquireUploadLock(t) ==
    /\ task[t] = "locking"
    /\ uploadLock = NoUpload
    /\ uploadLock' = t
    /\ Goto(t, "locked")
    /\ UNCHANGED <<queue, latest, arrivals, retries, delayedBy, taken,
                   merging, scheduled, lost>>

(* Mutant: a task that misses the lock relies on the holder of the lock.   *)
MutantLeaveItToTheHolder(t) ==
    /\ "lock_timeout" \in Events
    /\ task[t] = "locking"
    /\ uploadLock # NoUpload
    /\ Goto(t, "done")
    /\ UNCHANGED <<queue, latest, arrivals, retries, delayedBy, taken,
                   uploadLock, merging, scheduled, lost>>

(* LockError: nothing to do any more; or too many retries; or a retry.     *)
UploadLockTimeout(t) ==
    /\ "lock_timeout" \in Events
    /\ task[t] = "locking"
    /\ uploadLock # NoUpload
    /\ \/ queue = <<>> /\ Goto(t, "done") /\ UNCHANGED retries
       \/ queue # <<>> /\ retries[t] > 1 /\ Goto(t, "gaveup") /\ UNCHANGED retries
       \/ queue # <<>> /\ retries[t] <= 1 /\ Retry(t, "queued")
    /\ UNCHANGED <<queue, latest, arrivals, delayedBy, taken, uploadLock,
                   merging, scheduled, lost>>

(* "Check whether a different `Upload` task has stolen our uploads".       *)
RecheckPending(t) ==
    /\ task[t] = "locked"
    /\ IF queue = <<>>
       THEN Goto(t, "done") /\ uploadLock' = NoUpload
       ELSE Goto(t, "initializing") /\ UNCHANGED uploadLock
    /\ UNCHANGED <<queue, latest, arrivals, retries, delayedBy, taken,
                   merging, scheduled, lost>>

(* Provider, yaml and initialize_and_save_report.                          *)
InitializeReport(t) ==
    /\ task[t] = "initializing"
    /\ Goto(t, "draining")
    /\ UNCHANGED <<queue, latest, arrivals, retries, delayedBy, taken,
                   uploadLock, merging, scheduled, lost>>

(* The retry raised in there leaves the lock before anything is popped.    *)
NotReady(t) ==
    /\ "not_ready" \in Events
    /\ task[t] = "initializing"
    /\ Retry(t, "queued")
    /\ uploadLock' = NoUpload
    /\ UNCHANGED <<queue, latest, arrivals, delayedBy, taken, merging,
                   scheduled, lost>>

(* Mutant: reading and trimming the list in two commands, off by one.      *)
MutantTrimOneLess(t) ==
    /\ task[t] = "draining"
    /\ queue # <<>>
    /\ LET n == IF Len(queue) < PopCount THEN Len(queue) ELSE PopCount
       IN  /\ taken' = [taken EXCEPT ![t] = @ \o SubSeq(queue, 1, n)]
           /\ queue' = SubSeq(queue, n, Len(queue))
    /\ UNCHANGED <<latest, arrivals, task, retries, delayedBy, uploadLock,
                   merging, scheduled, lost>>

(* arguments_list: lpop until the list is empty; then the Upload rows are  *)
(* committed.                                                              *)
Drain(t) ==
    /\ task[t] = "draining"
    /\ queue # <<>>
    /\ LET n == IF Len(queue) < PopCount THEN Len(queue) ELSE PopCount
       IN  /\ taken' = [taken EXCEPT ![t] = @ \o SubSeq(queue, 1, n)]
           /\ queue' = SubSeq(queue, n + 1, Len(queue))
    /\ UNCHANGED <<latest, arrivals, task, retries, delayedBy, uploadLock,
                   merging, scheduled, lost>>

DrainEnds(t) ==
    /\ task[t] = "draining"
    /\ queue = <<>>
    /\ Goto(t, "drained")
    /\ UNCHANGED <<queue, latest, arrivals, retries, delayedBy, taken,
                   uploadLock, merging, scheduled, lost>>

(* schedule_task (see UploadProcessing for its two halves); an empty       *)
(* argument list schedules nothing.  The lock is released.                 *)
ScheduleTask(t) ==
    /\ task[t] = "drained"
    /\ scheduled' = scheduled \o taken[t]
    /\ taken' = [taken EXCEPT ![t] = <<>>]
    /\ uploadLock' = NoUpload
    /\ Goto(t, "done")
    /\ UNCHANGED <<queue, latest, arrivals, retries, delayedBy, merging, lost>>

(* What a run has popped is only in its memory: it goes down with the run. *)
DropTaken(t) ==
    /\ lost' = lost \cup ToSet(taken[t])
    /\ taken' = [taken EXCEPT ![t] = <<>>]

(* SoftTimeLimitExceeded, or a SQLAlchemyError in BaseCodecovTask.run.     *)
Abort(t) ==
    /\ "abort" \in Events
    /\ task[t] \in InLock
    /\ DropTaken(t)
    /\ Retry(t, "queued")
    /\ uploadLock' = NoUpload
    /\ UNCHANGED <<queue, latest, arrivals, delayedBy, merging, scheduled>>

TaskError(t) ==
    /\ "error" \in Events
    /\ task[t] \in InLock
    /\ DropTaken(t)
    /\ Goto(t, "failed")
    /\ uploadLock' = NoUpload
    /\ UNCHANGED <<queue, latest, arrivals, retries, delayedBy, merging,
                   scheduled>>

TaskKilled(t) ==
    /\ "kill" \in Events
    /\ task[t] \in InLock \cup {"pending", "idle", "locking"}
    /\ DropTaken(t)
    /\ Goto(t, "dead")
    /\ UNCHANGED <<queue, latest, arrivals, retries, delayedBy, uploadLock,
                   merging, scheduled>>

(* Mutant: the lock has no timeout.                                        *)
MutantLockNeverExpires(t) ==
    uploadLock = t /\ FALSE /\ UNCHANGED vars

(* The lock's timeout is at least the hard time limit of the task.         *)
UploadLockExpires(t) ==
    /\ uploadLock = t
    /\ task[t] = "dead"
    /\ uploadLock' = NoUpload
    /\ UNCHANGED <<queue, latest, arrivals, task, retries, delayedBy, taken,
                   merging, scheduled, lost>>

-----------------------------------------------------------------------------
TaskStep(t) ==
    \/ SendTask(t) \/ Deliver(t) \/ CheckPending(t) \/ CheckProcessing(t)
    \/ CheckDebounce(t) \/ AcquireUploadLock(t) \/ RecheckPending(t)
    \/ InitializeReport(t) \/ Drain(t) \/ DrainEnds(t) \/ ScheduleTask(t)
    \/ UploadLockExpires(t)

TaskFault(t) ==
    \/ ApiCrash(t) \/ UploadLockTimeout(t) \/ NotReady(t) \/ Abort(t)
    \/ TaskError(t) \/ TaskKilled(t)

Next ==
    \/ \E t \in Uploads : Push(t) \/ TaskStep(t) \/ TaskFault(t)
    \/ LatestAges \/ ReportLockToggles \/ QueueExpires

Spec == Init /\ [][Next]_vars

(* celery delivers tasks when their countdown is over, live workers keep   *)
(* running, time passes.  Arrivals, the report lock and faults are free.   *)
Fairness ==
    /\ \A t \in Uploads : WF_vars(TaskStep(t))
    /\ WF_vars(LatestAges)

FairSpec == Spec /\ Fairness

-----------------------------------------------------------------------------
(* Properties.                                                             *)

(* Every variable has its type; in particular retries stay within          *)
(* max_retries whatever mixes of causes retry the task.                    *)
TypeOK ==
    /\ queue \in Seq(Uploads) /\ arrivals \in Seq(Uploads)
    /\ scheduled \in Seq(Uploads) /\ lost \subseteq Uploads
    /\ latest \in Uploads \cup {NoUpload}
    /\ task \in [Uploads -> TaskStates]
    /\ retries \in [Uploads -> 0 .. MaxRetries]
    /\ delayedBy \in [Uploads -> Uploads \cup {NoUpload}]
    /\ taken \in [Uploads -> Seq(Uploads)]
    /\ uploadLock \in Uploads \cup {NoUpload}
    /\ merging \in BOOLEAN

(* The UploadTask of an upload does not end normally while the upload is   *)
(* still in the redis list: whichever of its checks ends it ("No pending   *)
(* jobs", lock held by someone else), the upload is in other hands.        *)
NoTaskEndsEarly ==
    \A u \in ToSet(queue) : task[u] # "done"

(* Every upload that has arrived is in exactly one place, once: in the     *)
(* list, in the hands of one task inside the lock, handed to celery, or    *)
(* lost with a run that was cut off after popping it.                      *)
EachUploadOnce ==
    LET held == UNION {ToSet(taken[t]) : t \in Uploads}
    IN  /\ IsInjective(queue) /\ IsInjective(scheduled)
        /\ \A t \in Uploads :
            /\ IsInjective(taken[t])
            /\ taken[t] # <<>> => task[t] \in InLock
            /\ \A o \in Uploads \ {t} : ToSet(taken[t]) \cap ToSet(taken[o]) = {}
        /\ ToSet(queue) \cap (held \cup ToSet(scheduled) \cup lost) = {}
        /\ held \cap (ToSet(scheduled) \cup lost) = {}
        /\ ToSet(scheduled) \cap lost = {}
        /\ ToSet(arrivals) = ToSet(queue) \cup held \cup ToSet(scheduled) \cup lost

(* What comes before v in the sequence s.                                  *)
Earlier(s, v) ==
    {s[i] : i \in {k \in DOMAIN s : \E j \in DOMAIN s : k < j /\ s[j] = v}}

(* Batches reach celery in the order in which their uploads arrived, none  *)
(* left out: whatever arrived before a scheduled upload was scheduled      *)
(* before it, or lost.  No task overtakes another one between popping and  *)
(* scheduling.                                                             *)
NoOvertaking ==
    \A v \in ToSet(scheduled) :
        Earlier(arrivals, v) \subseteq lost \cup Earlier(scheduled, v)

(* Every upload that arrives is eventually handed to celery, although tasks*)
(* are retried, debounced, find the list empty or run out of retries.      *)
EventuallyScheduled ==
    \A u \in Uploads : task[u] # "none" ~> u \in ToSet(scheduled)

(* A worker that dies inside the upload lock does not stop the others.     *)
TasksEnd ==
    \A t \in Uploads : task[t] # "none" ~>
        task[t] \in {"done", "gaveup", "failed", "dead"}

=============================================================================
