------------------------------- MODULE Notify -------------------------------
(***************************************************************************)
(* Notifications about the coverage of ONE commit:                         *)
(*                                                                         *)
(*   apps/worker/tasks/notify.py            NotifyTask                     *)
(*   apps/worker/tasks/manual_trigger.py    ManualTriggerTask              *)
(*   apps/worker/services/lock_manager.py   LockManager.locked             *)
(*   apps/codecov-api/webhook_handlers/views/github.py   status            *)
(*   apps/codecov-api/upload/views/upload_completion.py  post              *)
(*                                                                         *)
(* NotifyTasks are sent by elected finishers, by webhooks about finished   *)
(* CI jobs and by manual triggers.  They run while other finishers still   *)
(* merge uploads into the report, fail, die or give up.  A finisher (with a*)
(* batch of one upload) has the steps of UploadProcessing, without the     *)
(* details of what its processor does and of how it counts.                *)
(***************************************************************************)
EXTENDS Integers, FiniteSets

CONSTANTS
    Uploads,          \* uploads of the commit; u also names its finisher and
                      \* the NotifyTask that finisher may send
    Requests,         \* requests from outside: each is a status webhook or a
                      \* call of the upload completion endpoint
    CiRetries,        \* max_retries while CI has not finished (5 or 10)
    ProviderRetries,  \* max_retries while all apps are rate limited (10)
    DbRetries,        \* celery's default max_retries, for database errors
    TriggerRetries,   \* max_retries of the manual trigger (5)
    AfterNBuilds,     \* yaml codecov.notify.after_n_builds
    WaitForCi,        \* yaml codecov.notify.wait_for_ci
    RequireCi,        \* yaml codecov.require_ci_to_pass
    ManualTrigger,    \* yaml codecov.notify.manual_trigger
    CarriedForward,   \* the UploadTask saved a carried-forward report first
    Events,           \* which of AllEvents may happen in this instance
    MaxFaults,        \* bound: how many of the faults among them happen
    NoTask            \* "holder" of a free lock

AllEvents == {
    "upload_error",   \* an upload turns out to have no usable coverage
    "tests_failed",   \* the test results of the commit have failures
    "rate_limited",   \* all GitHub apps are rate limited
    "provider",       \* no bot, no app, or an error of the git provider
    "stale_head",     \* the commit is no longer the head of its pull
    "lock_timeout",   \* blocking_timeout passes while a lock is held
    "lock_expiry",    \* a lock of 5 minutes expires under its holder
    "db",             \* a SQLAlchemyError
    "error",          \* another exception, or the soft time limit
    "kill"}           \* the worker dies

Tasks == Uploads \cup Requests

ASSUME SourcesAssumption ==
    /\ Uploads \cap Requests = {} /\ NoTask \notin Tasks
    /\ IsFiniteSet(Uploads)
ASSUME LimitsAssumption ==
    /\ CiRetries \in Nat /\ ProviderRetries \in Nat /\ DbRetries \in Nat
    /\ TriggerRetries \in Nat /\ AfterNBuilds \in Nat /\ MaxFaults \in Nat
ASSUME SettingsAssumption ==
    /\ WaitForCi \in BOOLEAN /\ RequireCi \in BOOLEAN
    /\ ManualTrigger \in BOOLEAN /\ CarriedForward \in BOOLEAN
    /\ Events \subseteq AllEvents

VARIABLES
    upload,      \* upload[u]: where upload u and its finisher are
    good,        \* uploads with coverage
    known,       \* known[u]: the Commit row the finisher loaded names a report
    unmerged,    \* uploads in the redis sets "processing" and "processed"
    report,      \* uploads in the stored master report
    hasReport,   \* the committed Commit row names a stored report
    settled,     \* uploads whose committed Upload.state is not UPLOADED
    reportLock,  \* holder of upload_processing_lock
    finisherLock,\* holder of upload_finisher_lock
    ci,          \* state of the commit's CI at the provider
    notify,      \* notify[n]: where the NotifyTask is
    retries,     \* retries[n]: its request.retries
    seen,        \* seen[n]: the Commit row it loaded names a report
    ciSeen,      \* ciSeen[n]: the ci_results it has fetched
    head,        \* head[n]: the head_report it has read
    notifyLock,  \* holder of notify_lock
    trigger,     \* trigger[t]: where the ManualTriggerTask is
    tries,       \* tries[t]: its request.retries
    triggerLock, \* holder of manual_trigger_lock
    counted,     \* history: uploads that had arrived when t found all processed
    sent,        \* what the notification at the provider is about
    faults       \* how many faults happened

finVars     == <<upload, good, known, unmerged, report, hasReport, settled,
                 reportLock, finisherLock>>
notifyVars  == <<notify, retries, seen, ciSeen, head, notifyLock, sent>>
triggerVars == <<trigger, tries, triggerLock, counted>>
vars == <<finVars, ci, notifyVars, triggerVars, faults>>

InReportLock == {"merging", "saved", "committed", "marked"}
FinRunning   == {"waiting", "released", "elected", "posting", "posted"}
                    \cup InReportLock
FinBroken    == {"failed",   \* an exception, or no retries left
                 "dead",     \* the worker is gone
                 "gaveup"}   \* upload_finisher_lock was not to be had
UploadStates == {"none", "uploaded", "done"} \cup FinRunning \cup FinBroken
CiStates == {"pending", "success", "failure"}
Running  == {"locked", "ready", "sending", "submitted"}
Ends     == {"notified",    \* notifications were sent
             "upcoming",    \* "has_other_notifies_coming"
             "few_builds",  \* after_n_builds, or no report at all
             "ended"}       \* every other end: a reason not to notify, an
                            \* error, the death of the worker
TaskStates    == {"none", "queued", "checked"} \cup Running \cup Ends
TriggerEnds   == {"done",     \* it has sent its NotifyTask
                  "gaveup"}   \* every other end
TriggerStates == {"none", "queued", "locked", "counted"} \cup TriggerEnds

Init ==
    /\ upload = [u \in Uploads |-> "none"]
    /\ good = {} /\ unmerged = {} /\ report = {} /\ settled = {}
    /\ known = [u \in Uploads |-> CarriedForward]
    /\ hasReport = CarriedForward
    /\ reportLock = NoTask /\ finisherLock = NoTask
    /\ ci = "pending"
    /\ notify = [n \in Tasks |-> "none"]
    /\ retries = [n \in Tasks |-> 0]
    /\ seen = [n \in Tasks |-> FALSE]
    /\ ciSeen = [n \in Tasks |-> "pending"]
    /\ head = [n \in Tasks |-> {}]
    /\ notifyLock = NoTask
    /\ trigger = [t \in Requests |-> "none"]
    /\ tries = [t \in Requests |-> 0]
    /\ triggerLock = NoTask
    /\ counted = [t \in Requests |-> {}]
    /\ sent = {}
    /\ faults = 0

(* A fault of this instance happens.                                       *)
Event(e) == e \in Events /\ faults < MaxFaults /\ faults' = faults + 1

Arrived == {u \in Uploads : upload[u] # "none"}

-----------------------------------------------------------------------------
(* Uploads and their finishers (see UploadProcessing).                     *)

OtherThanFin == <<ci, notifyVars, triggerVars>>

Advance(u, from, to) ==
    /\ upload[u] = from
    /\ upload' = [upload EXCEPT ![u] = to]

Arrive(u) ==
    /\ Advance(u, "none", "uploaded")
    /\ unmerged' = unmerged \cup {u}
    /\ \/ good' = good \cup {u}
       \/ "upload_error" \in Events /\ good' = good
    /\ UNCHANGED <<known, report, hasReport, settled, reportLock, finisherLock,
                   OtherThanFin, faults>>

(* The processor raises or dies, so that the finisher never runs: the      *)
(* upload may stay in redis, and its row stays as it is.                   *)
ProcessingFails(u) ==
    /\ Event("error")
    /\ Advance(u, "uploaded", "failed")
    /\ unmerged' \in {unmerged, unmerged \ {u}}
    /\ UNCHANGED <<good, known, report, hasReport, settled, reportLock,
                   finisherLock, OtherThanFin>>

(* The finisher loads the Commit row, before it takes the report lock.     *)
FinStart(u) ==
    /\ Advance(u, "uploaded", "waiting")
    /\ known' = [known EXCEPT ![u] = hasReport]
    /\ UNCHANGED <<good, unmerged, report, hasReport, settled, reportLock,
                   finisherLock, OtherThanFin, faults>>

AcquireReportLock(u) ==
    /\ reportLock = NoTask
    /\ Advance(u, "waiting", "merging")
    /\ reportLock' = u
    /\ UNCHANGED <<good, known, unmerged, report, hasReport, settled,
                   finisherLock, OtherThanFin, faults>>

(* LockError: the finisher starts anew, or has no retries left.            *)
ReportLockTimeout(u) ==
    /\ Event("lock_timeout")
    /\ reportLock # NoTask
    /\ Advance(u, "waiting", "uploaded") \/ Advance(u, "waiting", "failed")
    /\ UNCHANGED <<good, known, unmerged, report, hasReport, settled,
                   reportLock, finisherLock, OtherThanFin>>

(* Merges into the existing report, or into a new one when the Commit row  *)
(* of FinStart names none, and writes the whole report back.               *)
SaveReport(u) ==
    /\ Advance(u, "merging", "saved")
    /\ report' = (IF known[u] THEN report ELSE {}) \cup ({u} \cap good)
    /\ UNCHANGED <<good, known, unmerged, hasReport, settled, reportLock,
                   finisherLock, OtherThanFin, faults>>

(* Upload.state is no longer "uploaded" for other sessions, and the Commit *)
(* row names the report.                                                   *)
CommitDb(u) ==
    /\ Advance(u, "saved", "committed")
    /\ settled' = settled \cup {u}
    /\ hasReport' = TRUE
    /\ UNCHANGED <<good, known, unmerged, report, reportLock, finisherLock,
                   OtherThanFin, faults>>

MarkUploadsAsMerged(u) ==
    /\ Advance(u, "committed", "marked")
    /\ unmerged' = unmerged \ {u}
    /\ UNCHANGED <<good, known, report, hasReport, settled, reportLock,
                   finisherLock, OtherThanFin, faults>>

ReleaseReportLock(u) ==
    /\ Advance(u, "marked", "released")
    /\ reportLock' = NoTask
    /\ UNCHANGED <<good, known, unmerged, report, hasReport, settled,
                   finisherLock, OtherThanFin, faults>>

(* should_trigger_postprocessing.                                          *)
CountUploads(u) ==
    /\ Advance(u, "released", IF unmerged = {} THEN "elected" ELSE "done")
    /\ UNCHANGED <<good, known, unmerged, report, hasReport, settled,
                   reportLock, finisherLock, OtherThanFin, faults>>

AcquireFinisherLock(u) ==
    /\ finisherLock = NoTask
    /\ Advance(u, "elected", "posting")
    /\ finisherLock' = u
    /\ UNCHANGED <<good, known, unmerged, report, hasReport, settled,
                   reportLock, OtherThanFin, faults>>

(* LockError: the finisher returns, and there is no retry.                 *)
FinisherLockTimeout(u) ==
    /\ Event("lock_timeout")
    /\ finisherLock # NoTask
    /\ Advance(u, "elected", "gaveup")
    /\ UNCHANGED <<good, known, unmerged, report, hasReport, settled,
                   reportLock, finisherLock, OtherThanFin>>

(* should_call_notifications of the finisher.                              *)
ShouldCallNotify(u) ==
    /\ ~ManualTrigger
    /\ u \in good
    /\ AfterNBuilds <= Cardinality(report)

FinishReportsProcessing(u) ==
    /\ Advance(u, "posting", "posted")
    /\ notify' = [notify EXCEPT ![u] =
                    IF ShouldCallNotify(u) THEN "queued" ELSE @]
    /\ UNCHANGED <<good, known, unmerged, report, hasReport, settled,
                   reportLock, finisherLock, ci, retries, seen, ciSeen, head,
                   notifyLock, sent, triggerVars, faults>>

(* The lock is given back, unless it had expired.                          *)
FreeFinisherLock(u) ==
    finisherLock' = IF finisherLock = u THEN NoTask ELSE finisherLock

ReleaseFinisherLock(u) ==
    /\ Advance(u, "posted", "done")
    /\ FreeFinisherLock(u)
    /\ UNCHANGED <<good, known, unmerged, report, hasReport, settled,
                   reportLock, OtherThanFin, faults>>

(* Any exception, or the soft time limit: the lock is released on the way  *)
(* out, and wrap_up_dbsession may still commit what update_uploads and     *)
(* save_report had changed in the rows, with or without a saved report.    *)
FinError(u) ==
    /\ Event("error")
    /\ upload[u] \in FinRunning
    /\ upload' = [upload EXCEPT ![u] = "failed"]
    /\ reportLock' = IF reportLock = u THEN NoTask ELSE reportLock
    /\ FreeFinisherLock(u)
    /\ \/ UNCHANGED <<settled, hasReport>>
       \/ /\ upload[u] \in {"merging", "saved"}
          /\ settled' = settled \cup {u}
          /\ hasReport' = (hasReport \/ upload[u] = "saved")
    /\ UNCHANGED <<good, known, unmerged, report, OtherThanFin>>

(* The worker dies; a lock it held stays until it expires.                 *)
FinKilled(u) ==
    /\ Event("kill")
    /\ upload[u] \in FinRunning
    /\ upload' = [upload EXCEPT ![u] = "dead"]
    /\ UNCHANGED <<good, known, unmerged, report, hasReport, settled,
                   reportLock, finisherLock, OtherThanFin>>

(* The timeout of the report lock is at least the hard time limit.         *)
ReportLockExpires(u) ==
    /\ reportLock = u /\ upload[u] = "dead"
    /\ reportLock' = NoTask
    /\ UNCHANGED <<upload, good, known, unmerged, report, hasReport, settled,
                   finisherLock, OtherThanFin, faults>>

(* That of the finisher lock is not: it expires after a death ...          *)
FinisherLockExpires(u) ==
    /\ finisherLock = u
    /\ upload[u] = "dead"
    /\ finisherLock' = NoTask
    /\ UNCHANGED <<upload, good, known, unmerged, report, hasReport, settled,
                   reportLock, OtherThanFin, faults>>

(* ... or while its holder still works.                                    *)
FinisherLockOverrun(u) ==
    /\ Event("lock_expiry")
    /\ finisherLock = u
    /\ finisherLock' = NoTask
    /\ UNCHANGED <<upload, good, known, unmerged, report, hasReport, settled,
                   reportLock, OtherThanFin>>

-----------------------------------------------------------------------------
(* Continuous integration, and the webhook about it.                       *)

CiFinishes ==
    /\ ci = "pending"
    /\ ci' \in {"success", "failure"}
    /\ UNCHANGED <<finVars, notifyVars, triggerVars, faults>>

(* A commit is "complete" once a report that is not empty has been saved   *)
(* and committed.                                                          *)
Status(w) ==
    /\ notify[w] = "none" /\ trigger[w] = "none"
    /\ ci # "pending"
    /\ CarriedForward \/ settled \cap good # {}
    /\ notify' = [notify EXCEPT ![w] = "queued"]
    /\ UNCHANGED <<finVars, ci, retries, seen, ciSeen, head, notifyLock, sent,
                   triggerVars, faults>>

-----------------------------------------------------------------------------
(* NotifyTask.                                                             *)

OtherThanNotify == <<finVars, ci, triggerVars>>

Goto(n, s) == notify' = [notify EXCEPT ![n] = s]

(* What a run of the task knew is gone ...                                 *)
Forget(n) ==
    /\ seen' = [seen EXCEPT ![n] = FALSE]
    /\ ciSeen' = [ciSeen EXCEPT ![n] = "pending"]
    /\ head' = [head EXCEPT ![n] = {}]

(* ... when it leaves `with lock_manager.locked(...)`: to be run again, with*)
(* k retries so far, or because it has ended.                              *)
Leave(n, s, k) ==
    /\ Goto(n, s)
    /\ Forget(n)
    /\ retries' = [retries EXCEPT ![n] = k]
    /\ notifyLock' = NoTask

End(n, s) == Leave(n, s, 0)

(* Mutant: the retry does not count.                                       *)
MutantRetryForever(n, limit) == Leave(n, "queued", retries[n])

(* Mutant: one retry too many.                                             *)
MutantRetryOnceMore(n, limit) ==
    IF retries[n] <= limit THEN Leave(n, "queued", retries[n] + 1) ELSE End(n, "ended")

(* _attempt_retry, and the retries of BaseCodecovTask: all causes share    *)
(* request.retries, each with its own limit.                               *)
Retry(n, limit) ==
    IF retries[n] < limit THEN Leave(n, "queued", retries[n] + 1) ELSE End(n, "ended")

(* Mutant: a running notification is taken for an upcoming one.            *)
MutantUpcomingIfNotifying(n) ==
    /\ notify[n] = "queued"
    /\ IF reportLock # NoTask \/ notifyLock # NoTask
       THEN Goto(n, "upcoming") /\ retries' = [retries EXCEPT ![n] = 0]
       ELSE Goto(n, "checked") /\ UNCHANGED retries
    /\ UNCHANGED <<OtherThanNotify, seen, ciSeen, head, notifyLock, sent, faults>>

(* has_upcoming_notifies_according_to_redis: the report lock exists.       *)
CheckUpcoming(n) ==
    /\ notify[n] = "queued"
    /\ IF reportLock # NoTask
       THEN Goto(n, "upcoming") /\ retries' = [retries EXCEPT ![n] = 0]
       ELSE Goto(n, "checked") /\ UNCHANGED retries
    /\ UNCHANGED <<OtherThanNotify, seen, ciSeen, head, notifyLock, sent, faults>>

(* Mutant: the lock does not exclude anybody.                              *)
MutantLockNotExclusive(n) ==
    /\ notify[n] = "checked"
    /\ notifyLock' = n
    /\ seen' = [seen EXCEPT ![n] = hasReport]
    /\ Goto(n, "locked")
    /\ UNCHANGED <<OtherThanNotify, retries, ciSeen, head, sent, faults>>

(* The lock is taken and the Commit row loaded.                            *)
AcquireNotifyLock(n) ==
    /\ notify[n] = "checked"
    /\ notifyLock = NoTask
    /\ notifyLock' = n
    /\ seen' = [seen EXCEPT ![n] = hasReport]
    /\ Goto(n, "locked")
    /\ UNCHANGED <<OtherThanNotify, retries, ciSeen, head, sent, faults>>

(* LockRetry: another notification is already happening.                   *)
NotifyLockTimeout(n) ==
    /\ Event("lock_timeout")
    /\ notify[n] = "checked"
    /\ notifyLock # NoTask
    /\ Goto(n, "ended")
    /\ retries' = [retries EXCEPT ![n] = 0]
    /\ UNCHANGED <<OtherThanNotify, seen, ciSeen, head, notifyLock, sent>>

(* Failed tests: their own comment is there instead.                       *)
TestFailures(n) ==
    /\ Event("tests_failed")
    /\ notify[n] = "locked"
    /\ End(n, "ended")
    /\ UNCHANGED <<OtherThanNotify, sent>>

(* NoConfiguredAppsAvailable with rate limited apps.                       *)
RateLimited(n) ==
    /\ Event("rate_limited")
    /\ notify[n] = "locked"
    /\ Retry(n, ProviderRetries)
    /\ UNCHANGED <<OtherThanNotify, sent>>

(* No valid bot or app; the CI results cannot be fetched.                  *)
NoProvider(n) ==
    /\ Event("provider")
    /\ notify[n] = "locked"
    /\ End(n, "ended")
    /\ UNCHANGED <<OtherThanNotify, sent>>

(* fetch_and_update_whether_ci_passed, should_wait_longer.                 *)
FetchCi(n) ==
    /\ notify[n] = "locked"
    /\ IF WaitForCi /\ ci = "pending"
       THEN Retry(n, CiRetries)
       ELSE /\ ciSeen' = [ciSeen EXCEPT ![n] = ci]
            /\ Goto(n, "ready")
            /\ UNCHANGED <<retries, seen, head, notifyLock>>
    /\ UNCHANGED <<OtherThanNotify, sent, faults>>

(* get_existing_report_for_commit: the report as it is now, if the Commit  *)
(* row that was loaded before names one.                                   *)
HeadReport(n) == IF seen[n] THEN report ELSE {}

(* should_send_notifications, of the CI result fetched before and of the   *)
(* report just read.                                                       *)
CiFailed(n)  == RequireCi /\ ciSeen[n] = "failure"
FewBuilds(n) == AfterNBuilds > Cardinality(HeadReport(n))

(* send_notifications_if_commit_differs_from_pulls_head is False.          *)
StaleHead ==
    /\ "stale_head" \in Events
    /\ WaitForCi \/ ManualTrigger \/ AfterNBuilds > 0

(* get_existing_report_for_commit and the decisions that follow.           *)
ReadHeadReport(n) ==
    /\ notify[n] = "ready"
    /\ \/ CiFailed(n) /\ End(n, "ended")
       \/ ~CiFailed(n) /\ (FewBuilds(n) \/ ~seen[n]) /\ End(n, "few_builds")
       \/ ~CiFailed(n) /\ ~FewBuilds(n) /\ StaleHead /\ End(n, "ended")
       \/ /\ ~CiFailed(n) /\ ~FewBuilds(n) /\ seen[n]
          /\ Goto(n, "sending")
          /\ head' = [head EXCEPT ![n] = HeadReport(n)]
          /\ UNCHANGED <<retries, seen, ciSeen, notifyLock>>
    /\ UNCHANGED <<OtherThanNotify, sent, faults>>

(* submit_third_party_notifications.                                       *)
Submit(n) ==
    /\ notify[n] = "sending"
    /\ sent' = head[n]
    /\ Goto(n, "submitted")
    /\ UNCHANGED <<OtherThanNotify, retries, seen, ciSeen, head, notifyLock, faults>>

ReleaseNotifyLock(n) ==
    /\ notify[n] = "submitted"
    /\ End(n, "notified")
    /\ UNCHANGED <<OtherThanNotify, sent, faults>>

(* A database error: the task is retried from its start, even if it has    *)
(* already notified.                                                       *)
NotifyDbError(n) ==
    /\ Event("db")
    /\ notify[n] \in Running
    /\ Retry(n, DbRetries)
    /\ UNCHANGED <<OtherThanNotify, sent>>

NotifyError(n) ==
    /\ Event("error")
    /\ notify[n] \in Running
    /\ End(n, "ended")
    /\ UNCHANGED <<OtherThanNotify, sent>>

NotifyKilled(n) ==
    /\ Event("kill")
    /\ notify[n] \in {"checked"} \cup Running
    /\ Goto(n, "ended")
    /\ Forget(n)
    /\ retries' = [retries EXCEPT ![n] = 0]
    /\ UNCHANGED <<OtherThanNotify, notifyLock, sent>>

(* The timeout is not shorter than the hard time limit of the task.        *)
NotifyLockExpires(n) ==
    /\ notify[n] = "ended" /\ notifyLock = n
    /\ notifyLock' = NoTask
    /\ UNCHANGED <<OtherThanNotify, notify, retries, seen, ciSeen, head, sent, faults>>

-----------------------------------------------------------------------------
(* The upload completion endpoint and ManualTriggerTask.                   *)

OtherThanTrigger == <<finVars, ci, retries, seen, ciSeen, head, notifyLock, sent>>

TriggerGoto(t, s) == trigger' = [trigger EXCEPT ![t] = s]

(* It starts anew, or ends without having sent a NotifyTask.               *)
TriggerRetry(t) ==
    /\ TriggerGoto(t, "queued")
    /\ tries' = [tries EXCEPT ![t] = @ + 1]
    /\ UNCHANGED counted

GiveUp(t) ==
    /\ TriggerGoto(t, "gaveup")
    /\ tries' = [tries EXCEPT ![t] = 0]
    /\ counted' = [counted EXCEPT ![t] = {}]

RequestCompletion(t) ==
    /\ notify[t] = "none" /\ trigger[t] = "none"
    /\ Arrived # {}
    /\ TriggerGoto(t, "queued")
    /\ UNCHANGED <<OtherThanTrigger, notify, tries, triggerLock, counted, faults>>

AcquireTriggerLock(t) ==
    /\ trigger[t] = "queued"
    /\ triggerLock = NoTask
    /\ triggerLock' = t
    /\ TriggerGoto(t, "locked")
    /\ UNCHANGED <<OtherThanTrigger, notify, tries, counted, faults>>

(* LockError: a trigger of the commit has the lock, one of Requests or one *)
(* that is left out of this instance.                                      *)
TriggerLockTimeout(t) ==
    /\ Event("lock_timeout")
    /\ trigger[t] = "queued"
    /\ GiveUp(t)
    /\ UNCHANGED <<OtherThanTrigger, notify, triggerLock>>

(* The lock is given back, unless it had expired (LockNotOwnedError).      *)
FreeTriggerLock(t) ==
    triggerLock' = IF triggerLock = t THEN NoTask ELSE triggerLock

(* Mutant: only uploads without any state count, as in the endpoint.       *)
MutantOnlyWithoutState == {}

(* Uploads whose committed state is still UPLOADED.                        *)
StillProcessing == Arrived \ settled

(* process_impl_within_lock: counts, and waits if some are not processed.  *)
TriggerCount(t) ==
    /\ trigger[t] = "locked"
    /\ IF StillProcessing = {}
       THEN /\ TriggerGoto(t, "counted")
            /\ counted' = [counted EXCEPT ![t] = Arrived]
            /\ UNCHANGED <<tries, triggerLock>>
       ELSE /\ IF tries[t] < TriggerRetries THEN TriggerRetry(t) ELSE GiveUp(t)
            /\ FreeTriggerLock(t)
    /\ UNCHANGED <<OtherThanTrigger, notify, faults>>

TriggerNotifications(t) ==
    /\ trigger[t] = "counted"
    /\ Goto(t, "queued")
    /\ TriggerGoto(t, "done")
    /\ tries' = [tries EXCEPT ![t] = 0]
    /\ FreeTriggerLock(t)
    /\ UNCHANGED <<OtherThanTrigger, counted, faults>>

TriggerError(t) ==
    /\ Event("error")
    /\ trigger[t] \in {"locked", "counted"}
    /\ GiveUp(t)
    /\ FreeTriggerLock(t)
    /\ UNCHANGED <<OtherThanTrigger, notify>>

(* BaseCodecovTask.run retries after a database error; when the lock had   *)
(* expired, LockNotOwnedError takes the place of the database error.       *)
TriggerDbError(t) ==
    /\ Event("db")
    /\ trigger[t] \in {"locked", "counted"}
    /\ IF triggerLock = t /\ tries[t] < DbRetries THEN TriggerRetry(t) ELSE GiveUp(t)
    /\ FreeTriggerLock(t)
    /\ UNCHANGED <<OtherThanTrigger, notify>>

TriggerKilled(t) ==
    /\ Event("kill")
    /\ trigger[t] \in {"locked", "counted"}
    /\ GiveUp(t)
    /\ UNCHANGED <<OtherThanTrigger, notify, triggerLock>>

(* The lock's 5 minutes are over: after a death, or before the task is done*)
TriggerLockExpires(t) ==
    /\ triggerLock = t
    /\ trigger[t] = "gaveup"
    /\ triggerLock' = NoTask
    /\ UNCHANGED <<OtherThanTrigger, notify, trigger, tries, counted, faults>>

TriggerLockOverrun(t) ==
    /\ Event("lock_expiry")
    /\ triggerLock = t
    /\ triggerLock' = NoTask
    /\ UNCHANGED <<OtherThanTrigger, notify, trigger, tries, counted>>

-----------------------------------------------------------------------------
FinStep(u) ==
    \/ FinStart(u) \/ AcquireReportLock(u) \/ SaveReport(u) \/ CommitDb(u)
    \/ MarkUploadsAsMerged(u) \/ ReleaseReportLock(u) \/ CountUploads(u)
    \/ AcquireFinisherLock(u) \/ FinishReportsProcessing(u)
    \/ ReleaseFinisherLock(u)

FinFault(u) ==
    \/ ProcessingFails(u) \/ ReportLockTimeout(u) \/ FinisherLockTimeout(u)
    \/ FinError(u) \/ FinKilled(u) \/ FinisherLockOverrun(u)

LockExpiry(u) == ReportLockExpires(u) \/ FinisherLockExpires(u)

NotifyStep(n) ==
    \/ CheckUpcoming(n) \/ AcquireNotifyLock(n) \/ FetchCi(n)
    \/ ReadHeadReport(n) \/ Submit(n) \/ ReleaseNotifyLock(n)
    \/ NotifyLockExpires(n)

NotifyFault(n) ==
    \/ NotifyLockTimeout(n) \/ TestFailures(n) \/ RateLimited(n)
    \/ NoProvider(n) \/ NotifyDbError(n) \/ NotifyError(n) \/ NotifyKilled(n)

TriggerStep(t) ==
    \/ AcquireTriggerLock(t) \/ TriggerCount(t) \/ TriggerNotifications(t)
    \/ TriggerLockExpires(t)

TriggerFault(t) ==
    \/ TriggerLockTimeout(t) \/ TriggerDbError(t) \/ TriggerError(t)
    \/ TriggerKilled(t) \/ TriggerLockOverrun(t)

Next ==
    \/ \E u \in Uploads : Arrive(u) \/ FinStep(u) \/ FinFault(u) \/ LockExpiry(u)
    \/ \E n \in Tasks : NotifyStep(n) \/ NotifyFault(n)
    \/ \E r \in Requests :
        Status(r) \/ RequestCompletion(r) \/ TriggerStep(r) \/ TriggerFault(r)
    \/ CiFinishes

Spec == Init /\ [][Next]_vars

(* Live workers run the NotifyTasks that were sent, and redis expires their*)
(* lock.  Everything else is up to the environment.                        *)
Fairness == \A n \in Tasks : WF_vars(NotifyStep(n))

FairSpec == Spec /\ Fairness

-----------------------------------------------------------------------------
(* Properties.                                                             *)

(* Every variable has its type; request.retries stays within the largest   *)
(* of the limits that share it.                                            *)
TypeOK ==
    /\ upload \in [Uploads -> UploadStates]
    /\ good \subseteq Uploads /\ unmerged \subseteq Uploads
    /\ known \in [Uploads -> BOOLEAN] /\ hasReport \in BOOLEAN
    /\ report \subseteq Uploads /\ settled \subseteq Uploads
    /\ reportLock \in Uploads \cup {NoTask}
    /\ finisherLock \in Uploads \cup {NoTask}
    /\ ci \in CiStates
    /\ notify \in [Tasks -> TaskStates]
    /\ retries \in [Tasks -> Nat]
    /\ \A n \in Tasks : retries[n] <= CiRetries \/ retries[n] <= ProviderRetries
                            \/ retries[n] <= DbRetries
    /\ seen \in [Tasks -> BOOLEAN] /\ ciSeen \in [Tasks -> CiStates]
    /\ head \in [Tasks -> SUBSET Uploads]
    /\ notifyLock \in Tasks \cup {NoTask}
    /\ trigger \in [Requests -> TriggerStates]
    /\ tries \in [Requests -> Nat]
    /\ \A t \in Requests : tries[t] <= TriggerRetries \/ tries[t] <= DbRetries
    /\ triggerLock \in Requests \cup {NoTask}
    /\ counted \in [Requests -> SUBSET Uploads]
    /\ sent \subseteq Uploads
    /\ faults \in 0 .. MaxFaults

(* On a commit with a carried-forward report, a later notification never   *)
(* shows an older report than an earlier one, although several NotifyTasks *)
(* of the commit run while uploads are merged and finishers die: the report*)
(* is read, and the notification sent, under one lock.  (Without a report  *)
(* to start from, a finisher may overwrite the report with an older one:   *)
(* see LockPreventsLostMerges of UploadProcessing.)                        *)
NotificationsNeverRegress == [][CarriedForward => sent \subseteq sent']_vars

(* The finisher of u failed before it had marked u as merged: the row of u *)
(* may have been committed without the report.                             *)
FailedToMerge(u) == upload[u] = "failed" /\ u \in unmerged

(* "All uploads are processed. Triggering notifications.": on a commit with*)
(* a carried-forward report, a notification that was triggered manually is *)
(* about every upload that had arrived when the trigger counted, except for*)
(* those that failed to merge: whatever a finisher does or suffers, it     *)
(* saves the report before the upload rows are committed.                  *)
ManualIsComplete ==
    CarriedForward =>
        \A t \in Requests : notify[t] \in {"sending", "submitted"} =>
            \A u \in counted[t] \cap good : u \in head[t] \/ FailedToMerge(u)

(* Nothing of the commit is left to run, and every finisher, though perhaps*)
(* after retries and with an expired lock, came to its own end.            *)
Quiet ==
    /\ \A u \in Uploads : upload[u] \in {"none", "done"}
    /\ \A n \in Tasks : notify[n] \in Ends \cup {"none"}
    /\ \A t \in Requests : trigger[t] \in TriggerEnds \cup {"none"}

(* Unless a finisher broke or a NotifyTask ended for a reason of its own,  *)
(* the final report of a commit without failed uploads has been notified:  *)
(* tasks that end because "other jobs are being processed", because of     *)
(* after_n_builds or because they saw no report yet leave it to one that   *)
(* comes later.                                                            *)
CompleteIsNotified ==
    /\ Quiet
    /\ Arrived \subseteq good /\ ~ManualTrigger
    /\ \A n \in Tasks : notify[n] \in {"none", "notified", "upcoming", "few_builds"}
    /\ Cardinality(report) >= AfterNBuilds
    => sent = report

(* Every NotifyTask comes to an end, however often CI, rate limits or the  *)
(* database make it start again and whoever dies with the lock.            *)
NotifyEnds == \A n \in Tasks : notify[n] = "queued" ~> notify[n] \in Ends

=============================================================================
