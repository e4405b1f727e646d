---------------------------- MODULE NotifyProofs ----------------------------
(***************************************************************************)
(* Proofs about Notify, for any uploads, requests, limits and yaml         *)
(* settings, with or without a carried-forward report, and with any number *)
(* of faults of every kind.                                                *)
(***************************************************************************)
EXTENDS Notify, FiniteSetTheorems, TLAPS

Sending == {"sending", "submitted"}

(* Uploads that finishers have still to merge: a finisher whose upload is  *)
(* counted is on its way to merge it, or broken, and vice versa.           *)
Unmerged == {"uploaded", "waiting", "merging", "saved", "committed"}
UnmergedInv ==
    \A u \in Uploads :
        /\ upload[u] \in Unmerged => u \in unmerged
        /\ u \in unmerged => upload[u] \in Unmerged \cup FinBroken

(* Only the holder of a lock is inside it, or died there.                  *)
NotifyLockInv == \A n \in Tasks : notify[n] \in Running => notifyLock = n
ReportLockInv ==
    \A u \in Uploads :
        /\ upload[u] \in InReportLock => reportLock = u
        /\ reportLock = u => upload[u] \in InReportLock \cup {"dead"}

(* With a report to start from, nobody ever sees the commit without one.   *)
CarryInv == CarriedForward => hasReport /\ \A u \in Uploads : known[u]

(* The provider shows an earlier state of the report, and the NotifyTask in*)
(* the lock has read one at least as new: nobody else can notify meanwhile.*)
SentInv ==
    CarriedForward =>
        /\ sent \subseteq report
        /\ \A n \in Tasks : notify[n] \in Sending =>
            sent \subseteq head[n] /\ head[n] \subseteq report

(* The coverage of an upload is in the report before its row is committed, *)
(* except for the late commit of a finisher that failed.                   *)
SavedInv ==
    /\ settled \subseteq Arrived
    /\ CarriedForward =>
        /\ \A u \in good : upload[u] = "saved" => u \in report
        /\ \A u \in settled \cap good : u \in report \/ FailedToMerge(u)

(* What a manual trigger has counted is settled, and the trigger sends its *)
(* NotifyTask only after counting.                                         *)
CountedInv ==
    \A t \in Requests :
        /\ counted[t] \subseteq settled
        /\ trigger[t] \in {"queued", "locked", "counted"} => notify[t] = "none"

IInv ==
    /\ TypeOK /\ UnmergedInv /\ NotifyLockInv /\ ReportLockInv /\ CarryInv
    /\ SentInv /\ SavedInv /\ CountedInv /\ ManualIsComplete

(* A NotifyTask notifies only if it has seen a committed report; a report  *)
(* that the Commit row does not name is that of a finisher which is about  *)
(* to commit, or never will.                                               *)
SeenInv ==
    /\ \A n \in Tasks : seen[n] => hasReport
    /\ \A n \in Tasks : notify[n] \in Sending => seen[n]
    /\ sent # {} => hasReport
    /\ report # {} /\ ~hasReport =>
        \E u \in Uploads : upload[u] \in {"saved", "failed", "dead"}

(* A finisher has not yet decided whether to notify.                       *)
Undecided == UploadStates \ ({"none", "posted", "done"} \cup FinBroken)
Busy == \E u \in Uploads : upload[u] \in Undecided

(* A NotifyTask has yet to read the report, or has read its present state. *)
WillNotify(n) ==
    \/ notify[n] \in {"queued", "checked"}
    \/ notify[n] \in {"locked", "ready"} /\ (seen[n] \/ ~hasReport)
    \/ notify[n] = "sending" /\ head[n] = report
Pending == \E n \in Tasks : WillNotify(n)

(* The commit deserves a notification and nothing has prevented one.       *)
Deserving ==
    /\ ~ManualTrigger
    /\ Arrived \subseteq good
    /\ \A u \in Uploads : upload[u] \notin FinBroken
    /\ \A n \in Tasks : notify[n] # "ended"
    /\ AfterNBuilds <= Cardinality(report)

(* The provider shows the report, and nobody is about to change that.      *)
UpToDate == sent = report /\ \A n \in Tasks : notify[n] # "sending"

(* Somebody always feels responsible: the strengthening of                 *)
(* CompleteIsNotified that is inductive.                                   *)
PromiseInv == Deserving => UpToDate \/ Busy \/ Pending

-----------------------------------------------------------------------------
(* The shape of the steps, as far as the invariants go.                    *)

(* A NotifyTask ends, or is queued again, and gives its lock back.         *)
LeavesLock(n) ==
    /\ notify[n] \in Running
    /\ \E s \in {"queued"} \cup Ends, k \in Int : Leave(n, s, k)
    /\ UNCHANGED <<OtherThanNotify, sent>>

(* It goes on from one state to another without the lock being involved.   *)
Moves(n, from, to) ==
    /\ notify[n] \in from
    /\ \E s \in to : Goto(n, s)
    /\ UNCHANGED seen \/ Forget(n)
    /\ UNCHANGED head \/ Forget(n)
    /\ UNCHANGED <<OtherThanNotify, notifyLock, sent>>

(* Another attempt, or the end, of a task that holds its lock.             *)
LEMMA RetryLeaves ==
    ASSUME TypeOK, NEW n \in Tasks, NEW limit, Retry(n, limit)
    PROVE  \E s \in {"queued", "ended"}, k \in Int : Leave(n, s, k)
<1>1. retries[n] + 1 \in Int /\ 0 \in Int
  BY DEF TypeOK
<1> QED BY <1>1 DEF Retry, End

LEMMA LeavesLockSteps ==
    ASSUME TypeOK, NEW n \in Tasks,
           \/ TestFailures(n) \/ RateLimited(n) \/ NoProvider(n)
           \/ NotifyDbError(n) \/ NotifyError(n) \/ ReleaseNotifyLock(n)
    PROVE  LeavesLock(n)
<1> USE DEF LeavesLock, Running, Ends
<1>1. CASE TestFailures(n) \/ NoProvider(n) \/ NotifyError(n)
  BY <1>1 DEF TestFailures, NoProvider, NotifyError, End
<1>2. CASE RateLimited(n) \/ NotifyDbError(n)
  <2>1. \E s \in {"queued", "ended"}, k \in Int : Leave(n, s, k)
    BY <1>2, RetryLeaves DEF RateLimited, NotifyDbError
  <2> QED BY <1>2, <2>1 DEF RateLimited, NotifyDbError
<1>3. CASE ReleaseNotifyLock(n)
  BY <1>3 DEF ReleaseNotifyLock, End
<1> QED BY <1>1, <1>2, <1>3

(* fetch_and_update_whether_ci_passed goes on, or waits for CI.            *)
LEMMA FetchCiSteps ==
    ASSUME TypeOK, NEW n \in Tasks, FetchCi(n)
    PROVE  LeavesLock(n) \/ Moves(n, {"locked"}, {"ready"})
<1>1. CASE WaitForCi /\ ci = "pending"
  <2>1. \E s \in {"queued", "ended"}, k \in Int : Leave(n, s, k)
    BY <1>1, RetryLeaves DEF FetchCi
  <2> QED BY <1>1, <2>1 DEF FetchCi, LeavesLock, Running, Ends
<1>2. CASE ~(WaitForCi /\ ci = "pending")
  BY <1>2 DEF FetchCi, Moves
<1> QED BY <1>1, <1>2

(* The head report is read, or there is a reason not to notify.            *)
ReadsReport(n) ==
    /\ notify[n] = "ready"
    /\ seen[n]
    /\ Goto(n, "sending")
    /\ head' = [head EXCEPT ![n] = report]
    /\ UNCHANGED <<OtherThanNotify, seen, notifyLock, sent>>

LEMMA ReadHeadReportSteps ==
    ASSUME NEW n \in Tasks, ReadHeadReport(n)
    PROVE  LeavesLock(n) \/ ReadsReport(n)
BY DEF ReadHeadReport, HeadReport, End, LeavesLock, ReadsReport, Running, Ends

LEMMA QueuedSteps ==
    ASSUME NEW n \in Tasks,
           CheckUpcoming(n) \/ NotifyLockTimeout(n) \/ NotifyKilled(n)
    PROVE  Moves(n, {"queued", "checked"} \cup Running, {"checked"} \cup Ends)
BY DEF CheckUpcoming, NotifyLockTimeout, NotifyKilled, Moves, Running, Ends

(* Whatever a finisher, its upload or its locks may do.                    *)
FinAny(u) == Arrive(u) \/ FinStep(u) \/ FinFault(u) \/ LockExpiry(u)

(* Only postprocessing touches a NotifyTask: it may send one.              *)
LEMMA FinKeeps ==
    ASSUME NEW u \in Uploads, FinAny(u)
    PROVE  /\ UNCHANGED <<ci, retries, seen, ciSeen, head, notifyLock, sent, triggerVars>>
           /\ \/ UNCHANGED notify
              \/ FinishReportsProcessing(u) /\ notify' = [notify EXCEPT ![u] = "queued"]
              \/ FinishReportsProcessing(u) /\ notify' = [notify EXCEPT ![u] = @]
<1> USE DEF OtherThanFin, notifyVars
<1>1. CASE Arrive(u)
  BY <1>1 DEF Arrive
<1>2. CASE FinStep(u)
  BY <1>2 DEF FinStep, FinStart, AcquireReportLock, SaveReport, CommitDb,
     MarkUploadsAsMerged, ReleaseReportLock, CountUploads, AcquireFinisherLock,
     FinishReportsProcessing, ReleaseFinisherLock
<1>3. CASE FinFault(u)
  BY <1>3 DEF FinFault, ProcessingFails, ReportLockTimeout, FinisherLockTimeout,
     FinError, FinKilled, FinisherLockOverrun
<1>4. CASE LockExpiry(u)
  BY <1>4 DEF LockExpiry, ReportLockExpires, FinisherLockExpires
<1> QED BY <1>1, <1>2, <1>3, <1>4 DEF FinAny

-----------------------------------------------------------------------------
(* Type correctness.                                                       *)

LEMMA InitIInv == Init => IInv
<1> SUFFICES ASSUME Init PROVE IInv
  OBVIOUS
<1>1. 0 \in Nat /\ 0 \in 0 .. MaxFaults /\ 0 <= TriggerRetries /\ 0 <= CiRetries
  BY LimitsAssumption
<1>2. TypeOK
  BY <1>1, SettingsAssumption DEF Init, TypeOK, UploadStates, CiStates, TaskStates,
     TriggerStates
<1>3. UnmergedInv /\ NotifyLockInv /\ ReportLockInv /\ CarryInv
  BY SourcesAssumption DEF Init, UnmergedInv, Unmerged, NotifyLockInv, ReportLockInv,
     CarryInv, Running, InReportLock, Tasks
<1>4. SentInv /\ SavedInv /\ CountedInv /\ ManualIsComplete
  BY DEF Init, SentInv, SavedInv, CountedInv, ManualIsComplete, Sending, Tasks, Arrived
<1> QED BY <1>2, <1>3, <1>4 DEF IInv

(* What a NotifyTask may change.                                           *)
NotifyTypes ==
    /\ notify \in [Tasks -> TaskStates]
    /\ retries \in [Tasks -> Nat]
    /\ \A n \in Tasks : retries[n] <= CiRetries \/ retries[n] <= ProviderRetries
                            \/ retries[n] <= DbRetries
    /\ seen \in [Tasks -> BOOLEAN]
    /\ ciSeen \in [Tasks -> CiStates]
    /\ head \in [Tasks -> SUBSET Uploads]
    /\ notifyLock \in Tasks \cup {NoTask}

(* A task that leaves its lock with an acceptable number of retries.       *)
LEMMA LeaveTyped ==
    ASSUME TypeOK, NEW n \in Tasks, NEW s \in {"queued"} \cup Ends, NEW k \in Nat,
           k <= CiRetries \/ k <= ProviderRetries \/ k <= DbRetries,
           Leave(n, s, k)
    PROVE  NotifyTypes'
<1>1. s \in TaskStates /\ "pending" \in CiStates
  BY DEF TaskStates, CiStates
<1>2. /\ notify' = [notify EXCEPT ![n] = s]
      /\ retries' = [retries EXCEPT ![n] = k]
      /\ seen' = [seen EXCEPT ![n] = FALSE]
      /\ ciSeen' = [ciSeen EXCEPT ![n] = "pending"]
      /\ head' = [head EXCEPT ![n] = {}]
      /\ notifyLock' = NoTask
  BY DEF Leave, Forget, Goto
<1>3. notify' \in [Tasks -> TaskStates] /\ retries' \in [Tasks -> Nat]
      /\ head' \in [Tasks -> SUBSET Uploads] /\ ciSeen' \in [Tasks -> CiStates]
  BY <1>1, <1>2 DEF TypeOK
<1>4. seen' \in [Tasks -> BOOLEAN]
  BY <1>2 DEF TypeOK
<1>5. \A m \in Tasks : retries'[m] <= CiRetries \/ retries'[m] <= ProviderRetries
                            \/ retries'[m] <= DbRetries
  BY <1>2 DEF TypeOK
<1> QED BY <1>2, <1>3, <1>4, <1>5 DEF NotifyTypes

LEMMA EndTyped ==
    ASSUME TypeOK, NEW n \in Tasks, NEW s \in Ends, End(n, s)
    PROVE  NotifyTypes'
<1>1. 0 \in Nat /\ 0 <= CiRetries
  BY LimitsAssumption
<1> QED BY <1>1, LeaveTyped DEF End

(* A retry with any one of the limits that share request.retries.          *)
LEMMA RetryTyped ==
    ASSUME TypeOK, NEW n \in Tasks,
           NEW limit \in {CiRetries, ProviderRetries, DbRetries}, Retry(n, limit)
    PROVE  NotifyTypes'
<1>1. CASE retries[n] < limit
  <2>1. retries[n] + 1 \in Nat /\ retries[n] + 1 <= limit
    BY <1>1, LimitsAssumption DEF TypeOK
  <2>2. Leave(n, "queued", retries[n] + 1)
    BY <1>1 DEF Retry
  <2> QED BY <2>1, <2>2, LeaveTyped
<1>2. CASE ~(retries[n] < limit)
  BY <1>2, EndTyped DEF Retry, Ends
<1> QED BY <1>1, <1>2

LEMMA FaultsTyped ==
    ASSUME TypeOK, UNCHANGED faults \/ \E e \in AllEvents : Event(e)
    PROVE  faults' \in 0 .. MaxFaults
BY LimitsAssumption DEF TypeOK, Event

LEMMA NotifyTypeStep ==
    ASSUME TypeOK, NEW n \in Tasks, NotifyStep(n) \/ NotifyFault(n)
    PROVE  TypeOK'
<1> USE DEF OtherThanNotify, finVars, triggerVars
<1>0. faults' \in 0 .. MaxFaults
  <2>1. UNCHANGED faults \/ \E e \in AllEvents : Event(e)
    BY DEF NotifyStep, NotifyFault, CheckUpcoming, AcquireNotifyLock, FetchCi,
       ReadHeadReport, Submit, ReleaseNotifyLock, NotifyLockExpires,
       NotifyLockTimeout, TestFailures, RateLimited, NoProvider, NotifyDbError,
       NotifyError, NotifyKilled, AllEvents
  <2> QED BY <2>1, FaultsTyped
<1> SUFFICES NotifyTypes' /\ sent' \subseteq Uploads /\ UNCHANGED OtherThanNotify
  BY <1>0 DEF TypeOK, NotifyTypes
<1>1. /\ {"queued", "checked", "locked", "ready", "sending", "submitted"} \cup Ends
             \subseteq TaskStates
      /\ "pending" \in CiStates /\ {"upcoming", "ended", "notified"} \subseteq Ends
  BY DEF TaskStates, Running, CiStates, Ends
<1>2. CASE CheckUpcoming(n) \/ NotifyLockTimeout(n)
  <2>1. /\ \E s \in {"upcoming", "checked", "ended"} : notify' = [notify EXCEPT ![n] = s]
        /\ retries' = retries \/ retries' = [retries EXCEPT ![n] = 0]
        /\ UNCHANGED <<OtherThanNotify, seen, ciSeen, head, notifyLock, sent>>
    BY <1>2 DEF CheckUpcoming, NotifyLockTimeout, Goto
  <2>2. notify' \in [Tasks -> TaskStates]
    BY <1>1, <2>1 DEF TypeOK
  <2> QED BY <2>1, <2>2, LimitsAssumption DEF TypeOK, NotifyTypes
<1>3. CASE NotifyKilled(n)
  <2>1. /\ notify' = [notify EXCEPT ![n] = "ended"]
        /\ retries' = [retries EXCEPT ![n] = 0]
        /\ seen' = [seen EXCEPT ![n] = FALSE]
        /\ ciSeen' = [ciSeen EXCEPT ![n] = "pending"]
        /\ head' = [head EXCEPT ![n] = {}]
        /\ UNCHANGED <<OtherThanNotify, notifyLock, sent>>
    BY <1>3 DEF NotifyKilled, Goto, Forget
  <2>2. /\ notify' \in [Tasks -> TaskStates] /\ ciSeen' \in [Tasks -> CiStates]
        /\ head' \in [Tasks -> SUBSET Uploads]
    BY <1>1, <2>1 DEF TypeOK
  <2>3. seen' \in [Tasks -> BOOLEAN]
    BY <2>1 DEF TypeOK
  <2> QED BY <2>1, <2>2, <2>3, LimitsAssumption DEF TypeOK, NotifyTypes
<1>4. CASE AcquireNotifyLock(n)
  <2>1. /\ notify' = [notify EXCEPT ![n] = "locked"]
        /\ seen' = [seen EXCEPT ![n] = hasReport] /\ notifyLock' = n
        /\ UNCHANGED <<OtherThanNotify, retries, ciSeen, head, sent>>
    BY <1>4 DEF AcquireNotifyLock, Goto
  <2>2. notify' \in [Tasks -> TaskStates]
    BY <1>1, <2>1 DEF TypeOK
  <2>3. seen' \in [Tasks -> BOOLEAN]
    BY <2>1 DEF TypeOK
  <2> QED BY <2>1, <2>2, <2>3 DEF TypeOK, NotifyTypes
<1>5. CASE Submit(n) \/ NotifyLockExpires(n)
  BY <1>1, <1>5 DEF Submit, NotifyLockExpires, TypeOK, NotifyTypes, Goto
<1>6. CASE TestFailures(n) \/ NoProvider(n) \/ NotifyError(n) \/ ReleaseNotifyLock(n)
  <2>1. NotifyTypes'
    BY <1>1, <1>6, EndTyped DEF TestFailures, NoProvider, NotifyError, ReleaseNotifyLock
  <2> QED BY <1>6, <2>1 DEF TestFailures, NoProvider, NotifyError, ReleaseNotifyLock,
             TypeOK
<1>7. CASE RateLimited(n) \/ NotifyDbError(n)
  <2>1. NotifyTypes'
    BY <1>7, RetryTyped DEF RateLimited, NotifyDbError
  <2> QED BY <1>7, <2>1 DEF RateLimited, NotifyDbError, TypeOK
<1>8. CASE FetchCi(n)
  <2>1. CASE WaitForCi /\ ci = "pending"
    <3>1. NotifyTypes'
      BY <1>8, <2>1, RetryTyped DEF FetchCi
    <3> QED BY <1>8, <3>1 DEF FetchCi, TypeOK
  <2>2. CASE ~(WaitForCi /\ ci = "pending")
    BY <1>1, <1>8, <2>2 DEF FetchCi, TypeOK, NotifyTypes, Goto
  <2> QED BY <2>1, <2>2
<1>9. CASE ReadHeadReport(n)
  <2>1. CASE ReadsReport(n) /\ UNCHANGED <<retries, ciSeen>>
    BY <1>1, <1>9, <2>1 DEF ReadsReport, TypeOK, NotifyTypes, Goto
  <2>2. CASE End(n, "ended") \/ End(n, "few_builds")
    <3>1. NotifyTypes'
      BY <2>2, EndTyped DEF Ends
    <3> QED BY <1>9, <3>1 DEF ReadHeadReport, TypeOK
  <2> QED BY <1>9, <2>1, <2>2 DEF ReadHeadReport, HeadReport, ReadsReport
<1> QED BY <1>2, <1>3, <1>4, <1>5, <1>6, <1>7, <1>8, <1>9 DEF NotifyStep, NotifyFault

LEMMA FinTypeStep ==
    ASSUME TypeOK, NEW u \in Uploads, FinAny(u)
    PROVE  TypeOK'
<1>0. faults' \in 0 .. MaxFaults
  <2>1. UNCHANGED faults \/ \E e \in AllEvents : Event(e)
    BY DEF FinAny, Arrive, FinStep, FinFault, LockExpiry, FinStart, AcquireReportLock,
       SaveReport, CommitDb, MarkUploadsAsMerged, ReleaseReportLock, CountUploads,
       AcquireFinisherLock, FinishReportsProcessing, ReleaseFinisherLock,
       ProcessingFails, ReportLockTimeout, FinisherLockTimeout, FinError, FinKilled,
       FinisherLockOverrun, ReportLockExpires, FinisherLockExpires, AllEvents
  <2> QED BY <2>1, FaultsTyped
<1>1. notify' \in [Tasks -> TaskStates]
  <2>1. "queued" \in TaskStates
    BY DEF TaskStates
  <2> QED BY <2>1, FinKeeps DEF TypeOK
<1> SUFFICES /\ upload' \in [Uploads -> UploadStates]
             /\ good' \subseteq Uploads /\ unmerged' \subseteq Uploads
             /\ known' \in [Uploads -> BOOLEAN] /\ hasReport' \in BOOLEAN
             /\ report' \subseteq Uploads /\ settled' \subseteq Uploads
             /\ reportLock' \in Uploads \cup {NoTask}
             /\ finisherLock' \in Uploads \cup {NoTask}
  BY <1>0, <1>1, FinKeeps DEF TypeOK, triggerVars
<1>2. upload' \in [Uploads -> UploadStates]
  <2>1. upload' = upload \/ \E s \in UploadStates : upload' = [upload EXCEPT ![u] = s]
    BY DEF FinAny, Arrive, FinStep, FinFault, LockExpiry, FinStart, AcquireReportLock,
       SaveReport, CommitDb, MarkUploadsAsMerged, ReleaseReportLock, CountUploads,
       AcquireFinisherLock, FinishReportsProcessing, ReleaseFinisherLock,
       ProcessingFails, ReportLockTimeout, FinisherLockTimeout, FinError, FinKilled,
       FinisherLockOverrun, ReportLockExpires, FinisherLockExpires, Advance,
       UploadStates, FinRunning, FinBroken, InReportLock
  <2> QED BY <2>1 DEF TypeOK
<1>3. good' \subseteq Uploads /\ unmerged' \subseteq Uploads
      /\ report' \subseteq Uploads /\ settled' \subseteq Uploads
  BY DEF FinAny, Arrive, FinStep, FinFault, LockExpiry, FinStart, AcquireReportLock,
     SaveReport, CommitDb, MarkUploadsAsMerged, ReleaseReportLock, CountUploads,
     AcquireFinisherLock, FinishReportsProcessing, ReleaseFinisherLock,
     ProcessingFails, ReportLockTimeout, FinisherLockTimeout, FinError, FinKilled,
     FinisherLockOverrun, ReportLockExpires, FinisherLockExpires, TypeOK
<1>4. known' \in [Uploads -> BOOLEAN] /\ hasReport' \in BOOLEAN
  <2>1. known' = known \/ known' = [known EXCEPT ![u] = hasReport]
    BY DEF FinAny, Arrive, FinStep, FinFault, LockExpiry, FinStart, AcquireReportLock,
       SaveReport, CommitDb, MarkUploadsAsMerged, ReleaseReportLock, CountUploads,
       AcquireFinisherLock, FinishReportsProcessing, ReleaseFinisherLock,
       ProcessingFails, ReportLockTimeout, FinisherLockTimeout, FinError, FinKilled,
       FinisherLockOverrun, ReportLockExpires, FinisherLockExpires
  <2>2. hasReport' = hasReport \/ hasReport' = TRUE
        \/ hasReport' = (hasReport \/ upload[u] = "saved")
    BY DEF FinAny, Arrive, FinStep, FinFault, LockExpiry, FinStart, AcquireReportLock,
       SaveReport, CommitDb, MarkUploadsAsMerged, ReleaseReportLock, CountUploads,
       AcquireFinisherLock, FinishReportsProcessing, ReleaseFinisherLock,
       ProcessingFails, ReportLockTimeout, FinisherLockTimeout, FinError, FinKilled,
       FinisherLockOverrun, ReportLockExpires, FinisherLockExpires
  <2> QED BY <2>1, <2>2 DEF TypeOK
<1>5. reportLock' \in Uploads \cup {NoTask} /\ finisherLock' \in Uploads \cup {NoTask}
  <2>1. /\ reportLock' \in {reportLock, u, NoTask}
        /\ finisherLock' \in {finisherLock, u, NoTask}
    BY DEF FinAny, Arrive, FinStep, FinFault, LockExpiry, FinStart, AcquireReportLock,
       SaveReport, CommitDb, MarkUploadsAsMerged, ReleaseReportLock, CountUploads,
       AcquireFinisherLock, FinishReportsProcessing, ReleaseFinisherLock,
       ProcessingFails, ReportLockTimeout, FinisherLockTimeout, FinError, FinKilled,
       FinisherLockOverrun, ReportLockExpires, FinisherLockExpires, FreeFinisherLock
  <2> QED BY <2>1 DEF TypeOK
<1> QED BY <1>2, <1>3, <1>4, <1>5

(* Starting anew, and giving up, of a manual trigger.                      *)
LEMMA TriggerLeaves ==
    ASSUME TypeOK, NEW t \in Requests,
           \/ TriggerRetry(t) /\ (tries[t] < TriggerRetries \/ tries[t] < DbRetries)
           \/ GiveUp(t)
    PROVE  /\ trigger' \in [Requests -> TriggerStates]
           /\ tries' \in [Requests -> Nat]
           /\ \A r \in Requests : tries'[r] <= TriggerRetries \/ tries'[r] <= DbRetries
           /\ counted' \in [Requests -> SUBSET Uploads]
<1>1. {"queued", "gaveup"} \subseteq TriggerStates
  BY DEF TriggerStates, TriggerEnds
<1>2. CASE GiveUp(t)
  BY <1>1, <1>2, LimitsAssumption DEF GiveUp, TriggerGoto, TypeOK
<1>3. CASE TriggerRetry(t) /\ (tries[t] < TriggerRetries \/ tries[t] < DbRetries)
  <2>1. /\ trigger' = [trigger EXCEPT ![t] = "queued"]
        /\ tries' = [tries EXCEPT ![t] = tries[t] + 1] /\ UNCHANGED counted
    BY <1>3 DEF TriggerRetry, TriggerGoto
  <2>2. tries[t] + 1 \in Nat /\ (tries[t] + 1 <= TriggerRetries \/ tries[t] + 1 <= DbRetries)
    BY <1>3, LimitsAssumption DEF TypeOK
  <2> QED BY <1>1, <2>1, <2>2 DEF TypeOK
<1> QED BY <1>2, <1>3

LEMMA RequestTypeStep ==
    ASSUME TypeOK, NEW t \in Requests,
           Status(t) \/ RequestCompletion(t) \/ TriggerStep(t) \/ TriggerFault(t)
    PROVE  TypeOK'
<1>0. faults' \in 0 .. MaxFaults
  <2>1. UNCHANGED faults \/ \E e \in AllEvents : Event(e)
    BY DEF Status, RequestCompletion, TriggerStep, TriggerFault, AcquireTriggerLock,
       TriggerCount, TriggerNotifications, TriggerLockExpires, TriggerLockTimeout,
       TriggerDbError, TriggerError, TriggerKilled, TriggerLockOverrun, AllEvents
  <2> QED BY <2>1, FaultsTyped
<1>1. /\ {"queued", "locked", "counted", "done", "gaveup"} \subseteq TriggerStates
      /\ "queued" \in TaskStates /\ t \in Tasks /\ Arrived \subseteq Uploads
  BY DEF TriggerStates, TriggerEnds, TaskStates, Tasks, Arrived
<1> USE DEF OtherThanTrigger, finVars, triggerVars
<1>2. CASE Status(t) \/ RequestCompletion(t)
  BY <1>0, <1>1, <1>2 DEF Status, RequestCompletion, TriggerGoto, TypeOK
<1>3. CASE AcquireTriggerLock(t) \/ TriggerLockExpires(t) \/ TriggerLockOverrun(t)
  BY <1>0, <1>1, <1>3 DEF AcquireTriggerLock, TriggerLockExpires, TriggerLockOverrun,
     TriggerGoto, TypeOK
<1>4. CASE TriggerNotifications(t)
  BY <1>0, <1>1, <1>4, LimitsAssumption DEF TriggerNotifications, TriggerGoto,
     FreeTriggerLock, Goto, TypeOK
<1>5. CASE TriggerCount(t)
  <2>1. CASE StillProcessing = {}
    BY <1>0, <1>1, <1>5, <2>1 DEF TriggerCount, TriggerGoto, TypeOK
  <2>2. CASE StillProcessing # {}
    <3>1. /\ \/ TriggerRetry(t) /\ tries[t] < TriggerRetries
             \/ GiveUp(t)
          /\ triggerLock' \in {triggerLock, NoTask}
          /\ UNCHANGED <<OtherThanTrigger, notify>>
      BY <1>5, <2>2 DEF TriggerCount, FreeTriggerLock
    <3> QED BY <1>0, <3>1, TriggerLeaves DEF TypeOK
  <2> QED BY <2>1, <2>2
<1>6. CASE TriggerLockTimeout(t) \/ TriggerError(t) \/ TriggerKilled(t) \/ TriggerDbError(t)
  <2>1. /\ \/ TriggerRetry(t) /\ tries[t] < DbRetries
           \/ GiveUp(t)
        /\ triggerLock' \in {triggerLock, NoTask}
        /\ UNCHANGED <<OtherThanTrigger, notify>>
    BY <1>6 DEF TriggerLockTimeout, TriggerError, TriggerKilled, TriggerDbError,
       FreeTriggerLock
  <2> QED BY <1>0, <2>1, TriggerLeaves DEF TypeOK
<1> QED BY <1>2, <1>3, <1>4, <1>5, <1>6 DEF TriggerStep, TriggerFault

LEMMA TypeStep == TypeOK /\ [Next]_vars => TypeOK'
<1> SUFFICES ASSUME TypeOK, [Next]_vars PROVE TypeOK'
  OBVIOUS
<1>1. CASE CiFinishes
  BY <1>1 DEF CiFinishes, TypeOK, finVars, notifyVars, triggerVars, CiStates
<1>2. CASE UNCHANGED vars
  BY <1>2 DEF vars, TypeOK, finVars, notifyVars, triggerVars
<1> QED BY <1>1, <1>2, NotifyTypeStep, FinTypeStep, RequestTypeStep DEF Next, FinAny

-----------------------------------------------------------------------------
(* The other parts of the invariant.                                       *)

NotTypeInv ==
    /\ UnmergedInv /\ NotifyLockInv /\ ReportLockInv /\ CarryInv
    /\ SentInv /\ SavedInv /\ CountedInv /\ ManualIsComplete

(* What only finishers touch.                                              *)
FinInv == UnmergedInv /\ ReportLockInv /\ CarryInv /\ SavedInv

LEMMA FinInvUnchanged ==
    ASSUME FinInv, UNCHANGED finVars
    PROVE  FinInv'
BY DEF FinInv, finVars, UnmergedInv, ReportLockInv, CarryInv, SavedInv, Arrived,
   FailedToMerge

(* What is committed is in the report, up to failed finishers.             *)
LEMMA SettledIsSaved ==
    ASSUME IInv, CarriedForward, NEW t \in Requests, NEW u \in counted[t] \cap good
    PROVE  u \in report \/ FailedToMerge(u)
BY DEF IInv, SavedInv, CountedInv

LEMMA NotifyInvStep ==
    ASSUME IInv, TypeOK', NEW n \in Tasks, NotifyStep(n) \/ NotifyFault(n)
    PROVE  NotTypeInv'
<1> USE DEF IInv
<1>0. UNCHANGED OtherThanNotify
  BY DEF NotifyStep, NotifyFault, CheckUpcoming, AcquireNotifyLock, FetchCi,
     ReadHeadReport, Submit, ReleaseNotifyLock, NotifyLockExpires,
     NotifyLockTimeout, TestFailures, RateLimited, NoProvider, NotifyDbError,
     NotifyError, NotifyKilled
<1>1. FinInv'
  BY <1>0, FinInvUnchanged DEF FinInv, OtherThanNotify
<1>2. UNCHANGED <<upload, good, unmerged, report, settled, trigger, counted>>
  BY <1>0 DEF OtherThanNotify, finVars, triggerVars
<1> SUFFICES NotifyLockInv' /\ SentInv' /\ CountedInv' /\ ManualIsComplete'
  BY <1>1 DEF NotTypeInv, FinInv
<1>3. ASSUME NEW s, notify' = [notify EXCEPT ![n] = s],
             notify[n] # "none" PROVE CountedInv'
  BY <1>2, <1>3 DEF CountedInv, TypeOK, Tasks
<1>4. CASE LeavesLock(n)
  <2>1. PICK s \in {"queued"} \cup Ends : notify' = [notify EXCEPT ![n] = s]
    BY <1>4 DEF LeavesLock, Leave, Goto
  <2>2. notify[n] \in Running /\ UNCHANGED sent
    BY <1>4 DEF LeavesLock
  <2>3. s \notin Running /\ notify[n] # "none"
    BY <2>2 DEF Running, Ends
  <2>4. \A m \in Tasks : notify'[m] \notin Running
    BY <2>1, <2>2, <2>3 DEF NotifyLockInv, TypeOK
  <2>5. NotifyLockInv' /\ SentInv' /\ ManualIsComplete'
    BY <1>2, <2>2, <2>4 DEF NotifyLockInv, SentInv, ManualIsComplete, Running, Sending, Tasks
  <2> QED BY <1>3, <2>1, <2>3, <2>5
<1>5. CASE \/ Moves(n, {"queued", "checked"} \cup Running, {"checked"} \cup Ends)
           \/ Moves(n, {"locked"}, {"ready"})
  <2>1. PICK s \in {"checked", "ready"} \cup Ends : notify' = [notify EXCEPT ![n] = s]
    BY <1>5 DEF Moves, Goto
  <2>2. /\ notify[n] # "none" /\ UNCHANGED <<notifyLock, sent>>
        /\ s \in Running => notify[n] \in Running
        /\ \A m \in Tasks \ {n} : head'[m] = head[m]
    <3>1. notify[n] # "none" /\ UNCHANGED <<notifyLock, sent>>
      BY <1>5 DEF Moves, Running
    <3>2. notify'[n] = s
      BY <2>1 DEF TypeOK
    <3>3. notify'[n] \in Running => notify[n] \in Running
      BY <1>5 DEF Moves, Goto, Running, Ends, TypeOK
    <3>4. \A m \in Tasks \ {n} : head'[m] = head[m]
      BY <1>5 DEF Moves, Forget, TypeOK
    <3> QED BY <3>1, <3>2, <3>3, <3>4
  <2>3. s \notin Sending
    BY DEF Sending, Ends
  <2>4. NotifyLockInv'
    BY <2>1, <2>2 DEF NotifyLockInv, TypeOK
  <2>5. \A m \in Tasks : notify'[m] \in Sending => notify[m] \in Sending /\ head'[m] = head[m]
    BY <2>1, <2>2, <2>3 DEF TypeOK
  <2>6. SentInv'
    BY <1>2, <2>2, <2>5 DEF SentInv
  <2>7. ManualIsComplete'
    BY <1>2, <2>5 DEF ManualIsComplete, Sending, Tasks, FailedToMerge
  <2> QED BY <1>3, <2>1, <2>2, <2>4, <2>6, <2>7
<1>6. CASE AcquireNotifyLock(n)
  <2>1. /\ notify[n] = "checked" /\ notify' = [notify EXCEPT ![n] = "locked"]
        /\ notifyLock = NoTask /\ notifyLock' = n /\ UNCHANGED <<head, sent>>
    BY <1>6 DEF AcquireNotifyLock, Goto
  <2>2. NotifyLockInv'
    BY <2>1, SourcesAssumption DEF NotifyLockInv, TypeOK
  <2>3. SentInv' /\ ManualIsComplete'
    BY <1>2, <2>1 DEF SentInv, ManualIsComplete, Sending, TypeOK, Tasks, FailedToMerge
  <2> QED BY <1>3, <2>1, <2>2, <2>3
<1>7. CASE ReadsReport(n)
  <2>1. /\ notify[n] = "ready" /\ notify' = [notify EXCEPT ![n] = "sending"]
        /\ head' = [head EXCEPT ![n] = report] /\ UNCHANGED <<notifyLock, sent>>
    BY <1>7 DEF ReadsReport, Goto
  <2>2. NotifyLockInv'
    BY <2>1 DEF NotifyLockInv, TypeOK, Running
  <2>3. SentInv'
    BY <1>2, <2>1 DEF SentInv, TypeOK, Sending
  <2>4. ManualIsComplete'
    BY <1>2, <2>1, SettledIsSaved DEF ManualIsComplete, TypeOK, Tasks, FailedToMerge
  <2> QED BY <1>3, <2>1, <2>2, <2>3, <2>4
<1>8. CASE Submit(n)
  <2>1. /\ notify[n] = "sending" /\ notify' = [notify EXCEPT ![n] = "submitted"]
        /\ sent' = head[n] /\ UNCHANGED <<notifyLock, head>>
    BY <1>8 DEF Submit, Goto
  <2>2. NotifyLockInv'
    BY <2>1 DEF NotifyLockInv, TypeOK, Running
  <2>3. \A m \in Tasks : notify'[m] \in Sending => m = n
    BY <2>1, <2>2 DEF NotifyLockInv, Running, Sending, TypeOK
  <2>4. SentInv'
    BY <1>2, <2>1, <2>3 DEF SentInv, TypeOK, Sending
  <2>5. ManualIsComplete'
    BY <1>2, <2>1 DEF ManualIsComplete, TypeOK, Tasks, FailedToMerge
  <2> QED BY <1>3, <2>1, <2>2, <2>4, <2>5
<1>9. CASE NotifyLockExpires(n)
  <2>1. /\ notify[n] = "ended" /\ notifyLock = n /\ UNCHANGED <<notify, head, sent>>
    BY <1>9 DEF NotifyLockExpires
  <2>2. NotifyLockInv'
    BY <2>1 DEF NotifyLockInv, Running, Ends
  <2> QED BY <1>2, <2>1, <2>2 DEF SentInv, CountedInv, ManualIsComplete, FailedToMerge
<1>10. CASE FetchCi(n)
  BY <1>4, <1>5, <1>10, FetchCiSteps
<1>11. CASE ReadHeadReport(n)
  BY <1>4, <1>7, <1>11, ReadHeadReportSteps
<1>12. CASE CheckUpcoming(n) \/ NotifyLockTimeout(n) \/ NotifyKilled(n)
  BY <1>5, <1>12, QueuedSteps
<1>13. CASE \/ TestFailures(n) \/ RateLimited(n) \/ NoProvider(n)
            \/ NotifyDbError(n) \/ NotifyError(n) \/ ReleaseNotifyLock(n)
  BY <1>4, <1>13, LeavesLockSteps
<1> QED BY <1>6, <1>8, <1>9, <1>10, <1>11, <1>12, <1>13 DEF NotifyStep, NotifyFault

(* The finisher's own bookkeeping, one fact per action.                    *)
LEMMA FinUnmergedStep ==
    ASSUME TypeOK, UnmergedInv, NEW u \in Uploads, FinAny(u)
    PROVE  UnmergedInv'
<1> USE DEF UnmergedInv, Unmerged, FinBroken, TypeOK, Advance
<1>1. CASE Arrive(u) \/ ProcessingFails(u)
  BY <1>1 DEF Arrive, ProcessingFails
<1>2. CASE MarkUploadsAsMerged(u)
  BY <1>2 DEF MarkUploadsAsMerged
<1>3. CASE CountUploads(u)
  BY <1>3 DEF CountUploads
<1>4. CASE FinStart(u) \/ AcquireReportLock(u) \/ SaveReport(u) \/ CommitDb(u)
           \/ ReleaseReportLock(u)
  BY <1>4 DEF FinStart, AcquireReportLock, SaveReport, CommitDb, ReleaseReportLock
<1>5. CASE AcquireFinisherLock(u) \/ FinishReportsProcessing(u) \/ ReleaseFinisherLock(u)
           \/ ReportLockTimeout(u) \/ FinisherLockTimeout(u)
  BY <1>5 DEF AcquireFinisherLock, FinishReportsProcessing, ReleaseFinisherLock,
     ReportLockTimeout, FinisherLockTimeout
<1>6. CASE FinError(u) \/ FinKilled(u)
  BY <1>6 DEF FinError, FinKilled
<1>7. CASE FinisherLockOverrun(u) \/ LockExpiry(u)
  BY <1>7 DEF FinisherLockOverrun, LockExpiry, ReportLockExpires, FinisherLockExpires
<1> QED BY <1>1, <1>2, <1>3, <1>4, <1>5, <1>6, <1>7 DEF FinAny, FinStep, FinFault

LEMMA FinLockStep ==
    ASSUME TypeOK, ReportLockInv, NEW u \in Uploads, FinAny(u)
    PROVE  ReportLockInv'
<1> USE SourcesAssumption DEF ReportLockInv, InReportLock, Tasks, TypeOK, Advance
<1>1. CASE Arrive(u) \/ ProcessingFails(u) \/ FinStart(u)
  BY <1>1 DEF Arrive, ProcessingFails, FinStart
<1>2. CASE AcquireReportLock(u)
  BY <1>2 DEF AcquireReportLock
<1>3. CASE SaveReport(u) \/ CommitDb(u) \/ MarkUploadsAsMerged(u)
  BY <1>3 DEF SaveReport, CommitDb, MarkUploadsAsMerged
<1>4. CASE ReleaseReportLock(u)
  BY <1>4 DEF ReleaseReportLock
<1>5. CASE CountUploads(u) \/ AcquireFinisherLock(u) \/ FinishReportsProcessing(u)
           \/ ReleaseFinisherLock(u)
  BY <1>5 DEF CountUploads, AcquireFinisherLock, FinishReportsProcessing,
     ReleaseFinisherLock
<1>6. CASE ReportLockTimeout(u) \/ FinisherLockTimeout(u)
  BY <1>6 DEF ReportLockTimeout, FinisherLockTimeout
<1>7. CASE FinError(u)
  <2>1. /\ upload' = [upload EXCEPT ![u] = "failed"]
        /\ reportLock' = IF reportLock = u THEN NoTask ELSE reportLock
    BY <1>7 DEF FinError
  <2> QED BY <2>1
<1>8. CASE FinKilled(u)
  <2>1. /\ upload' = [upload EXCEPT ![u] = "dead"] /\ UNCHANGED reportLock
    BY <1>8 DEF FinKilled
  <2> QED BY <2>1
<1>9. CASE FinisherLockOverrun(u) \/ FinisherLockExpires(u)
  BY <1>9 DEF FinisherLockOverrun, FinisherLockExpires
<1>10. CASE ReportLockExpires(u)
  BY <1>10 DEF ReportLockExpires
<1> QED BY <1>1, <1>2, <1>3, <1>4, <1>5, <1>6, <1>7, <1>8, <1>9, <1>10
        DEF FinAny, FinStep, FinFault, LockExpiry

LEMMA FinCarryStep ==
    ASSUME TypeOK, CarryInv, NEW u \in Uploads, FinAny(u)
    PROVE  CarryInv'
<1> SUFFICES ASSUME CarriedForward PROVE hasReport' /\ \A v \in Uploads : known'[v]
  BY DEF CarryInv
<1>1. hasReport /\ \A v \in Uploads : known[v]
  BY DEF CarryInv
<1>2. known' = known \/ known' = [known EXCEPT ![u] = hasReport]
  BY DEF FinAny, Arrive, FinStep, FinFault, LockExpiry, FinStart, AcquireReportLock,
     SaveReport, CommitDb, MarkUploadsAsMerged, ReleaseReportLock, CountUploads,
     AcquireFinisherLock, FinishReportsProcessing, ReleaseFinisherLock,
     ProcessingFails, ReportLockTimeout, FinisherLockTimeout, FinError, FinKilled,
     FinisherLockOverrun, ReportLockExpires, FinisherLockExpires
<1>3. hasReport => hasReport'
  BY DEF FinAny, Arrive, FinStep, FinFault, LockExpiry, FinStart, AcquireReportLock,
     SaveReport, CommitDb, MarkUploadsAsMerged, ReleaseReportLock, CountUploads,
     AcquireFinisherLock, FinishReportsProcessing, ReleaseFinisherLock,
     ProcessingFails, ReportLockTimeout, FinisherLockTimeout, FinError, FinKilled,
     FinisherLockOverrun, ReportLockExpires, FinisherLockExpires
<1> QED BY <1>1, <1>2, <1>3 DEF TypeOK

(* Nothing that matters to others is ever taken back: committed rows stay, *)
(* a carried-forward report only grows, an upload that failed to merge     *)
(* stays that way, and coverage is known before an upload is committed.    *)
LEMMA FinMonotone ==
    ASSUME IInv, NEW u \in Uploads, FinAny(u)
    PROVE  /\ settled \subseteq settled'
           /\ Arrived \subseteq Arrived'
           /\ CarriedForward => report \subseteq report'
           /\ \A v \in Uploads : FailedToMerge(v) => FailedToMerge(v)'
           /\ \A v \in Arrived : v \in good' => v \in good
<1> USE DEF IInv, TypeOK, Advance, Arrived, FailedToMerge
<1>1. CASE Arrive(u) \/ ProcessingFails(u)
  BY <1>1 DEF Arrive, ProcessingFails
<1>2. CASE SaveReport(u)
  BY <1>2 DEF SaveReport, CarryInv
<1>3. CASE FinStart(u) \/ AcquireReportLock(u) \/ CommitDb(u) \/ MarkUploadsAsMerged(u)
           \/ ReleaseReportLock(u)
  BY <1>3 DEF FinStart, AcquireReportLock, CommitDb, MarkUploadsAsMerged,
     ReleaseReportLock
<1>4. CASE CountUploads(u) \/ AcquireFinisherLock(u) \/ FinishReportsProcessing(u)
           \/ ReleaseFinisherLock(u) \/ ReportLockTimeout(u) \/ FinisherLockTimeout(u)
  BY <1>4 DEF CountUploads, AcquireFinisherLock, FinishReportsProcessing,
     ReleaseFinisherLock, ReportLockTimeout, FinisherLockTimeout
<1>5. CASE FinError(u) \/ FinKilled(u)
  BY <1>5 DEF FinError, FinKilled, FinRunning, InReportLock
<1>6. CASE FinisherLockOverrun(u) \/ LockExpiry(u)
  BY <1>6 DEF FinisherLockOverrun, LockExpiry, ReportLockExpires, FinisherLockExpires
<1> QED BY <1>1, <1>2, <1>3, <1>4, <1>5, <1>6 DEF FinAny, FinStep, FinFault

LEMMA FinSavedStep ==
    ASSUME IInv, NEW u \in Uploads, FinAny(u)
    PROVE  SavedInv'
<1>1. /\ settled' \subseteq settled \cup {u}
      /\ \A v \in Uploads \ {u} : upload'[v] = upload[v]
      /\ good' \subseteq good \cup {u}
  BY DEF FinAny, Arrive, FinStep, FinFault, LockExpiry, FinStart, AcquireReportLock,
     SaveReport, CommitDb, MarkUploadsAsMerged, ReleaseReportLock, CountUploads,
     AcquireFinisherLock, FinishReportsProcessing, ReleaseFinisherLock,
     ProcessingFails, ReportLockTimeout, FinisherLockTimeout, FinError, FinKilled,
     FinisherLockOverrun, ReportLockExpires, FinisherLockExpires, Advance, IInv, TypeOK
<1>2. u \in settled' \ settled =>
        /\ u \in Arrived
        /\ UNCHANGED <<good, report, unmerged>>
        /\ \/ upload[u] = "saved"
           \/ upload[u] = "merging" /\ upload'[u] = "failed"
  BY DEF FinAny, Arrive, FinStep, FinFault, LockExpiry, FinStart, AcquireReportLock,
     SaveReport, CommitDb, MarkUploadsAsMerged, ReleaseReportLock, CountUploads,
     AcquireFinisherLock, FinishReportsProcessing, ReleaseFinisherLock,
     ProcessingFails, ReportLockTimeout, FinisherLockTimeout, FinError, FinKilled,
     FinisherLockOverrun, ReportLockExpires, FinisherLockExpires, Advance, IInv, TypeOK,
     Arrived
<1>3. settled' \subseteq Arrived'
  BY <1>1, <1>2, FinMonotone DEF IInv, SavedInv
<1> SUFFICES ASSUME CarriedForward
             PROVE  /\ \A v \in good' : upload'[v] = "saved" => v \in report'
                    /\ \A v \in settled' \cap good' : v \in report' \/ FailedToMerge(v)'
  BY <1>3 DEF SavedInv
<1>4. ASSUME NEW v \in good', upload'[v] = "saved" PROVE v \in report'
  <2>1. upload'[u] = "saved" =>
          \/ SaveReport(u)
          \/ upload[u] = "saved" /\ UNCHANGED <<good, report>>
    BY DEF FinAny, Arrive, FinStep, FinFault, LockExpiry, FinStart, AcquireReportLock,
       CommitDb, MarkUploadsAsMerged, ReleaseReportLock, CountUploads,
       AcquireFinisherLock, FinishReportsProcessing, ReleaseFinisherLock,
       ProcessingFails, ReportLockTimeout, FinisherLockTimeout, FinError, FinKilled,
       FinisherLockOverrun, ReportLockExpires, FinisherLockExpires, Advance, IInv, TypeOK
  <2>2. CASE v = u /\ SaveReport(u)
    BY <1>4, <2>2 DEF SaveReport
  <2>3. CASE v = u /\ upload[u] = "saved" /\ UNCHANGED <<good, report>>
    BY <1>4, <2>3 DEF IInv, SavedInv
  <2>4. CASE v # u
    <3>1. v \in good /\ upload[v] = "saved"
      BY <1>1, <1>4, <2>4 DEF IInv, TypeOK
    <3> QED BY <3>1, FinMonotone DEF IInv, SavedInv
  <2> QED BY <1>4, <2>1, <2>2, <2>3, <2>4
<1>5. ASSUME NEW v \in settled' \cap good' PROVE v \in report' \/ FailedToMerge(v)'
  <2>1. CASE v \in settled
    <3>1. v \in good /\ v \in Uploads
      BY <1>5, <2>1, FinMonotone DEF IInv, SavedInv, TypeOK
    <3> QED BY <2>1, <3>1, FinMonotone DEF IInv, SavedInv
  <2>2. CASE v \notin settled
    <3>1. v = u
      BY <1>1, <1>5, <2>2
    <3>2. CASE upload[u] = "saved"
      BY <1>2, <1>5, <2>2, <3>1, <3>2 DEF IInv, SavedInv
    <3>3. CASE upload[u] = "merging" /\ upload'[u] = "failed"
      BY <1>2, <1>5, <2>2, <3>1, <3>3 DEF IInv, UnmergedInv, Unmerged, FailedToMerge
    <3> QED BY <1>2, <1>5, <2>2, <3>1, <3>2, <3>3
  <2> QED BY <2>1, <2>2
<1> QED BY <1>4, <1>5

LEMMA FinInvStep ==
    ASSUME IInv, NEW u \in Uploads, FinAny(u)
    PROVE  NotTypeInv'
<1>1. UnmergedInv' /\ ReportLockInv' /\ CarryInv' /\ SavedInv'
  BY FinUnmergedStep, FinLockStep, FinCarryStep, FinSavedStep DEF IInv
<1>2. /\ UNCHANGED <<head, sent, notifyLock, trigger, counted>>
      /\ u \in Tasks /\ u \notin Requests
      /\ \A n \in Tasks \ {u} : notify'[n] = notify[n]
      /\ notify'[u] = notify[u] \/ notify'[u] = "queued"
  BY FinKeeps, SourcesAssumption DEF triggerVars, Tasks, IInv, TypeOK
<1>3. \A n \in Tasks : notify'[n] \in Running \cup Sending => notify'[n] = notify[n]
  BY <1>2 DEF Running, Sending
<1>4. NotifyLockInv'
  BY <1>2, <1>3 DEF NotifyLockInv, IInv
<1>5. SentInv'
  BY <1>2, <1>3, FinMonotone DEF SentInv, IInv
<1>6. CountedInv'
  BY <1>2, FinMonotone DEF CountedInv, IInv, Tasks
<1>7. ManualIsComplete'
  <2> SUFFICES ASSUME CarriedForward, NEW t \in Requests,
                      notify'[t] \in {"sending", "submitted"},
                      NEW v \in counted'[t] \cap good'
               PROVE  v \in head'[t] \/ FailedToMerge(v)'
    BY DEF ManualIsComplete
  <2>1. v \in counted[t] /\ notify[t] \in {"sending", "submitted"} /\ head'[t] = head[t]
    BY <1>2 DEF Tasks
  <2>2. v \in Arrived /\ v \in Uploads
    BY <2>1 DEF IInv, CountedInv, SavedInv, TypeOK
  <2>3. v \in good
    BY <2>2, FinMonotone
  <2> QED BY <2>1, <2>2, <2>3, FinMonotone DEF IInv, ManualIsComplete
<1> QED BY <1>1, <1>4, <1>5, <1>6, <1>7 DEF NotTypeInv

LEMMA RequestInvStep ==
    ASSUME IInv, NEW t \in Requests,
           Status(t) \/ RequestCompletion(t) \/ TriggerStep(t) \/ TriggerFault(t)
    PROVE  NotTypeInv'
<1>0. t \in Tasks /\ t \notin Uploads
  BY SourcesAssumption DEF Tasks
<1>1. UNCHANGED <<finVars, seen, head, notifyLock, sent>>
  BY DEF Status, RequestCompletion, TriggerStep, TriggerFault, OtherThanTrigger,
     AcquireTriggerLock, TriggerCount, TriggerNotifications, TriggerLockExpires,
     TriggerLockTimeout, TriggerDbError, TriggerError, TriggerKilled, TriggerLockOverrun
<1>2. FinInv'
  BY <1>1, FinInvUnchanged DEF FinInv, IInv
<1>3. /\ UNCHANGED notify \/ notify' = [notify EXCEPT ![t] = "queued"]
      /\ \/ UNCHANGED counted
         \/ /\ notify' = notify /\ notify[t] = "none"
            /\ \/ counted' = [counted EXCEPT ![t] = {}]
               \/ counted' = [counted EXCEPT ![t] = Arrived] /\ Arrived \subseteq settled
  BY DEF Status, RequestCompletion, TriggerStep, TriggerFault, OtherThanTrigger, Goto,
     AcquireTriggerLock, TriggerCount, TriggerNotifications, TriggerLockExpires,
     TriggerLockTimeout, TriggerDbError, TriggerError, TriggerKilled,
     TriggerLockOverrun, TriggerRetry, GiveUp, StillProcessing, triggerVars, IInv,
     CountedInv
<1>4. /\ \A r \in Requests \ {t} : trigger'[r] = trigger[r]
      /\ trigger'[t] \in {"queued", "locked", "counted"} => notify'[t] = "none"
  BY <1>0 DEF Status, RequestCompletion, TriggerStep, TriggerFault, OtherThanTrigger, Goto,
     AcquireTriggerLock, TriggerCount, TriggerNotifications, TriggerLockExpires,
     TriggerLockTimeout, TriggerDbError, TriggerError, TriggerKilled, TriggerGoto,
     TriggerLockOverrun, TriggerRetry, GiveUp, triggerVars, IInv, CountedInv, TypeOK
<1>5. \A n \in Tasks : notify'[n] \in Running \cup Sending => notify'[n] = notify[n]
  BY <1>0, <1>3 DEF Running, Sending, IInv, TypeOK
<1>6. NotifyLockInv' /\ SentInv'
  BY <1>1, <1>5 DEF NotifyLockInv, SentInv, IInv, finVars
<1>7. CountedInv'
  BY <1>0, <1>1, <1>3, <1>4 DEF CountedInv, IInv, TypeOK, finVars, Tasks
<1>8. ManualIsComplete'
  <2> SUFFICES ASSUME CarriedForward, NEW r \in Requests,
                      notify'[r] \in {"sending", "submitted"}
               PROVE  \A v \in counted[r] \cap good : v \in head[r] \/ FailedToMerge(v)
    <3>1. \A r \in Requests : notify'[r] \in {"sending", "submitted"} => counted'[r] = counted[r]
      BY <1>0, <1>3 DEF IInv, TypeOK
    <3> QED BY <1>1, <3>1 DEF ManualIsComplete, finVars, FailedToMerge
  <2>1. notify[r] \in {"sending", "submitted"}
    BY <1>5 DEF Sending, Tasks
  <2> QED BY <2>1 DEF IInv, ManualIsComplete
<1> QED BY <1>2, <1>6, <1>7, <1>8 DEF NotTypeInv, FinInv

LEMMA IInvStep == IInv /\ [Next]_vars => IInv'
<1> SUFFICES ASSUME IInv, [Next]_vars PROVE IInv'
  OBVIOUS
<1>1. TypeOK'
  BY TypeStep DEF IInv
<1>2. CASE CiFinishes \/ UNCHANGED vars
  <2>1. UNCHANGED <<finVars, notifyVars, triggerVars>>
    BY <1>2 DEF CiFinishes, vars
  <2>2. FinInv'
    BY <2>1, FinInvUnchanged DEF FinInv, IInv
  <2> QED BY <1>1, <2>1, <2>2 DEF finVars, notifyVars, triggerVars, IInv, FinInv,
     NotifyLockInv, SentInv, CountedInv, FailedToMerge, ManualIsComplete
<1>3. CASE Next /\ ~CiFinishes
  <2>1. NotTypeInv'
    BY <1>1, <1>3, NotifyInvStep, FinInvStep, RequestInvStep DEF Next, FinAny
  <2> QED BY <1>1, <2>1 DEF NotTypeInv, IInv
<1> QED BY <1>2, <1>3

-----------------------------------------------------------------------------
(* Who will notify.                                                        *)

LEMMA ReportCount == TypeOK => Cardinality(report) \in Nat
BY SourcesAssumption, FS_Subset, FS_CardinalityType DEF TypeOK

LEMMA InitPromise == Init => SeenInv /\ PromiseInv
BY DEF Init, SeenInv, PromiseInv, UpToDate, Sending, Tasks

(* A finisher that stops has committed its report, or is broken.           *)
LEMMA FinSeenStep ==
    ASSUME IInv, SeenInv, NEW u \in Uploads, FinAny(u)
    PROVE  SeenInv'
<1>1. /\ UNCHANGED <<seen, sent>> /\ u \in Tasks
      /\ \A n \in Tasks \ {u} : notify'[n] = notify[n]
      /\ notify'[u] = notify[u] \/ notify'[u] = "queued"
  BY FinKeeps DEF Tasks, IInv, TypeOK
<1>2. hasReport => hasReport'
  BY DEF FinAny, Arrive, FinStep, FinFault, LockExpiry, FinStart, AcquireReportLock,
     SaveReport, CommitDb, MarkUploadsAsMerged, ReleaseReportLock, CountUploads,
     AcquireFinisherLock, FinishReportsProcessing, ReleaseFinisherLock,
     ProcessingFails, ReportLockTimeout, FinisherLockTimeout, FinError, FinKilled,
     FinisherLockOverrun, ReportLockExpires, FinisherLockExpires
<1>3. \/ upload'[u] = "saved"
      \/ /\ UNCHANGED report
         /\ \A v \in Uploads \ {u} : upload'[v] = upload[v]
         /\ upload[u] \in {"saved", "failed", "dead"} =>
                hasReport' \/ upload'[u] \in {"saved", "failed", "dead"}
  <2> USE DEF IInv, TypeOK, Advance
  <2>1. CASE Arrive(u) \/ ProcessingFails(u) \/ ReportLockTimeout(u) \/ FinisherLockTimeout(u)
    BY <2>1 DEF Arrive, ProcessingFails, ReportLockTimeout, FinisherLockTimeout
  <2>2. CASE SaveReport(u)
    BY <2>2 DEF SaveReport
  <2>3. CASE FinStart(u) \/ AcquireReportLock(u) \/ CommitDb(u) \/ MarkUploadsAsMerged(u)
             \/ ReleaseReportLock(u)
    BY <2>3 DEF FinStart, AcquireReportLock, CommitDb, MarkUploadsAsMerged,
       ReleaseReportLock
  <2>4. CASE CountUploads(u) \/ AcquireFinisherLock(u) \/ FinishReportsProcessing(u)
             \/ ReleaseFinisherLock(u)
    BY <2>4 DEF CountUploads, AcquireFinisherLock, FinishReportsProcessing,
       ReleaseFinisherLock
  <2>5. CASE FinError(u) \/ FinKilled(u)
    BY <2>5 DEF FinError, FinKilled
  <2>6. CASE FinisherLockOverrun(u) \/ LockExpiry(u)
    BY <2>6 DEF FinisherLockOverrun, LockExpiry, ReportLockExpires, FinisherLockExpires
  <2> QED BY <2>1, <2>2, <2>3, <2>4, <2>5, <2>6 DEF FinAny, FinStep, FinFault
<1>4. \A n \in Tasks : notify'[n] \in Sending => notify[n] \in Sending
  BY <1>1 DEF Sending
<1>5. report' # {} /\ ~hasReport' =>
        \E v \in Uploads : upload'[v] \in {"saved", "failed", "dead"}
  BY <1>2, <1>3 DEF SeenInv
<1> QED BY <1>1, <1>2, <1>4, <1>5 DEF SeenInv

(* A finisher that is still running is busy; one that stops has seen       *)
(* another one that is, has sent a NotifyTask, or is broken.               *)
LEMMA FinPromiseStep ==
    ASSUME IInv, PromiseInv, NEW u \in Uploads, FinAny(u)
    PROVE  PromiseInv'
<1>1. ASSUME NEW s \in Undecided, upload' = [upload EXCEPT ![u] = s]
      PROVE  PromiseInv'
  BY <1>1 DEF PromiseInv, Busy, IInv, TypeOK
<1>2. ASSUME NEW s \in FinBroken, upload' = [upload EXCEPT ![u] = s]
      PROVE  PromiseInv'
  BY <1>2 DEF PromiseInv, Deserving, IInv, TypeOK
<1>3. {"uploaded", "waiting", "released", "elected", "posting"} \cup InReportLock
        \subseteq Undecided
  BY DEF Undecided, UploadStates, FinRunning, FinBroken, InReportLock
<1>4. CASE Arrive(u) \/ FinStart(u) \/ AcquireReportLock(u) \/ SaveReport(u)
           \/ CommitDb(u) \/ MarkUploadsAsMerged(u) \/ ReleaseReportLock(u)
           \/ AcquireFinisherLock(u)
  <2>1. \E s \in Undecided : upload' = [upload EXCEPT ![u] = s]
    BY <1>3, <1>4 DEF Arrive, FinStart, AcquireReportLock, SaveReport, CommitDb,
       MarkUploadsAsMerged, ReleaseReportLock, AcquireFinisherLock, Advance, InReportLock
  <2> QED BY <1>1, <2>1
<1>5. CASE ProcessingFails(u) \/ FinisherLockTimeout(u) \/ FinError(u) \/ FinKilled(u)
  <2>1. \E s \in FinBroken : upload' = [upload EXCEPT ![u] = s]
    BY <1>5 DEF ProcessingFails, FinisherLockTimeout, FinError, FinKilled, Advance,
       FinBroken
  <2> QED BY <1>2, <2>1
<1>6. CASE ReportLockTimeout(u)
  <2>1. \/ upload' = [upload EXCEPT ![u] = "uploaded"]
        \/ upload' = [upload EXCEPT ![u] = "failed"]
    BY <1>6 DEF ReportLockTimeout, Advance
  <2>2. "failed" \in FinBroken
    BY DEF FinBroken
  <2> QED BY <1>1, <1>2, <1>3, <2>1, <2>2
<1>7. CASE CountUploads(u)
  <2>1. CASE unmerged = {}
    <3>1. upload' = [upload EXCEPT ![u] = "elected"]
      BY <1>7, <2>1 DEF CountUploads, Advance
    <3> QED BY <1>1, <1>3, <3>1
  <2>2. CASE unmerged # {}
    <3>1. upload[u] = "released" /\ upload' = [upload EXCEPT ![u] = "done"]
      BY <1>7, <2>2 DEF CountUploads, Advance
    <3>2. PICK v \in unmerged : TRUE
      BY <2>2
    <3>3. v \in Uploads /\ upload[v] \in Unmerged \cup FinBroken /\ v # u
      BY <3>1, <3>2 DEF IInv, TypeOK, UnmergedInv, Unmerged, FinBroken
    <3>4. upload'[v] = upload[v]
      BY <3>1, <3>3 DEF IInv, TypeOK
    <3>5. CASE upload[v] \in Unmerged
      <4>1. upload'[v] \in Undecided
        BY <1>3, <3>4, <3>5 DEF Unmerged, InReportLock
      <4> QED BY <3>3, <4>1 DEF PromiseInv, Busy
    <3>6. CASE upload[v] \in FinBroken
      BY <3>3, <3>4, <3>6 DEF PromiseInv, Deserving
    <3> QED BY <3>3, <3>5, <3>6
  <2> QED BY <2>1, <2>2
<1>8. CASE FinishReportsProcessing(u)
  <2>1. /\ upload[u] = "posting" /\ upload' = [upload EXCEPT ![u] = "posted"]
        /\ UNCHANGED <<good, report>> /\ u \in Tasks
        /\ ShouldCallNotify(u) => notify' = [notify EXCEPT ![u] = "queued"]
    BY <1>8 DEF FinishReportsProcessing, Advance, Tasks
  <2>2. CASE ShouldCallNotify(u)
    <3>1. WillNotify(u)'
      BY <2>1, <2>2 DEF WillNotify, IInv, TypeOK
    <3> QED BY <2>1, <3>1 DEF PromiseInv, Pending
  <2>3. CASE ~ShouldCallNotify(u)
    <3>1. u \in Arrived'
      BY <2>1 DEF Arrived, IInv, TypeOK
    <3>2. ~Deserving'
      BY <2>1, <2>3, <3>1 DEF Deserving, ShouldCallNotify
    <3> QED BY <3>2 DEF PromiseInv
  <2> QED BY <2>2, <2>3
<1>9. CASE ReleaseFinisherLock(u)
  <2>1. /\ upload[u] = "posted" /\ upload' = [upload EXCEPT ![u] = "done"]
        /\ UNCHANGED <<good, report, hasReport, notify, seen, head, sent>>
    BY <1>9 DEF ReleaseFinisherLock, Advance, OtherThanFin, notifyVars
  <2>2. /\ Arrived' = Arrived
        /\ \A v \in Uploads : upload'[v] = upload[v] \/ v = u
        /\ upload[u] \notin FinBroken \cup Undecided
    BY <2>1 DEF Arrived, IInv, TypeOK, FinBroken, Undecided
  <2>3. Deserving' => Deserving
    BY <2>1, <2>2 DEF Deserving
  <2>4. Busy => Busy'
    BY <2>2 DEF Busy
  <2>5. UpToDate' = UpToDate /\ Pending' = Pending
    BY <2>1 DEF UpToDate, Pending, WillNotify
  <2> QED BY <2>3, <2>4, <2>5 DEF PromiseInv
<1>10. CASE FinisherLockOverrun(u) \/ LockExpiry(u)
  <2>1. UNCHANGED <<upload, good, report, hasReport, notify, seen, head, sent>>
    BY <1>10 DEF FinisherLockOverrun, LockExpiry, ReportLockExpires, FinisherLockExpires,
       OtherThanFin, notifyVars
  <2> QED BY <2>1 DEF PromiseInv, Deserving, Arrived, UpToDate, Busy, Pending, WillNotify
<1> QED BY <1>4, <1>5, <1>6, <1>7, <1>8, <1>9, <1>10 DEF FinAny, FinStep, FinFault

LEMMA NotifySeenStep ==
    ASSUME IInv, SeenInv, NEW n \in Tasks, NotifyStep(n) \/ NotifyFault(n)
    PROVE  SeenInv'
<1>0. UNCHANGED <<upload, report, hasReport>>
  BY DEF NotifyStep, NotifyFault, CheckUpcoming, AcquireNotifyLock, FetchCi,
     ReadHeadReport, Submit, ReleaseNotifyLock, NotifyLockExpires,
     NotifyLockTimeout, TestFailures, RateLimited, NoProvider, NotifyDbError,
     NotifyError, NotifyKilled, OtherThanNotify, finVars
<1>1. ASSUME NEW s, notify' = [notify EXCEPT ![n] = s],
             \A m \in Tasks \ {n} : seen'[m] = seen[m],
             seen'[n] => hasReport,
             s \in Sending => seen'[n],
             sent' = sent \/ hasReport
      PROVE  SeenInv'
  BY <1>0, <1>1 DEF SeenInv, IInv, TypeOK
<1>2. CASE LeavesLock(n)
  <2>1. PICK s \in {"queued"} \cup Ends : notify' = [notify EXCEPT ![n] = s]
    BY <1>2 DEF LeavesLock, Leave, Goto
  <2>2. seen' = [seen EXCEPT ![n] = FALSE] /\ sent' = sent
    BY <1>2 DEF LeavesLock, Leave, Forget
  <2>3. s \notin Sending
    BY DEF Sending, Ends
  <2> QED BY <1>1, <2>1, <2>2, <2>3 DEF IInv, TypeOK
<1>3. CASE \/ Moves(n, {"queued", "checked"} \cup Running, {"checked"} \cup Ends)
           \/ Moves(n, {"locked"}, {"ready"})
  <2>1. PICK s \in {"checked", "ready"} \cup Ends : notify' = [notify EXCEPT ![n] = s]
    BY <1>3 DEF Moves, Goto
  <2>2. (seen' = seen \/ seen' = [seen EXCEPT ![n] = FALSE]) /\ sent' = sent
    BY <1>3 DEF Moves, Forget
  <2>3. s \notin Sending
    BY DEF Sending, Ends
  <2> QED BY <1>1, <2>1, <2>2, <2>3 DEF IInv, TypeOK, SeenInv
<1>4. CASE AcquireNotifyLock(n)
  <2>1. /\ notify' = [notify EXCEPT ![n] = "locked"]
        /\ seen' = [seen EXCEPT ![n] = hasReport] /\ sent' = sent
    BY <1>4 DEF AcquireNotifyLock, Goto
  <2>2. "locked" \notin Sending
    BY DEF Sending
  <2> QED BY <1>1, <2>1, <2>2 DEF IInv, TypeOK
<1>5. CASE ReadsReport(n)
  <2>1. /\ notify' = [notify EXCEPT ![n] = "sending"] /\ seen[n]
        /\ UNCHANGED <<seen, sent>>
    BY <1>5 DEF ReadsReport, Goto
  <2> QED BY <1>1, <2>1 DEF SeenInv
<1>6. CASE Submit(n)
  <2>1. /\ notify[n] = "sending" /\ notify' = [notify EXCEPT ![n] = "submitted"]
        /\ UNCHANGED seen
    BY <1>6 DEF Submit, Goto
  <2>2. seen[n] /\ hasReport
    BY <2>1 DEF SeenInv, Sending
  <2> QED BY <1>1, <2>1, <2>2
<1>7. CASE NotifyLockExpires(n)
  BY <1>0, <1>7 DEF NotifyLockExpires, SeenInv
<1>8. CASE FetchCi(n)
  BY <1>2, <1>3, <1>8, FetchCiSteps DEF IInv
<1>9. CASE ReadHeadReport(n)
  BY <1>2, <1>5, <1>9, ReadHeadReportSteps
<1>10. CASE CheckUpcoming(n) \/ NotifyLockTimeout(n) \/ NotifyKilled(n)
  BY <1>3, <1>10, QueuedSteps
<1>11. CASE \/ TestFailures(n) \/ RateLimited(n) \/ NoProvider(n)
            \/ NotifyDbError(n) \/ NotifyError(n) \/ ReleaseNotifyLock(n)
  BY <1>2, <1>11, LeavesLockSteps DEF IInv
<1> QED BY <1>4, <1>6, <1>7, <1>8, <1>9, <1>10, <1>11 DEF NotifyStep, NotifyFault

(* A NotifyTask ends without notifying only when a finisher is busy, when  *)
(* there are too few builds or no report yet, or for a reason of its own.  *)
LEMMA NotifyPromiseStep ==
    ASSUME IInv, SeenInv, PromiseInv, NEW n \in Tasks, NotifyStep(n) \/ NotifyFault(n)
    PROVE  PromiseInv'
<1>0. UNCHANGED <<upload, good, report, hasReport>> /\ notify \in [Tasks -> TaskStates]
  BY DEF NotifyStep, NotifyFault, CheckUpcoming, AcquireNotifyLock, FetchCi,
     ReadHeadReport, Submit, ReleaseNotifyLock, NotifyLockExpires, NotifyLockTimeout,
     TestFailures, RateLimited, NoProvider, NotifyDbError, NotifyError, NotifyKilled,
     IInv, TypeOK, OtherThanNotify, finVars
<1>1. ASSUME notify' = [notify EXCEPT ![n] = "ended"] PROVE PromiseInv'
  BY <1>0, <1>1 DEF PromiseInv, Deserving
<1>2. ASSUME NEW s \in {"queued", "checked"}, notify' = [notify EXCEPT ![n] = s]
      PROVE  PromiseInv'
  <2>1. WillNotify(n)'
    BY <1>0, <1>2 DEF WillNotify
  <2> QED BY <2>1 DEF PromiseInv, Pending
(* n moves on, and who else feels responsible still does.                  *)
<1>3. ASSUME NEW s \in {"ready", "submitted", "notified", "few_builds"},
             notify' = [notify EXCEPT ![n] = s], notify[n] # "ended",
             \A m \in Tasks \ {n} : seen'[m] = seen[m] /\ head'[m] = head[m],
             WillNotify(n) => WillNotify(n)' \/ UpToDate',
             UpToDate => UpToDate'
      PROVE  PromiseInv'
  <2> SUFFICES ASSUME Deserving' PROVE (UpToDate \/ Busy \/ Pending)'
    BY DEF PromiseInv
  <2>1. Deserving
    <3>1. \A m \in Tasks : notify[m] # "ended"
      BY <1>0, <1>3 DEF Deserving
    <3> QED BY <1>0, <3>1 DEF Deserving, Arrived
  <2>2. CASE UpToDate
    BY <1>3, <2>2
  <2>3. CASE Busy
    BY <1>0, <2>3 DEF Busy
  <2>4. CASE Pending
    <3>1. PICK m \in Tasks : WillNotify(m)
      BY <2>4 DEF Pending
    <3>2. CASE m = n
      BY <1>3, <3>1, <3>2 DEF Pending
    <3>3. CASE m # n
      <4>1. notify'[m] = notify[m] /\ seen'[m] = seen[m] /\ head'[m] = head[m]
        BY <1>0, <1>3, <3>3
      <4>2. WillNotify(m)'
        BY <1>0, <3>1, <4>1 DEF WillNotify
      <4> QED BY <4>2 DEF Pending
    <3> QED BY <3>2, <3>3
  <2> QED BY <2>1, <2>2, <2>3, <2>4 DEF PromiseInv
<1>4. CASE NotifyLockTimeout(n) \/ TestFailures(n) \/ NoProvider(n)
           \/ NotifyError(n) \/ NotifyKilled(n)
  BY <1>1, <1>4 DEF NotifyLockTimeout, TestFailures, NoProvider, NotifyError,
     NotifyKilled, End, Leave, Goto
<1>5. ASSUME NEW limit, Retry(n, limit) PROVE PromiseInv'
  BY <1>1, <1>2, <1>5 DEF Retry, End, Leave, Goto
<1>6. CASE RateLimited(n) \/ NotifyDbError(n)
  BY <1>5, <1>6 DEF RateLimited, NotifyDbError
<1>7. CASE AcquireNotifyLock(n)
  <2>1. /\ notify' = [notify EXCEPT ![n] = "locked"]
        /\ seen' = [seen EXCEPT ![n] = hasReport]
    BY <1>7 DEF AcquireNotifyLock, Goto
  <2>2. WillNotify(n)'
    BY <1>0, <2>1 DEF WillNotify, IInv, TypeOK
  <2> QED BY <2>2 DEF PromiseInv, Pending
<1>8. CASE FetchCi(n)
  <2>1. CASE WaitForCi /\ ci = "pending"
    BY <1>5, <1>8, <2>1 DEF FetchCi
  <2>2. CASE ~(WaitForCi /\ ci = "pending")
    <3>1. /\ notify[n] = "locked" /\ notify' = [notify EXCEPT ![n] = "ready"]
          /\ UNCHANGED <<seen, head, sent>>
      BY <1>8, <2>2 DEF FetchCi, Goto
    <3>2. WillNotify(n) => WillNotify(n)'
      BY <1>0, <3>1 DEF WillNotify
    <3>3. UpToDate => UpToDate'
      BY <1>0, <3>1 DEF UpToDate
    <3> QED BY <1>3, <3>1, <3>2, <3>3
  <2> QED BY <2>1, <2>2
<1>9. CASE CheckUpcoming(n)
  <2>1. CASE reportLock # NoTask
    <3>1. PICK v \in Uploads : reportLock = v
      BY <2>1 DEF IInv, TypeOK
    <3>2. upload'[v] \in InReportLock \cup {"dead"}
      BY <1>0, <3>1 DEF IInv, ReportLockInv
    <3>3. CASE upload'[v] = "dead"
      BY <3>3 DEF PromiseInv, Deserving, FinBroken
    <3>4. CASE upload'[v] \in InReportLock
      <4>1. upload'[v] \in Undecided
        BY <3>4 DEF InReportLock, Undecided, UploadStates, FinRunning, FinBroken
      <4> QED BY <4>1 DEF PromiseInv, Busy
    <3> QED BY <3>2, <3>3, <3>4
  <2>2. CASE reportLock = NoTask
    BY <1>2, <1>9, <2>2 DEF CheckUpcoming, Goto
  <2> QED BY <2>1, <2>2
<1>10. CASE ReadHeadReport(n)
  <2>0. notify[n] = "ready" /\ UNCHANGED sent
    BY <1>10 DEF ReadHeadReport
  <2>1. CASE End(n, "ended")
    BY <1>1, <2>1 DEF End, Leave, Goto
  <2>2. CASE ReadsReport(n)
    <3>1. WillNotify(n)'
      BY <1>0, <2>2 DEF ReadsReport, Goto, WillNotify, IInv, TypeOK
    <3> QED BY <3>1 DEF PromiseInv, Pending
  <2>3. CASE FewBuilds(n) /\ seen[n]
    <3>1. ~Deserving'
      BY <1>0, <2>3, ReportCount, LimitsAssumption DEF FewBuilds, HeadReport, Deserving, IInv
    <3> QED BY <3>1 DEF PromiseInv
  <2>4. CASE ~seen[n] /\ End(n, "few_builds")
    <3>0. /\ notify' = [notify EXCEPT ![n] = "few_builds"]
          /\ seen' = [seen EXCEPT ![n] = FALSE] /\ head' = [head EXCEPT ![n] = {}]
      BY <2>4 DEF End, Leave, Goto, Forget
    <3>1. CASE hasReport
      <4>1. ~WillNotify(n)
        BY <2>0, <2>4, <3>1 DEF WillNotify
      <4>2. UpToDate => UpToDate'
        BY <1>0, <2>0, <3>0 DEF UpToDate
      <4>3. \A m \in Tasks \ {n} : seen'[m] = seen[m] /\ head'[m] = head[m]
        BY <3>0 DEF IInv, TypeOK
      <4> QED BY <1>3, <2>0, <3>0, <4>1, <4>2, <4>3
    <3>2. CASE ~hasReport /\ report = {}
      <4>1. sent' = report' /\ \A m \in Tasks : notify[m] # "sending"
        BY <1>0, <2>0, <3>2 DEF SeenInv, Sending
      <4>2. UpToDate'
        BY <1>0, <3>0, <4>1 DEF UpToDate
      <4> QED BY <4>2 DEF PromiseInv
    <3>3. CASE ~hasReport /\ report # {}
      <4>1. PICK v \in Uploads : upload'[v] \in {"saved", "failed", "dead"}
        BY <1>0, <3>3 DEF SeenInv
      <4>2. CASE upload'[v] = "saved"
        <5>1. upload'[v] \in Undecided
          BY <4>2 DEF InReportLock, Undecided, UploadStates, FinRunning, FinBroken
        <5> QED BY <5>1 DEF PromiseInv, Busy
      <4>3. CASE upload'[v] \in {"failed", "dead"}
        BY <4>3 DEF PromiseInv, Deserving, FinBroken
      <4> QED BY <4>1, <4>2, <4>3
    <3> QED BY <3>1, <3>2, <3>3
  <2> QED BY <1>10, <2>1, <2>2, <2>3, <2>4 DEF ReadHeadReport, ReadsReport, HeadReport
<1>11. CASE Submit(n)
  <2>1. /\ notify[n] = "sending" /\ sent' = head[n] /\ UNCHANGED <<seen, head>>
        /\ notify' = [notify EXCEPT ![n] = "submitted"]
    BY <1>11 DEF Submit, Goto
  <2>2. \A m \in Tasks : notify'[m] # "sending"
    <3>1. \A m \in Tasks \ {n} : notify[m] \notin Running
      BY <2>1 DEF IInv, NotifyLockInv, Running
    <3> QED BY <1>0, <2>1, <3>1 DEF Running
  <2>3. WillNotify(n) => UpToDate'
    BY <1>0, <2>1, <2>2 DEF WillNotify, UpToDate
  <2>4. ~UpToDate
    BY <2>1 DEF UpToDate
  <2> QED BY <1>3, <2>1, <2>3, <2>4
<1>12. CASE ReleaseNotifyLock(n)
  <2>1. /\ notify[n] = "submitted" /\ UNCHANGED sent
        /\ notify' = [notify EXCEPT ![n] = "notified"]
        /\ \A m \in Tasks \ {n} : seen'[m] = seen[m] /\ head'[m] = head[m]
    BY <1>12 DEF ReleaseNotifyLock, End, Leave, Goto, Forget, IInv, TypeOK
  <2>2. ~WillNotify(n)
    BY <2>1 DEF WillNotify
  <2>3. UpToDate => UpToDate'
    BY <1>0, <2>1 DEF UpToDate
  <2> QED BY <1>3, <2>1, <2>2, <2>3
<1>13. CASE NotifyLockExpires(n)
  BY <1>0, <1>13 DEF NotifyLockExpires, PromiseInv, Deserving, Arrived, UpToDate, Busy,
     Pending, WillNotify
<1> QED BY <1>4, <1>6, <1>7, <1>8, <1>9, <1>10, <1>11, <1>12, <1>13
        DEF NotifyStep, NotifyFault

LEMMA PromiseStep ==
    IInv /\ SeenInv /\ PromiseInv /\ [Next]_vars => (SeenInv /\ PromiseInv)'
<1> SUFFICES ASSUME IInv, SeenInv, PromiseInv, [Next]_vars PROVE (SeenInv /\ PromiseInv)'
  OBVIOUS
<1>1. CASE UNCHANGED <<upload, good, report, hasReport, notify, seen, head, sent>>
  BY <1>1 DEF SeenInv, PromiseInv, Deserving, Arrived, UpToDate, Busy, Pending, WillNotify
<1>2. ASSUME NEW t \in Requests, Status(t) \/ TriggerNotifications(t)
      PROVE  (SeenInv /\ PromiseInv)'
  <2>1. /\ t \in Tasks /\ notify' = [notify EXCEPT ![t] = "queued"]
        /\ UNCHANGED <<upload, report, hasReport, seen, sent>>
        /\ notify \in [Tasks -> TaskStates]
    BY <1>2 DEF Status, TriggerNotifications, Goto, OtherThanTrigger, finVars, Tasks,
       IInv, TypeOK
  <2>2. SeenInv'
    BY <2>1 DEF SeenInv, Sending
  <2>3. WillNotify(t)'
    BY <2>1 DEF WillNotify
  <2> QED BY <2>1, <2>2, <2>3 DEF PromiseInv, Pending
<1>3. ASSUME NEW t \in Requests, RequestCompletion(t) \/ TriggerStep(t) \/ TriggerFault(t),
             ~TriggerNotifications(t)
      PROVE  UNCHANGED <<upload, good, report, hasReport, notify, seen, head, sent>>
  BY <1>3 DEF RequestCompletion, TriggerStep, TriggerFault, OtherThanTrigger, finVars,
     AcquireTriggerLock, TriggerCount, TriggerLockExpires, TriggerLockTimeout,
     TriggerDbError, TriggerError, TriggerKilled, TriggerLockOverrun
<1>4. CASE CiFinishes \/ UNCHANGED vars
  BY <1>1, <1>4 DEF CiFinishes, vars, finVars, notifyVars
<1> QED BY <1>1, <1>2, <1>3, <1>4, FinSeenStep, FinPromiseStep, NotifySeenStep,
           NotifyPromiseStep DEF Next, FinAny

-----------------------------------------------------------------------------
(* Theorems.                                                               *)

(* The invariant: the locks, what the provider shows, the stored report,   *)
(* the committed rows and the counts of manual triggers agree in every     *)
(* reachable state, after any failures and deaths.                         *)
THEOREM NotifyInvariant == Spec => []IInv
BY InitIInv, IInvStep, PTL DEF Spec

(* Types, and the retry budget that CI, rate limits and database errors    *)
(* share, for every limit of each.                                         *)
THEOREM NotifyTypeCorrect == Spec => []TypeOK
<1>1. IInv => TypeOK
  BY DEF IInv
<1> QED BY <1>1, NotifyInvariant, PTL

(* A manually triggered notification about a carried-forward commit has all*)
(* uploads its trigger counted but those that failed to merge, for any     *)
(* number of uploads, triggers, other notifications and faults.            *)
THEOREM ManualIsCompleteHolds == Spec => []ManualIsComplete
<1>1. IInv => ManualIsComplete
  BY DEF IInv
<1> QED BY <1>1, NotifyInvariant, PTL

(* No notification shows an older report than one before it, however many  *)
(* NotifyTasks and finishers run, fail, are retried or die.                *)
THEOREM NotificationsNeverRegressHolds == Spec => NotificationsNeverRegress
<1>1. IInv /\ [Next]_vars => [CarriedForward => sent \subseteq sent']_vars
  <2> SUFFICES ASSUME IInv, Next, CarriedForward PROVE sent \subseteq sent'
    OBVIOUS
  <2>1. ASSUME NEW n \in Tasks, Submit(n) PROVE sent \subseteq sent'
    BY <2>1 DEF Submit, IInv, SentInv, Sending
  <2>2. ASSUME NEW n \in Tasks, NotifyStep(n) \/ NotifyFault(n), ~Submit(n)
        PROVE  UNCHANGED sent
    BY <2>2 DEF NotifyStep, NotifyFault, CheckUpcoming, AcquireNotifyLock, FetchCi,
       ReadHeadReport, ReleaseNotifyLock, NotifyLockExpires, NotifyLockTimeout,
       TestFailures, RateLimited, NoProvider, NotifyDbError, NotifyError, NotifyKilled
  <2>3. ASSUME NEW u \in Uploads, FinAny(u) PROVE UNCHANGED sent
    BY <2>3, FinKeeps
  <2>4. ASSUME NEW t \in Requests,
               Status(t) \/ RequestCompletion(t) \/ TriggerStep(t) \/ TriggerFault(t)
        PROVE  UNCHANGED sent
    BY <2>4 DEF Status, RequestCompletion, TriggerStep, TriggerFault, OtherThanTrigger,
       AcquireTriggerLock, TriggerCount, TriggerNotifications, TriggerLockExpires,
       TriggerLockTimeout, TriggerDbError, TriggerError, TriggerKilled, TriggerLockOverrun
  <2>5. CASE CiFinishes
    BY <2>5 DEF CiFinishes, notifyVars
  <2> QED BY <2>1, <2>2, <2>3, <2>4, <2>5 DEF Next, FinAny
<1>2. []IInv /\ [][Next]_vars => [][CarriedForward => sent \subseteq sent']_vars
  BY <1>1, PTL
<1> QED BY <1>2, NotifyInvariant, PTL DEF Spec, NotificationsNeverRegress

(* Unless something broke, somebody is responsible for the final report    *)
(* until it is notified: no interleaving of finishers, CI, webhooks,       *)
(* retries and locks lets all of them leave it to one another.             *)
THEOREM CompleteIsNotifiedHolds == Spec => []CompleteIsNotified
<1>1. Init => IInv /\ SeenInv /\ PromiseInv
  BY InitIInv, InitPromise
<1>2. (IInv /\ SeenInv /\ PromiseInv) /\ [Next]_vars
        => (IInv /\ SeenInv /\ PromiseInv)'
  BY IInvStep, PromiseStep
<1>3. IInv /\ SeenInv /\ PromiseInv => CompleteIsNotified
  <2> SUFFICES ASSUME IInv, PromiseInv, Quiet, Arrived \subseteq good, ~ManualTrigger,
                      \A n \in Tasks : notify[n] \in
                            {"none", "notified", "upcoming", "few_builds"},
                      Cardinality(report) >= AfterNBuilds
               PROVE  sent = report
    BY DEF CompleteIsNotified
  <2>1. Deserving
    BY ReportCount, LimitsAssumption DEF Deserving, IInv, Quiet, FinBroken
  <2>2. ~Busy /\ ~Pending
    BY DEF Quiet, Busy, Pending, WillNotify, Undecided
  <2> QED BY <2>1, <2>2 DEF PromiseInv, UpToDate
<1> QED BY <1>1, <1>2, <1>3, PTL DEF Spec

=============================================================================
