---------------------------- MODULE TestResults -----------------------------
(***************************************************************************)
(* Test results of ONE repository, and the flakes found in them:           *)
(*                                                                         *)
(*   apps/worker/tasks/test_results_processor.py  TestResultsProcessorTask *)
(*   apps/worker/tasks/test_results_finisher.py   TestResultsFinisherTask  *)
(*   apps/worker/tasks/sync_pull.py               update_pull_commits      *)
(*   apps/worker/tasks/process_flakes.py          ProcessFlakesTask        *)
(*   apps/worker/services/processing/flake_processing.py                   *)
(*                                                                         *)
(* (impl_type "old", the default.)  A chain of a processor and a finisher  *)
(* runs for every upload.  The finisher of a commit on the default branch  *)
(* pushes the commit to a redis list and sends a ProcessFlakesTask; one of *)
(* these at a time drains the list, and counts every upload of each commit *)
(* that is in state "processed".  The uploads hold runs of ONE test.       *)
(***************************************************************************)
EXTENDS Integers, Sequences, FiniteSets, SequencesExt, FiniteSetsExt

CONSTANTS
    Uploads,     \* the test result uploads
    Commits,     \* the commits
    CommitOf,    \* CommitOf[u]: the commit of upload u
    Workers,     \* worker processes that run ProcessFlakesTasks
    PopCount,    \* how many commits one lpop takes (10)
    Expiry,      \* FLAKE_EXPIRY_COUNT (30)
    LockRetries, \* max_retries of the finisher for its lock (5)
    DbRetries,   \* celery's default max_retries, for database errors
    Events,      \* which of AllEvents may happen in this instance
    MaxFaults,   \* bound on the errors and deaths of workers
    NoWorker     \* "holder" of a free lock

AllEvents == {
    "parse",         \* a file cannot be parsed
    "db",            \* a SQLAlchemyError
    "error",         \* another exception, or the soft time limit
    "lock_timeout",  \* blocking_timeout passes while a lock is held
    "kill"}          \* the worker dies

ASSUME SourcesAssumption ==
    /\ CommitOf \in [Uploads -> Commits]
    /\ IsFiniteSet(Uploads)
    /\ NoWorker \notin Workers
ASSUME LimitsAssumption ==
    /\ PopCount \in Nat \ {0} /\ Expiry \in Nat \ {0}
    /\ LockRetries \in Nat /\ DbRetries \in Nat
    /\ MaxFaults \in Nat
    /\ Events \subseteq AllEvents

VARIABLES
    state,      \* state[u]: Upload.state, as committed
    outcome,    \* outcome[u]: of the run of the test in upload u
    stored,     \* stored[u]: how many TestInstances of u are stored
    proc,       \* proc[u]: where the processor is
    procTries,  \* procTries[u]: its request.retries
    fin,        \* fin[u]: where the finisher is
    finTries,   \* finTries[u]: its request.retries
    merged,     \* commits that are merged, or on the default branch
    list,       \* redis list flake_uploads_list
    messages,   \* ProcessFlakesTasks that were sent and are not in the lock
    flake,      \* flake[w]: where the ProcessFlakesTask of worker w is
    todo,       \* todo[w]: commits that it has popped
    snap,       \* snap[w]: uploads that its transaction has read
    flakeLock,  \* holder of flake_lock
    rows,       \* the Flake rows of the test, oldest first
    due,        \* history: uploads whose commit was pushed after they were
                \* set to "processed"
    broken,     \* history: a task stopped between taking and doing its work
    faults      \* errors and deaths of workers so far

procVars  == <<state, outcome, stored, proc, procTries>>
finVars   == <<fin, finTries, merged>>
flakeVars == <<flake, todo, snap, flakeLock, rows>>
vars == <<procVars, finVars, list, messages, flakeVars, due, broken,
          faults>>

InProc == {"queued", "saved", "committed"}

Init ==
    /\ state = [u \in Uploads |-> "none"]
    /\ outcome = [u \in Uploads |-> "pass"]
    /\ stored = [u \in Uploads |-> 0]
    /\ proc = [u \in Uploads |-> "none"]
    /\ procTries = [u \in Uploads |-> 0]
    /\ fin = [u \in Uploads |-> "none"]
    /\ finTries = [u \in Uploads |-> 0]
    /\ merged \in SUBSET Commits
    /\ list = <<>>
    /\ messages = 0
    /\ flake = [w \in Workers |-> "idle"]
    /\ todo = [w \in Workers |-> <<>>]
    /\ snap = [w \in Workers |-> {}]
    /\ flakeLock = NoWorker
    /\ rows = <<>>
    /\ due = {}
    /\ broken = FALSE
    /\ faults = 0

-----------------------------------------------------------------------------
(* TestResultsProcessorTask.                                               *)

ProcGoto(u, s) == proc' = [proc EXCEPT ![u] = s]

AfterProc == <<list, messages, flakeVars, broken>>

(* The chain of the upload is sent.                                        *)
ScheduleProcessing(u) ==
    /\ proc[u] = "none"
    /\ ProcGoto(u, "queued")
    /\ state' = [state EXCEPT ![u] = "uploaded"]
    /\ \E o \in {"pass", "fail"} : outcome' = [outcome EXCEPT ![u] = o]
    /\ UNCHANGED <<stored, procTries, finVars, AfterProc, due>>

(* The processor ends without an exception: celery goes on with the chain. *)
EndProc(u) ==
    /\ ProcGoto(u, "done")
    /\ fin' = [fin EXCEPT ![u] = "queued"]

(* process_individual_upload of an upload that was processed before.       *)
SkipProcessed(u) ==
    /\ proc[u] = "queued"
    /\ state[u] \in {"processed", "has_failed"}
    /\ EndProc(u)
    /\ UNCHANGED <<state, outcome, stored, procTries, finTries, merged,
                   AfterProc, due>>

ParseError(u) ==
    /\ "parse" \in Events
    /\ proc[u] = "queued" /\ state[u] \notin {"processed", "has_failed"}
    /\ state' = [state EXCEPT ![u] = "has_failed"]
    /\ EndProc(u)
    /\ UNCHANGED <<outcome, stored, procTries, finTries, merged, AfterProc, due>>

(* _bulk_write_tests_to_db commits before the state of the upload is set.  *)
SaveTestInstances(u) ==
    /\ proc[u] = "queued" /\ state[u] \notin {"processed", "has_failed"}
    /\ stored' = [stored EXCEPT ![u] = @ + 1]
    /\ ProcGoto(u, "saved")
    /\ UNCHANGED <<state, outcome, procTries, finVars, AfterProc, due>>

CommitProcessed(u) ==
    /\ proc[u] = "saved"
    /\ state' = [state EXCEPT ![u] = "processed"]
    /\ due' = due \ {u}
    /\ ProcGoto(u, "committed")
    /\ UNCHANGED <<outcome, stored, procTries, finVars, AfterProc>>

RewriteArchive(u) ==
    /\ proc[u] = "committed"
    /\ EndProc(u)
    /\ UNCHANGED <<state, outcome, stored, procTries, finTries, merged,
                   AfterProc, due>>

(* Retried from the start; after the last retry the chain goes on.         *)
ProcDbError(u) ==
    /\ "db" \in Events
    /\ proc[u] \in InProc
    /\ IF procTries[u] < DbRetries
       THEN /\ ProcGoto(u, "queued")
            /\ procTries' = [procTries EXCEPT ![u] = @ + 1]
            /\ UNCHANGED fin
       ELSE EndProc(u) /\ UNCHANGED procTries
    /\ UNCHANGED <<state, outcome, stored, finTries, merged, AfterProc, due>>

(* The chain stops.                                                        *)
ProcError(u) ==
    /\ "error" \in Events
    /\ proc[u] \in InProc
    /\ ProcGoto(u, "failed")
    /\ UNCHANGED <<state, outcome, stored, procTries, finVars, AfterProc, due>>

-----------------------------------------------------------------------------
(* TestResultsFinisherTask.optional_tasks, and what else sends the task.   *)

OtherThanFin == <<procVars, merged, flakeVars>>

(* commit.merged is True or commit.branch == repo.branch                   *)
DoesFlakeDetection(c) == c \in merged

PushCommit(u) ==
    /\ fin[u] = "queued"
    /\ fin' = [fin EXCEPT ![u] =
                IF DoesFlakeDetection(CommitOf[u]) THEN "pushed" ELSE "done"]
    /\ IF DoesFlakeDetection(CommitOf[u])
       THEN /\ list' = <<CommitOf[u]>> \o list
            /\ due' = due \cup {v \in Uploads :
                        CommitOf[v] = CommitOf[u] /\ state[v] = "processed"}
       ELSE UNCHANGED <<list, due>>
    /\ UNCHANGED <<OtherThanFin, finTries, messages, broken>>

(* What follows (totals, comment, NotifyTask) may still raise an error.    *)
SendProcessFlakes(u) ==
    /\ fin[u] = "pushed"
    /\ messages' = messages + 1
    /\ fin' = [fin EXCEPT ![u] = "sent"]
    /\ UNCHANGED <<OtherThanFin, finTries, list, due, broken>>

EndFin(u) ==
    /\ fin' = [fin EXCEPT ![u] = "done"]
    /\ finTries' = [finTries EXCEPT ![u] = 0]

(* Mutant: one retry too many.                                             *)
MutantRetryOnceMore(u) ==
    /\ "lock_timeout" \in Events
    /\ fin[u] = "queued"
    /\ IF finTries[u] <= LockRetries
       THEN finTries' = [finTries EXCEPT ![u] = @ + 1] /\ UNCHANGED fin
       ELSE EndFin(u)
    /\ UNCHANGED <<OtherThanFin, list, messages, due, broken>>

(* LockRetry: another finisher, or a NotifyTask, has the notification lock.*)
FinLockTimeout(u) ==
    /\ "lock_timeout" \in Events
    /\ fin[u] = "queued"
    /\ IF finTries[u] < LockRetries
       THEN finTries' = [finTries EXCEPT ![u] = @ + 1] /\ UNCHANGED fin
       ELSE EndFin(u)
    /\ UNCHANGED <<OtherThanFin, list, messages, due, broken>>

(* Sending a task reads the database too.                                  *)
FinDbError(u) ==
    /\ "db" \in Events
    /\ fin[u] \in {"queued", "pushed", "sent"}
    /\ IF finTries[u] < DbRetries
       THEN /\ finTries' = [finTries EXCEPT ![u] = @ + 1]
            /\ fin' = [fin EXCEPT ![u] = "queued"]
       ELSE EndFin(u)
    /\ broken' = (broken \/ fin[u] = "pushed")
    /\ UNCHANGED <<OtherThanFin, list, messages, due>>

FinError(u) ==
    /\ "error" \in Events
    /\ fin[u] \in {"queued", "pushed", "sent"}
    /\ EndFin(u)
    /\ broken' = (broken \/ fin[u] = "pushed")
    /\ UNCHANGED <<OtherThanFin, list, messages, due>>

(* sync_pull, update_pull_commits and trigger_process_flakes: it sets the  *)
(* key flake_uploads, which nothing reads, and pushes no commit.           *)
MergePull(c) ==
    /\ c \notin merged
    /\ merged' = merged \cup {c}
    /\ messages' = messages + 1
    /\ UNCHANGED <<procVars, fin, finTries, list, flakeVars, due, broken>>

-----------------------------------------------------------------------------
(* Flake rows.                                                             *)

NewFlake == [open |-> TRUE, count |-> 1, fails |-> 1, recent |-> 0]

(* Mutant: the comparison misses the count at which a flake expires.       *)
MutantExpireLate(f, o) ==
    IF o = "fail"
    THEN [f EXCEPT !.count = @ + 1, !.fails = @ + 1, !.recent = 0]
    ELSE [f EXCEPT !.count = @ + 1, !.recent = @ + 1,
                   !.open = f.open /\ f.recent # Expiry]

(* update_flake; end_date is never taken back.                             *)
UpdateFlake(f, o) ==
    IF o = "fail"
    THEN [f EXCEPT !.count = @ + 1, !.fails = @ + 1, !.recent = 0]
    ELSE [f EXCEPT !.count = @ + 1, !.recent = @ + 1,
                   !.open = f.open /\ f.recent + 1 # Expiry]

OpenRows(rs) == {i \in DOMAIN rs : rs[i].open}

(* curr_flakes: the row of the test that a transaction works on, or 0.     *)
CurrFlake(rs) == IF OpenRows(rs) = {} THEN 0 ELSE Max(OpenRows(rs))

(* One TestInstance; t is what the transaction has in hand.                *)
ProcessInstance(t, o) ==
    IF t.curr # 0
    THEN [t EXCEPT !.rows[t.curr] = UpdateFlake(@, o)]
    ELSE IF o = "fail"
    THEN [rows |-> Append(t.rows, NewFlake), curr |-> Len(t.rows) + 1]
    ELSE t

(* get_test_instances: passes only of tests that were flaky when the       *)
(* transaction began.                                                      *)
TestInstances(u, flaky) ==
    IF outcome[u] = "fail" \/ flaky
    THEN [i \in 1 .. stored[u] |-> outcome[u]] ELSE <<>>

(* The inner loop of process_flake_in_transaction: the TestInstances of an *)
(* upload, one after the other.                                            *)
ProcessUpload(t, u, flaky) ==
    LET runs == TestInstances(u, flaky)
        after[i \in 0 .. Len(runs)] ==
            IF i = 0 THEN t ELSE ProcessInstance(after[i - 1], runs[i])
    IN  after[Len(runs)]

(* process_flake_in_transaction, of the uploads in the order of the query. *)
ProcessUploads(order) ==
    LET curr == CurrFlake(rows)
        after[i \in 0 .. Len(order)] ==
            IF i = 0 THEN [rows |-> rows, curr |-> curr]
            ELSE ProcessUpload(after[i - 1], order[i], curr # 0)
    IN  after[Len(order)].rows

-----------------------------------------------------------------------------
(* ProcessFlakesTask.                                                      *)

OtherThanFlake == <<outcome, stored, proc, procTries, finVars, due>>

FlakeGoto(w, s) == flake' = [flake EXCEPT ![w] = s]

(* Mutant: the lock excludes nobody.                                       *)
MutantLockNotExclusive(w) ==
    /\ flake[w] = "idle" /\ messages > 0
    /\ messages' = messages - 1
    /\ flakeLock' = w
    /\ FlakeGoto(w, "popping")
    /\ UNCHANGED <<OtherThanFlake, state, list, todo, snap, rows, broken>>

(* A task that waits for the lock, in the queue or in a worker, is no more *)
(* than a message.                                                         *)
AcquireFlakeLock(w) ==
    /\ flake[w] = "idle" /\ messages > 0
    /\ messages' = messages - 1
    /\ flakeLock = NoWorker
    /\ flakeLock' = w
    /\ FlakeGoto(w, "popping")
    /\ UNCHANGED <<OtherThanFlake, state, list, todo, snap, rows, broken>>

(* LockError: the task ends.  It has waited for 3 seconds, ages compared   *)
(* with the time from the holder's last lpop to the release, so it was sent*)
(* before that lpop.                                                       *)
FlakeLockTimeout(w) ==
    /\ "lock_timeout" \in Events
    /\ flake[w] = "idle" /\ messages > 0
    /\ flakeLock # NoWorker /\ flake[flakeLock] # "drained"
    /\ messages' = messages - 1
    /\ UNCHANGED <<OtherThanFlake, state, list, flakeVars, broken>>

(* get_redis_val: one lpop, of up to PopCount commits.                     *)
PopCommits(w) ==
    /\ flake[w] = "popping"
    /\ IF list = <<>>
       THEN FlakeGoto(w, "drained") /\ UNCHANGED <<list, todo>>
       ELSE LET n == Min({PopCount, Len(list)})
            IN  /\ todo' = [todo EXCEPT ![w] = SubSeq(list, 1, n)]
                /\ list' = SubSeq(list, n + 1, Len(list))
                /\ FlakeGoto(w, "processing")
    /\ UNCHANGED <<OtherThanFlake, state, messages, snap, flakeLock, rows, broken>>

(* The transaction of the next commit reads its uploads ...                *)
BeginTransaction(w) ==
    /\ flake[w] = "processing"
    /\ snap' = [snap EXCEPT ![w] = {u \in Uploads :
                    CommitOf[u] = Head(todo[w]) /\ state[u] = "processed"}]
    /\ FlakeGoto(w, "reading")
    /\ UNCHANGED <<OtherThanFlake, state, list, messages, todo, flakeLock, rows,
                   broken>>

(* Mutant: less than PopCount commits were popped, so the list is empty.   *)
MutantStopAfterShortBatch(w) ==
    /\ flake[w] = "reading"
    /\ \E order \in SetToSeqs(snap[w]) : rows' = ProcessUploads(order)
    /\ state' = [u \in Uploads |->
                    IF u \in snap[w] THEN "flake_processed" ELSE state[u]]
    /\ todo' = [todo EXCEPT ![w] = Tail(@)]
    /\ snap' = [snap EXCEPT ![w] = {}]
    /\ FlakeGoto(w, IF Len(todo[w]) = 1 THEN "drained" ELSE "processing")
    /\ UNCHANGED <<OtherThanFlake, list, messages, flakeLock, broken>>

(* ... and writes flakes and uploads.                                      *)
CommitTransaction(w) ==
    /\ flake[w] = "reading"
    /\ \E order \in SetToSeqs(snap[w]) : rows' = ProcessUploads(order)
    /\ state' = [u \in Uploads |->
                    IF u \in snap[w] THEN "flake_processed" ELSE state[u]]
    /\ todo' = [todo EXCEPT ![w] = Tail(@)]
    /\ snap' = [snap EXCEPT ![w] = {}]
    /\ FlakeGoto(w, IF Len(todo[w]) = 1 THEN "popping" ELSE "processing")
    /\ UNCHANGED <<OtherThanFlake, list, messages, flakeLock, broken>>

ReleaseFlakeLock(w) ==
    /\ flake[w] = "drained"
    /\ flakeLock' = NoWorker
    /\ FlakeGoto(w, "idle")
    /\ UNCHANGED <<OtherThanFlake, state, list, messages, todo, snap, rows, broken>>

(* The transaction is rolled back; the commits that were popped are gone.  *)
FlakeError(w) ==
    /\ "error" \in Events
    /\ flake[w] \in {"popping", "processing", "reading"}
    /\ FlakeGoto(w, "idle")
    /\ flakeLock' = NoWorker
    /\ todo' = [todo EXCEPT ![w] = <<>>]
    /\ snap' = [snap EXCEPT ![w] = {}]
    /\ broken' = TRUE
    /\ UNCHANGED <<OtherThanFlake, state, list, messages, rows>>

FlakeKilled(w) ==
    /\ "kill" \in Events
    /\ flake[w] \in {"popping", "processing", "reading", "drained"}
    /\ FlakeGoto(w, "dead")
    /\ todo' = [todo EXCEPT ![w] = <<>>]
    /\ snap' = [snap EXCEPT ![w] = {}]
    /\ broken' = TRUE
    /\ UNCHANGED <<OtherThanFlake, state, list, messages, flakeLock, rows>>

(* Mutant: the lock of a dead worker stays.                                *)
MutantLockNeverExpires(w) ==
    /\ flake[w] = "dead"
    /\ FlakeGoto(w, "idle")
    /\ UNCHANGED <<OtherThanFlake, state, list, messages, todo, snap, flakeLock,
                   rows, broken>>

(* The timeout of the lock, not shorter than the hard time limit; the      *)
(* worker process has been replaced.                                       *)
FlakeLockExpires(w) ==
    /\ flake[w] = "dead"
    /\ flakeLock' = NoWorker
    /\ FlakeGoto(w, "idle")
    /\ UNCHANGED <<OtherThanFlake, state, list, messages, todo, snap, rows, broken>>

-----------------------------------------------------------------------------
(* A step that is not a fault.                                             *)
NoFault == UNCHANGED faults

(* A fault, while there may be more of them.                               *)
Fault == faults < MaxFaults /\ faults' = faults + 1

ProcStep(u) ==
    /\ NoFault
    /\ \/ SkipProcessed(u) \/ SaveTestInstances(u) \/ CommitProcessed(u)
       \/ RewriteArchive(u)

FinStep(u) ==
    /\ NoFault
    /\ PushCommit(u) \/ SendProcessFlakes(u)

FlakeStep(w) ==
    /\ NoFault
    /\ \/ AcquireFlakeLock(w) \/ PopCommits(w)
       \/ BeginTransaction(w) \/ CommitTransaction(w) \/ ReleaseFlakeLock(w)
       \/ FlakeLockExpires(w)

(* Uploads, merges, unreadable files, and locks that are not free in time. *)
Environment ==
    /\ NoFault
    /\ \/ \E u \in Uploads :
            ScheduleProcessing(u) \/ ParseError(u) \/ FinLockTimeout(u)
       \/ \E c \in Commits : MergePull(c)
       \/ \E w \in Workers : FlakeLockTimeout(w)

Failure ==
    /\ Fault
    /\ \/ \E u \in Uploads :
            ProcDbError(u) \/ ProcError(u) \/ FinDbError(u) \/ FinError(u)
       \/ \E w \in Workers : FlakeError(w) \/ FlakeKilled(w)

Next ==
    \/ \E u \in Uploads : ProcStep(u) \/ FinStep(u)
    \/ \E w \in Workers : FlakeStep(w)
    \/ Environment
    \/ Failure

Spec == Init /\ [][Next]_vars

(* Live workers run the tasks that were sent; the lock of a dead one       *)
(* expires.                                                                *)
Fairness ==
    /\ \A u \in Uploads : WF_vars(ProcStep(u)) /\ WF_vars(FinStep(u))
    /\ \A w \in Workers : WF_vars(FlakeStep(w))

FairSpec == Spec /\ Fairness

-----------------------------------------------------------------------------
(* Properties.                                                             *)

FlakeRows == [open : BOOLEAN, count : Nat, fails : Nat, recent : Nat]

(* Every variable has its type; no retry exceeds its limit.                *)
TypeOK ==
    /\ state \in [Uploads -> {"none", "uploaded", "processed", "has_failed",
                              "flake_processed"}]
    /\ outcome \in [Uploads -> {"pass", "fail"}]
    /\ stored \in [Uploads -> 0 .. DbRetries + 1]
    /\ proc \in [Uploads -> {"none", "done", "failed"} \cup InProc]
    /\ procTries \in [Uploads -> 0 .. DbRetries]
    /\ fin \in [Uploads -> {"none", "queued", "pushed", "sent", "done"}]
    /\ finTries \in [Uploads -> Nat]
    /\ \A u \in Uploads : finTries[u] <= LockRetries \/ finTries[u] <= DbRetries
    /\ merged \subseteq Commits
    /\ list \in Seq(Commits)
    /\ messages \in Nat
    /\ flake \in [Workers -> {"idle", "popping", "processing",
                              "reading", "drained", "dead"}]
    /\ todo \in [Workers -> Seq(Commits)]
    /\ snap \in [Workers -> SUBSET Uploads]
    /\ flakeLock \in Workers \cup {NoWorker}
    /\ rows \in Seq(FlakeRows)
    /\ due \subseteq Uploads
    /\ broken \in BOOLEAN
    /\ faults \in 0 .. MaxFaults

(* No ProcessFlakesTask is waiting or running, and none will be sent for a *)
(* commit that is in the list.                                             *)
FlakesQuiet ==
    /\ messages = 0
    /\ \A w \in Workers : flake[w] = "idle"
    /\ \A u \in Uploads : fin[u] # "pushed"

(* process_flakes.py: "The locking scheme is set up such that no upload    *)
(* will be unprocessed": once the tasks have ended, every upload that was  *)
(* processed when its commit was pushed has been looked at, although tasks *)
(* that cannot get the lock just end.  (An upload of a commit that is      *)
(* merged after its finisher is not pushed.)                               *)
NoUploadUnprocessed ==
    FlakesQuiet /\ ~broken => \A u \in due : state[u] # "processed"

(* fail_count, over all Flakes of the test.                                *)
TotalFails(rs) ==
    LET sum[i \in 0 .. Len(rs)] ==
            IF i = 0 THEN 0 ELSE sum[i - 1] + rs[i].fails
    IN  sum[Len(rs)]

(* Every failure is counted in exactly one Flake, once, however commits are*)
(* pushed again and tasks compete for them: what the rows add up to is what*)
(* the uploads in state "flake_processed" hold.  (A processor that is      *)
(* retried may store or count an upload again: `state == "processed"` does *)
(* not cover "flake_processed".)                                           *)
FlakesAreExact ==
    (\A u \in Uploads : procTries[u] = 0) =>
        TotalFails(rows) =
            Cardinality({u \in Uploads :
                state[u] = "flake_processed" /\ outcome[u] = "fail"})

(* A test has at most one open Flake, which has passed less often than     *)
(* FLAKE_EXPIRY_COUNT since its last failure.                              *)
OneOpenFlake ==
    /\ Cardinality(OpenRows(rows)) <= 1
    /\ \A i \in OpenRows(rows) :
        /\ rows[i].recent < Expiry
        /\ rows[i].fails + rows[i].recent <= rows[i].count

(* That point is reached: no task waits for good, neither for the lock of a*)
(* dead worker nor by being retried.                                       *)
FlakesComeToRest == <>[]FlakesQuiet

=============================================================================
