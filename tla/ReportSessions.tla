--------------------------- MODULE ReportSessions ---------------------------
(***************************************************************************)
(* The stored coverage reports of a line of commits, their sessions and    *)
(* the Upload rows that mirror them:                                       *)
(*                                                                         *)
(*   apps/worker/tasks/preprocess_upload.py                                *)
(*   apps/worker/services/report/__init__.py (initialisation, carryforward,*)
(*     save_report, save_full_report, delete_uploads_by_sessionid)         *)
(*   apps/worker/services/processing/merging.py                            *)
(*   libs/shared/shared/reports/{resources,reportfile,carryforward}.py     *)
(*                                                                         *)
(* A report is two objects in storage, the chunks (line records, tagged    *)
(* with session numbers) and the report json (sessions and file index),    *)
(* plus rows in the database.  Initialisers (PreProcessUpload, UploadTask) *)
(* and finishers write all of them, each under a lock of its own.  One file*)
(* stands for all files, and a line record for all lines of an upload.     *)
(***************************************************************************)
EXTENDS Integers, FiniteSets, Sequences, SequencesExt

CONSTANTS
    Commits,     \* the commits
    Parent,      \* Parent[c]: parent_commit_id of c, or None
    MaxDepth,    \* max_parenthood_deepness
    Flags,       \* the flags of the repository
    CarryFlags,  \* flags for which the yaml asks to carry forward
    Uploads,     \* the uploads
    FlagsOf,     \* FlagsOf[u]: the flags of upload u
    Failed,      \* uploads with an unsuccessful processing result
    Hollow,      \* successful ones whose intermediate report is empty or gone
    PreTasks,    \* PreProcessUpload tasks
    UpTasks,     \* UploadTasks
    FinTasks,    \* UploadFinisherTasks
    CommitOf,    \* CommitOf[t]: the commit of task t
    Batch,       \* Batch[f]: the processing results of finisher f, in order
    Events,      \* which of AllEvents may happen in this instance
    MaxFaults,   \* bound: how many of them happen
    None         \* no commit, no session number, no task

AllEvents == {
    "kill",         \* the worker that runs a task dies
    "save_error"}   \* an exception while a report is merged or saved

InitTasks == PreTasks \cup UpTasks
Tasks == InitTasks \cup FinTasks

ASSUME TaskAssumption ==
    /\ None \notin Commits \cup Tasks \cup Nat
    /\ PreTasks \cap UpTasks = {} /\ InitTasks \cap FinTasks = {}
    /\ Parent \in [Commits -> Commits \cup {None}]
    /\ CommitOf \in [Tasks -> Commits]
    /\ Batch \in [FinTasks -> Seq(Uploads)]
    /\ FlagsOf \in [Uploads -> SUBSET Flags]
    /\ CarryFlags \subseteq Flags /\ Failed \subseteq Uploads /\ Hollow \subseteq Uploads
    /\ MaxDepth \in Nat \ {0} /\ MaxFaults \in Nat /\ Events \subseteq AllEvents

(* Every upload is in one batch, once.  (Whether that is so is what module *)
(* UploadProcessing is about.)                                             *)
ASSUME BatchAssumption ==
    \A f, g \in FinTasks : \A i \in DOMAIN Batch[f], j \in DOMAIN Batch[g] :
        Batch[f][i] = Batch[g][j] => f = g /\ i = j

VARIABLES
    chunks,     \* chunks[c]: pairs <<session number, upload>> of line records
    json,       \* json[c]: [sessions, files] of the report json
    hasReport,  \* hasReport[c]: the Commit row names a report json
    state,      \* state[c]: Commit.state
    cfRows,     \* carried-forward Upload rows: [commit, order, src, by]
    order,      \* order[u]: Upload.order_number
    uState,     \* uState[u]: Upload.state
    pc,         \* pc[t]: where task t is
    known,      \* known[f]: the Commit row that finisher f loaded has a report
    mem,        \* mem[t]: the report that t has in memory
    base,       \* base[t]: the commit that t carries forward from
    tx,         \* tx[f]: the row changes of f that are not committed
    preLock,    \* preLock[c]: holder of preprocess_upload_lock
    reportLock, \* reportLock[c]: holder of upload_processing_lock
    faults,     \* how many events happened
    damaged     \* history: a race or a failure left its mark on a report

storage == <<chunks, json>>
rows    == <<hasReport, state, cfRows, order, uState>>
locks   == <<preLock, reportLock>>
locals  == <<known, mem, base, tx>>
history == <<faults, damaged>>
vars    == <<storage, rows, pc, locals, locks, history>>

-----------------------------------------------------------------------------
(* Report, as far as sessions matter: [sessions, files, lines], sessions   *)
(* being a function from numbers to [src, cf] and files whether there is   *)
(* any file.                                                               *)

NoSessions == [n \in {} |-> None]
EmptyReport == [sessions |-> NoSessions, files |-> FALSE, lines |-> {}]
ChunksOnly(lines) == [sessions |-> NoSessions, files |-> FALSE, lines |-> lines]
NoTx == [order |-> [u \in {} |-> None], deleted |-> {}]

(* Mutant: the number of sessions is taken to be free.                     *)
MutantCountSessions(S) == Cardinality(DOMAIN S)

(* Report.next_session_number: the first free number from len(sessions) on.*)
NextSessionNumber(S) ==
    CHOOSE n \in Cardinality(DOMAIN S) .. (2 * Cardinality(DOMAIN S)) :
        /\ n \notin DOMAIN S
        /\ \A m \in Cardinality(DOMAIN S) .. (n - 1) : m \in DOMAIN S

(* Mutant: only the sessions go, their line records stay.                  *)
MutantKeepLines(r, D) ==
    [sessions |-> [n \in DOMAIN r.sessions \ D |-> r.sessions[n]],
     files |-> r.files, lines |-> r.lines]

(* Report.delete_multiple_sessions and the same of ReportFile: a file      *)
(* without line records is dropped.                                        *)
DeleteMultipleSessions(r, D) ==
    LET left == {l \in r.lines : l[1] \notin D}
    IN  [sessions |-> [n \in DOMAIN r.sessions \ D |-> r.sessions[n]],
         files |-> r.files /\ left # {},
         lines |-> left]

(* Report.from_chunks on a json and chunks that were read separately: the  *)
(* file index decides which chunk is looked at.                            *)
FromChunks(lines, j) ==
    [sessions |-> j.sessions, files |-> j.files,
     lines |-> IF j.files THEN lines ELSE {}]

(* Chunks and json belong together.                                        *)
Coherent(r) == r.lines = {<<n, r.sessions[n].src>> : n \in DOMAIN r.sessions}

-----------------------------------------------------------------------------
(* merging.py                                                              *)

(* The uploads of the batch that have an intermediate report with coverage.*)
Covered(f) == Range(Batch[f]) \ (Failed \cup Hollow)

(* Mutant: only the first report of the batch is looked at.                *)
MutantClearForFirst(r, f) ==
    LET fs == IF Batch[f] = <<>> THEN {}
              ELSE FlagsOf[Head(Batch[f])] \cap CarryFlags
    IN  {n \in DOMAIN r.sessions :
            r.sessions[n].cf /\ FlagsOf[r.sessions[n].src] \cap fs # {}}

(* clear_all_carryforward_sessions: the carried-forward sessions that share*)
(* a carryforward flag with an upload that has coverage.                   *)
ClearedSessions(r, f) ==
    LET fs == (UNION {FlagsOf[u] : u \in Covered(f)}) \cap CarryFlags
    IN  {n \in DOMAIN r.sessions :
            /\ r.files
            /\ r.sessions[n].cf
            /\ FlagsOf[r.sessions[n].src] \cap fs # {}}

(* One round of the loop in merge_reports; m maps uploads to numbers.  A   *)
(* failed upload has no intermediate report, and a hollow one is skipped.  *)
MergeOne(acc, u) ==
    LET r == acc.report
        n == NextSessionNumber(r.sessions)
        s == [src |-> u, cf |-> FALSE]
    IN  IF u \in Failed \cup Hollow THEN acc
        ELSE [m |-> [v \in DOMAIN acc.m \cup {u} |-> IF v = u THEN n ELSE acc.m[v]],
              report |->
                IF ~r.files /\ n = 0
                THEN [sessions |-> [i \in {0} |-> s], files |-> TRUE,
                      lines |-> {<<0, u>>}]
                ELSE [sessions |-> [i \in DOMAIN r.sessions \cup {n} |->
                                        IF i = n THEN s ELSE r.sessions[i]],
                      files |-> TRUE,
                      lines |-> r.lines \cup {<<n, u>>}]]

MergeReports(r, f) ==
    LET cleared == ClearedSessions(r, f)
        after[i \in 0 .. Len(Batch[f])] ==
            IF i = 0
            THEN [report |-> IF cleared = {} THEN r
                             ELSE DeleteMultipleSessions(r, cleared),
                  m |-> [u \in {} |-> 0]]
            ELSE MergeOne(after[i - 1], Batch[f][i])
    IN  after[Len(Batch[f])]

(* Mutant: an upload without a session gets the number -1.                 *)
MutantMinusOne(f, r, m) ==
    [order |-> [u \in Range(Batch[f]) |-> IF u \in DOMAIN m THEN m[u] ELSE -1],
     deleted |-> {}]

(* Mutant: the rows of cleared sessions stay.                              *)
MutantNoDelete(f, r, m) ==
    [order |-> [u \in Range(Batch[f]) |-> IF u \in DOMAIN m THEN m[u] ELSE None],
     deleted |-> {}]

(* update_uploads: the rows of cleared sessions are deleted, the uploads of*)
(* the batch get their state and, unless failed or empty, their number.    *)
UpdateUploads(f, r, m) ==
    [order |-> [u \in Range(Batch[f]) |-> IF u \in DOMAIN m THEN m[u] ELSE None],
     deleted |-> {w \in cfRows : /\ w.commit = CommitOf[f]
                                 /\ w.order \in ClearedSessions(r, f)}]

-----------------------------------------------------------------------------
(* carryforward.py and the choice of the commit to carry forward from.     *)

(* The k-th ancestor of a commit.                                          *)
Ancestor(c) ==
    LET a[k \in 0 .. MaxDepth] ==
            IF k = 0 THEN c ELSE IF a[k - 1] = None THEN None ELSE Parent[a[k - 1]]
    IN  a

Usable(c) == state[c] \in {"complete", "skipped"}

(* The ancestors the search looks at: up to the first usable one.          *)
Searched(c) ==
    {k \in 1 .. MaxDepth :
        /\ Ancestor(c)[k] # None
        /\ \A j \in 1 .. (k - 1) : ~Usable(Ancestor(c)[j])}

(* NotReadyToBuildReportYetError: an ancestor on the way has not even      *)
(* determined its parent.                                                  *)
NotReady(c) ==
    \E k \in Searched(c) :
        /\ k < MaxDepth
        /\ state[Ancestor(c)[k]] = "pending"
        /\ Parent[Ancestor(c)[k]] = None

(* get_appropriate_commit_to_carryforward_from: a set of at most one.      *)
CarryBase(c) == {Ancestor(c)[k] : k \in Searched(c)} \cap {d \in Commits : Usable(d)}

(* generate_carryforward_report: keeps the sessions with a flag to carry   *)
(* forward, as carried-forward ones.                                       *)
GenerateCarryforwardReport(r) ==
    LET kept == DeleteMultipleSessions(r, {n \in DOMAIN r.sessions :
                    FlagsOf[r.sessions[n].src] \cap CarryFlags = {}})
    IN  IF \A n \in DOMAIN r.sessions :
               FlagsOf[r.sessions[n].src] \cap CarryFlags = {}
        THEN EmptyReport
        ELSE [kept EXCEPT !.sessions =
                [n \in DOMAIN kept.sessions |->
                    [src |-> kept.sessions[n].src, cf |-> TRUE]]]

-----------------------------------------------------------------------------
Init ==
    /\ chunks = [c \in Commits |-> {}]
    /\ json = [c \in Commits |-> [sessions |-> NoSessions, files |-> FALSE]]
    /\ hasReport = [c \in Commits |-> FALSE]
    /\ state = [c \in Commits |-> "pending"]
    /\ cfRows = {}
    /\ order = [u \in Uploads |-> None]
    /\ uState = [u \in Uploads |-> "uploaded"]
    /\ pc = [t \in Tasks |-> IF t \in UpTasks THEN "locked" ELSE "new"]
    /\ known = [f \in FinTasks |-> FALSE]
    /\ mem = [t \in Tasks |-> EmptyReport]
    /\ base = [t \in InitTasks |-> None]
    /\ tx = [f \in FinTasks |-> NoTx]
    /\ preLock = [c \in Commits |-> None]
    /\ reportLock = [c \in Commits |-> None]
    /\ faults = 0
    /\ damaged = FALSE

(* An event of this instance happens.                                      *)
Event(e) == e \in Events /\ faults < MaxFaults /\ faults' = faults + 1

Goto(t, s) == pc' = [pc EXCEPT ![t] = s]

(* Leaving `with redis_connection.lock(...)`.                              *)
Release(t) ==
    LET free(l) == [c \in Commits |-> IF l[c] = t THEN None ELSE l[c]]
    IN  preLock' = free(preLock) /\ reportLock' = free(reportLock)

(* The task ends: locks are released and what it had in memory is gone.    *)
Leave(t, s) ==
    /\ Goto(t, s)
    /\ Release(t)
    /\ mem' = [mem EXCEPT ![t] = EmptyReport]
    /\ known' = [f \in FinTasks |-> f # t /\ known[f]]
    /\ base' = [o \in InitTasks |-> IF o = t THEN None ELSE base[o]]

End(t) == Leave(t, "done")

Saving == {"chunks", "json"}

(* t overwrites a report it has not read: another task is saving, or has   *)
(* saved since t looked whether there is a report.                         *)
Overwrites(t) ==
    \/ \E o \in Tasks \ {t} : CommitOf[o] = CommitOf[t] /\ pc[o] \in Saving
    \/ hasReport[CommitOf[t]] /\ IF t \in FinTasks THEN ~known[t] ELSE TRUE

(* save_report: first the chunks are written ...                           *)
WriteChunks(t, ready) ==
    /\ pc[t] = ready
    /\ chunks' = [chunks EXCEPT ![CommitOf[t]] = mem[t].lines]
    /\ damaged' = (damaged \/ Overwrites(t))
    /\ Goto(t, "chunks")
    /\ UNCHANGED <<json, rows, locals, locks, faults>>

(* ... then the report json, at a fixed path too.                          *)
WriteJson(t) ==
    /\ pc[t] = "chunks"
    /\ json' = [json EXCEPT ![CommitOf[t]] =
                    [sessions |-> mem[t].sessions, files |-> mem[t].files]]
    /\ Goto(t, "json")
    /\ UNCHANGED <<chunks, rows, locals, locks, history>>

(* The columns of the Commit row that save_report has changed so far: state*)
(* before the json is written, the path of the json after it.              *)
SaveCommitRow(t) ==
    /\ hasReport' = [hasReport EXCEPT ![CommitOf[t]] = @ \/ pc[t] = "json"]
    /\ state' = [state EXCEPT ![CommitOf[t]] =
                    IF pc[t] \notin Saving THEN @
                    ELSE IF mem[t].files THEN "complete" ELSE "error"]

-----------------------------------------------------------------------------
(* PreProcessUpload.run_impl: the lock is tested ...                       *)
PreTestLock(t) ==
    /\ pc[t] = "new"
    /\ Goto(t, IF preLock[CommitOf[t]] = None THEN "waiting" ELSE "done")
    /\ UNCHANGED <<storage, rows, locals, locks, history>>

(* ... and then taken, with blocking_timeout=None.                         *)
PreAcquireLock(t) ==
    /\ pc[t] = "waiting"
    /\ preLock[CommitOf[t]] = None
    /\ preLock' = [preLock EXCEPT ![CommitOf[t]] = t]
    /\ Goto(t, "locked")
    /\ UNCHANGED <<storage, rows, locals, reportLock, history>>

(* Mutant: the lock has no timeout.                                        *)
MutantPreLockStays(t) ==
    preLock[CommitOf[t]] = t /\ FALSE /\ UNCHANGED vars

(* The lock's timeout of 5 minutes ends the lock of a dead holder.  (A     *)
(* holder that outlives it races with the next one as a preprocess task and*)
(* an UploadTask do in any case, since they share no lock.)                *)
PreLockExpires(t) ==
    /\ preLock[CommitOf[t]] = t
    /\ pc[t] = "dead"
    /\ preLock' = [preLock EXCEPT ![CommitOf[t]] = None]
    /\ UNCHANGED <<storage, rows, pc, locals, reportLock, history>>

(* An initialiser dies: nothing of what it changed in the rows is committed.*)
InitKilled(t) ==
    /\ Event("kill")
    /\ pc[t] \in {"locked", "reading", "carrying"} \cup Saving
    /\ Goto(t, "dead")
    /\ mem' = [mem EXCEPT ![t] = EmptyReport]
    /\ UNCHANGED <<storage, rows, known, base, tx, locks, damaged>>

-----------------------------------------------------------------------------
(* initialize_and_save_report, in a preprocess task or in an UploadTask,   *)
(* which holds the upload lock from start to end (module UploadIntake).    *)

(* has_initialized_report, or nothing to carry forward: the task goes on   *)
(* without saving a report.                                                *)
InitNothingToDo(t) ==
    /\ pc[t] = "locked"
    /\ \/ hasReport[CommitOf[t]]
       \/ /\ ~NotReady(CommitOf[t])
          /\ \A b \in CarryBase(CommitOf[t]) : ~hasReport[b]
    /\ End(t)
    /\ UNCHANGED <<storage, rows, tx, history>>

(* The parent is not ready: the preprocess task fails.  (The UploadTask is *)
(* retried 60 s later; here it just stays where it is.)                    *)
PreNotReady(t) ==
    /\ pc[t] = "locked"
    /\ ~hasReport[CommitOf[t]] /\ NotReady(CommitOf[t])
    /\ End(t)
    /\ UNCHANGED <<storage, rows, tx, history>>

(* get_existing_report_for_commit on the commit to carry forward from reads*)
(* the chunks ...                                                          *)
InitReadChunks(t) ==
    /\ pc[t] = "locked"
    /\ ~hasReport[CommitOf[t]] /\ ~NotReady(CommitOf[t])
    /\ \E b \in CarryBase(CommitOf[t]) :
        /\ hasReport[b]
        /\ base' = [base EXCEPT ![t] = b]
        /\ mem' = [mem EXCEPT ![t] = ChunksOnly(chunks[b])]
    /\ Goto(t, "reading")
    /\ UNCHANGED <<storage, rows, known, tx, locks, history>>

(* ... and then the json; the carried-forward report is made of both.      *)
InitReadJson(t) ==
    LET r == FromChunks(mem[t].lines, json[base[t]])
        cf == GenerateCarryforwardReport(r)
    IN  /\ pc[t] = "reading"
        /\ damaged' = (damaged \/ ~Coherent(r))
        /\ IF cf.files
           THEN /\ Goto(t, "carrying")
                /\ mem' = [mem EXCEPT ![t] = cf]
                /\ UNCHANGED <<known, base, locks>>
           ELSE End(t)
        /\ UNCHANGED <<storage, rows, tx, faults>>

InitWriteChunks(t) == WriteChunks(t, "carrying")

(* The rows of save_full_report, one per session.                          *)
CarriedRows(t, N) ==
    {[commit |-> CommitOf[t], order |-> n,
      src |-> mem[t].sessions[n].src, by |-> t] : n \in N}

(* db_session.commit()                                                     *)
InitCommit(t) ==
    /\ pc[t] = "json"
    /\ SaveCommitRow(t)
    /\ cfRows' = cfRows \cup CarriedRows(t, DOMAIN mem[t].sessions)
    /\ End(t)
    /\ UNCHANGED <<storage, order, uState, tx, history>>

(* An exception on the way: wrap_up_dbsession commits what had been changed*)
(* so far.  An UploadTask sends no chord then.                             *)
InitError(t) ==
    /\ Event("save_error")
    /\ pc[t] \in {"carrying"} \cup Saving
    /\ SaveCommitRow(t)
    /\ \E N \in SUBSET DOMAIN mem[t].sessions :
        /\ pc[t] # "json" => N = {}
        /\ cfRows' = cfRows \cup CarriedRows(t, N)
        /\ damaged' = (damaged \/ (pc[t] = "json" /\ N # DOMAIN mem[t].sessions))
    /\ Leave(t, "dead")
    /\ UNCHANGED <<storage, order, uState, tx>>

-----------------------------------------------------------------------------
(* UploadFinisherTask, once an UploadTask of the commit has scheduled it:  *)
(* the Commit row is loaded before the lock is taken.                      *)
FinStart(f) ==
    /\ pc[f] = "new"
    /\ \E t \in UpTasks : CommitOf[t] = CommitOf[f] /\ pc[t] = "done"
    /\ known' = [known EXCEPT ![f] = hasReport[CommitOf[f]]]
    /\ Goto(f, "waiting")
    /\ UNCHANGED <<storage, rows, mem, base, tx, locks, history>>

(* The report lock, and get_existing_report_for_commit reads the chunks    *)
(* (if the row names a report) ...                                         *)
FinAcquireLock(f) ==
    /\ pc[f] = "waiting"
    /\ reportLock[CommitOf[f]] = None
    /\ reportLock' = [reportLock EXCEPT ![CommitOf[f]] = f]
    /\ mem' = [mem EXCEPT ![f] =
                    ChunksOnly(IF known[f] THEN chunks[CommitOf[f]] ELSE {})]
    /\ Goto(f, "reading")
    /\ UNCHANGED <<storage, rows, known, base, tx, preLock, history>>

(* blocking_timeout passes: the task is retried and starts anew.           *)
FinLockTimeout(f) ==
    /\ pc[f] = "waiting"
    /\ reportLock[CommitOf[f]] # None
    /\ Goto(f, "new")
    /\ UNCHANGED <<storage, rows, locals, locks, history>>

(* ... then the json; merge_reports and update_uploads.                    *)
FinMerge(f) ==
    LET r == IF known[f] THEN FromChunks(mem[f].lines, json[CommitOf[f]])
                         ELSE EmptyReport
        merged == MergeReports(r, f)
    IN  /\ pc[f] = "reading"
        /\ mem' = [mem EXCEPT ![f] = merged.report]
        /\ tx' = [tx EXCEPT ![f] = UpdateUploads(f, r, merged.m)]
        /\ Goto(f, "merged")
        /\ UNCHANGED <<storage, rows, known, base, locks, history>>

FinWriteChunks(f) == WriteChunks(f, "merged")

(* The row changes of update_uploads.                                      *)
CommitUploads(f) ==
    /\ cfRows' = cfRows \ tx[f].deleted
    /\ order' = [u \in Uploads |->
                    IF u \in DOMAIN tx[f].order THEN tx[f].order[u] ELSE order[u]]
    /\ uState' = [u \in Uploads |->
                    IF u \notin DOMAIN tx[f].order THEN uState[u]
                    ELSE IF u \in Failed THEN "error" ELSE "processed"]
    /\ tx' = [tx EXCEPT ![f] = NoTx]

FinCommit(f) ==
    /\ pc[f] = "json"
    /\ SaveCommitRow(f)
    /\ CommitUploads(f)
    /\ End(f)
    /\ UNCHANGED <<storage, history>>

(* The row changes of f are lost: what it has written of the report is now *)
(* beside the rows of the report before.                                   *)
LoseRows(f) ==
    /\ tx' = [tx EXCEPT ![f] = NoTx]
    /\ damaged' = (damaged \/ (pc[f] \in Saving /\ hasReport[CommitOf[f]]))
    /\ UNCHANGED rows

(* run_impl turns the exception into a result; then the same late commit,  *)
(* which does harm unless the whole report was saved, or none, if there is *)
(* nothing to commit yet or the session is of no use any more.             *)
FinError(f) ==
    /\ Event("save_error")
    /\ pc[f] \in {"reading", "merged"} \cup Saving
    /\ \/ /\ pc[f] # "reading"
          /\ CommitUploads(f)
          /\ SaveCommitRow(f)
          /\ damaged' = (damaged \/ pc[f] \in {"merged", "chunks"})
       \/ LoseRows(f)
    /\ End(f)
    /\ UNCHANGED storage

(* The finisher dies, and the report lock stays ...                        *)
FinKilled(f) ==
    /\ Event("kill")
    /\ pc[f] \in {"waiting", "reading", "merged"} \cup Saving
    /\ Goto(f, "dead")
    /\ mem' = [mem EXCEPT ![f] = EmptyReport]
    /\ known' = [known EXCEPT ![f] = FALSE]
    /\ LoseRows(f)
    /\ UNCHANGED <<storage, base, locks>>

(* ... until it expires, which takes at least the hard time limit.         *)
ReportLockExpires(f) ==
    /\ reportLock[CommitOf[f]] = f
    /\ pc[f] = "dead"
    /\ reportLock' = [reportLock EXCEPT ![CommitOf[f]] = None]
    /\ UNCHANGED <<storage, rows, pc, locals, preLock, history>>

-----------------------------------------------------------------------------
InitStep(t) ==
    \/ InitNothingToDo(t) \/ InitReadChunks(t) \/ InitReadJson(t)
    \/ InitWriteChunks(t) \/ WriteJson(t) \/ InitCommit(t)

PreStep(t) == PreAcquireLock(t) \/ PreNotReady(t) \/ InitStep(t)

FinStep(f) ==
    \/ FinStart(f) \/ FinAcquireLock(f) \/ FinLockTimeout(f) \/ FinMerge(f)
    \/ FinWriteChunks(f) \/ WriteJson(f) \/ FinCommit(f)

Next ==
    \/ \E t \in PreTasks :
        PreTestLock(t) \/ PreStep(t) \/ PreLockExpires(t)
    \/ \E t \in UpTasks : InitStep(t)
    \/ \E t \in InitTasks : InitError(t) \/ InitKilled(t)
    \/ \E f \in FinTasks :
        FinStep(f) \/ FinError(f) \/ FinKilled(f) \/ ReportLockExpires(f)

Spec == Init /\ [][Next]_vars

(* A preprocess task that runs keeps running, and redis expires the lock.  *)
Fairness ==
    \A t \in PreTasks :
        WF_vars(PreStep(t)) /\ WF_vars(PreLockExpires(t))

FairSpec == Spec /\ Fairness

-----------------------------------------------------------------------------
(* Properties.                                                             *)

SessionSet == [src : Uploads, cf : BOOLEAN]
IsSessions(S) == DOMAIN S \subseteq Nat /\ \A n \in DOMAIN S : S[n] \in SessionSet

(* Every variable has its type: session and order numbers are naturals, a  *)
(* lock is held by a task of the commit.                                   *)
TypeOK ==
    /\ \A c \in Commits :
        /\ chunks[c] \subseteq Nat \X Uploads
        /\ IsSessions(json[c].sessions) /\ json[c].files \in BOOLEAN
        /\ preLock[c] \in {t \in PreTasks : CommitOf[t] = c} \cup {None}
        /\ reportLock[c] \in {f \in FinTasks : CommitOf[f] = c} \cup {None}
    /\ hasReport \in [Commits -> BOOLEAN]
    /\ state \in [Commits -> {"pending", "complete", "error"}]
    /\ cfRows \subseteq [commit : Commits, order : Nat, src : Uploads, by : InitTasks]
    /\ order \in [Uploads -> Nat \cup {None}]
    /\ uState \in [Uploads -> {"uploaded", "processed", "error"}]
    /\ known \in [FinTasks -> BOOLEAN]
    /\ \A t \in Tasks : IsSessions(mem[t].sessions)
    /\ base \in [InitTasks -> Commits \cup {None}]
    /\ faults \in 0 .. MaxFaults /\ damaged \in BOOLEAN

(* The report of c is not being written, and nothing went wrong so far.    *)
Settled(c) ==
    /\ hasReport[c]
    /\ ~damaged
    /\ \A t \in Tasks : CommitOf[t] = c => pc[t] \notin Saving

(* Database and storage agree: the sessions of the stored report and the   *)
(* Upload rows of the commit correspond one to one by order_number, for    *)
(* uploaded and for carried-forward sessions, although merges delete       *)
(* sessions and reuse their numbers.                                       *)
RowsMatchSessions ==
    \A c \in Commits : Settled(c) =>
        LET S == json[c].sessions IN
        /\ \A w \in cfRows : w.commit = c =>
            w.order \in DOMAIN S /\ S[w.order] = [src |-> w.src, cf |-> TRUE]
        /\ \A n \in DOMAIN S :
            IF S[n].cf THEN Cardinality({w \in cfRows : w.commit = c /\ w.order = n}) = 1
                       ELSE order[S[n].src] = n
        /\ \A f \in FinTasks : CommitOf[f] = c => \A u \in Range(Batch[f]) :
            order[u] # None => order[u] \in DOMAIN S /\ S[order[u]] = [src |-> u, cf |-> FALSE]

(* The line records of the stored report are those of its sessions, each   *)
(* under the number of its own session: deleting, renumbering and carrying *)
(* forward leave no coverage behind that no session accounts for.          *)
LinesMatchSessions ==
    \A c \in Commits : Settled(c) => Coherent(FromChunks(chunks[c], json[c]))

(* Once an upload with a carryforward flag is merged, no carried-forward   *)
(* session with that flag is left beside it.                               *)
CarriedForwardIsSuperseded ==
    \A c \in Commits : Settled(c) =>
        \A m, n \in DOMAIN json[c].sessions :
            json[c].sessions[m].cf /\ ~json[c].sessions[n].cf =>
                FlagsOf[json[c].sessions[m].src] \cap FlagsOf[json[c].sessions[n].src]
                    \cap CarryFlags = {}

(* A merge never drops or renumbers an uploaded session, and drops a       *)
(* carried-forward one only for an upload with coverage for its flag.      *)
SessionsStay ==
    [][\A c \in Commits : \A n \in DOMAIN json[c].sessions :
        LET s == json[c].sessions[n]
            S == json'[c].sessions
        IN  \/ n \in DOMAIN S /\ S[n] = s
            \/ damaged'
            \/ ~hasReport[c]
            \/ s.cf /\ \E m \in DOMAIN S :
                ~S[m].cf /\ FlagsOf[S[m].src] \cap FlagsOf[s.src] \cap CarryFlags # {}]_vars

(* The preprocess task waits for its lock without a limit, and yet every   *)
(* waiting task gets to its end, even when the holder was killed.          *)
PreprocessEnds ==
    \A t \in PreTasks : pc[t] = "waiting" ~> pc[t] \in {"done", "dead"}

=============================================================================
