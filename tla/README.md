# Verification of the report pipeline of umbrella

`umbrella` is Codecov's monorepo: a Django API (`apps/codecov-api`), a celery
worker (`apps/worker`) and a shared library (`libs/shared`). CI jobs send
coverage uploads to the API; the worker parses each one, merges them into one
master report per commit and, once a commit is complete, notifies.

That path, and its branches (carried-forward reports, test results and flakes,
manual triggers), is many tasks on different machines that work on one commit and
share only redis, an object store and a database. There the program's own
concurrency lies, and that is what this project models, model-checks (TLC) and
proves properties about (TLAPS).

Paths below are relative to `src/`. `PROJECT.json` holds the same
information in tables: components, hazards, runs, findings, theorems, and for
every definition the source lines it models.

## 1. Inventory

| part | state it keeps | operations | shared with |
|---|---|---|---|
| Upload intake, API (`codecov-api/upload/helpers.py`) | redis list `uploads/{repo}/{commit}`, key `latest_upload/...` | `dispatch_upload_task`: one pipeline (`rpush`, `expire`, `setex`), then `UploadTask` with a countdown | UploadTask |
| Upload task (`worker/tasks/upload.py`) | redis lock `upload_lock_*`, popped arguments (memory) | pending / processing / debounce checks, lock, drain, report initialisation, Upload rows, chord | API, finisher (it looks at the report lock), celery |
| Processing state (`worker/services/processing/state.py`) | redis sets `processing`, `processed` | mark as processing / processed / merged, clear, count | all tasks of the commit |
| Upload processor (`worker/tasks/upload_processor.py`, `services/processing/processing.py`) | Upload row, intermediate report (redis) | parse, save, mark, retry | finisher |
| Intermediate reports (`services/processing/intermediate.py`) | redis hash per upload, with TTL | save, load, cleanup | processor, finisher |
| Upload finisher (`worker/tasks/upload_finisher.py`) | redis locks `upload_processing_lock_*`, `upload_finisher_lock_*`; master report (storage); Upload rows | merge, save, commit, mark, clean up, count, postprocess (notify) | other finishers, UploadTask |
| Report merging (`services/processing/merging.py`) | sessions of the report | merge, carried-forward sessions, Upload states | finisher |
| Task base class (`worker/tasks/base.py`, `libs/shared` celery config) | `request.retries`, DB session | retries, time limits, late commits | every task |
| Report service (`services/report`), report structures (`libs/shared/.../reports`) | chunks and report json (storage), Commit and Upload rows, sessions | `initialize_and_save_report` (carryforward), `save_report`, `save_full_report`; session numbers, deletion of sessions | UploadTask, PreProcessUpload, finisher |
| Preprocess upload (`tasks/preprocess_upload.py`) | redis lock `preprocess_upload_lock_*` | test, lock, initialise the report | UploadTask, finisher (through the report) |
| Notify, manual trigger (`tasks/notify.py`, `tasks/manual_trigger.py`, `services/lock_manager.py`), status webhook and upload completion endpoint of the API | notification and manual trigger locks; the notification at the provider | pending checks, CI status, retries, reading the report, sending; counting Upload rows | finisher, git provider |
| Test results (`tasks/test_results_processor.py`, `test_results_finisher.py`) | TestInstances, Upload state | parse, store, finish | UploadTask, flakes, NotifyTask |
| Flakes (`tasks/process_flakes.py`, `services/processing/flake_processing.py`) | redis list of commits and lock of a repository; Flake rows | pop, one transaction per commit | test results finisher, pull sync |
| Bundle analysis, comparison, notifiers, syncs, timeseries, cleanup, torngit, storage, plans, webhooks, breadcrumbs | database rows, provider calls | sequential or I/O | - |

What is hard there: several finishers of one commit that merge and then count
which uploads are left (who postprocesses?); a non-atomic count over two redis
sets; read-merge-write of a report in object storage under a redis lock that can
expire; processors that are retried, fail, return nothing or die, in a celery chord
that runs its finisher only when all of them succeed; a redis list that many
tasks drain; one retry budget shared by several causes; two storage objects and
several tables that describe one report and are written one after the other; three
locks, none of which covers all writers of a report; tasks that give up because another
one is running. The properties that make the parts correct are: no upload's coverage is
lost or merged away; whatever is merged is postprocessed, and not before the uploads
known at that time; nothing of a finished chord stays behind that would keep
others from being postprocessed; every upload leaves the list once, in order; sessions,
line records and Upload rows agree; notifications are about the newest report
and, where that is asked for, about all of it; every test failure is counted once; tasks end.
"hazards" in `PROJECT.json` lists each of these at its line.

## 2. Modules

| module | contents |
|---|---|
| `UploadProcessing` | the tasks of one commit from the chord to postprocessing: processing state, processors, intermediate reports, finishers, both finisher locks |
| `UploadLifecycle` | abstract specification: what the docstring of `state.py` promises about uploads and the master report |
| `UploadIntake` | the redis list and the UploadTasks of one commit |
| `ReportSessions` | the stored reports of a parent and a child commit: initialisation with carryforward, merging, session numbers, rows |
| `Notify` | NotifyTasks, manual triggers and what starts them, for one commit |
| `TestResults` | test result processors and finishers, and the flake tasks of one repository |
| `UploadProcessingProofs`, `UploadLifecycleProofs`, `UploadIntakeProofs`, `NotifyProofs`, `TestResultsProofs`, `ReportSessionsProofs` | theorems (TLAPS) |
| `RecursionLemmas` | what the proofs about loops need: induction, and the result of a recursion |
| `MCUploadProcessing`, `MCUploadIntake`, `MCReportSessions`, `MCNotify`, `MCTestResults` and their `.cfg` | instances for TLC |

The modules meet at the finisher. `UploadProcessing` has it in full; `Notify` keeps of it
load, lock, save, commit, mark, release, count, second lock, notify, with a batch of one upload;
`ReportSessions` keeps load, lock, read, merge, write, commit; `UploadIntake` only the lock. In each of the first
three a finisher may fail or die at every one of its steps, and is retried or gives up where the code says so.

### UploadProcessing

A step is one access to state that other tasks can see. `fin[c]` is the program
counter of chord `c` and its finisher, `proc[u]` that of the processor of `u`:

    fin:  idle -> scheduling -> header -> waiting -> locked -> merging -> saved
          -> committed -> marked -> released -> cleaned -> counted
          -> elected -> posting -> posted -> done        (or -> done when not elected)
          and the ends gaveup, failed, dead
    proc: none -> queued -> running -> built -> marked -> done, or failed

| actions | code |
|---|---|
| `MarkUploadsAsProcessing`, `ApplyChord` | `_schedule_coverage_processing_task`: redis first, chord second |
| `ProcStart`, `BuildSuccess`, `BuildError`, `BuildRetry`, `MarkUploadAsProcessed`, `ProcReturn` | `UploadProcessorTask.run_impl`, `process_upload`: `mark_uploads_as_processing`, the build with its outcomes, `mark_upload_as_processed`, the `finally` block |
| `ProcRaise`, `ProcStartDbError`, `ProcDbError`, `ProcKilled` | exceptions; `BaseCodecovTask.run` retries database errors and returns `None` when retries are used up (`res = "null"`) |
| `FinStart` .. `ReleaseFinisherLock`, in the order of the diagram | `UploadFinisherTask.run_impl`, `_process_reports_with_lock`, `_handle_finisher_lock`, `should_call_notifications`, `finish_reports_processing` |
| `ReportLockTimeout`, `FinisherLockTimeout`, `FinStartDbError`, `FinError`, `FinKilled` | retry or give up on `LockError`, `except` branches, worker death |
| `ReportLockExpires`, `FinisherLockExpires`, `ExpireIntermediate` | redis timeouts |

`Events` selects which failures an instance allows, so that one specification
serves the runs and the proofs. `merged`, `before`, `covered` and `notified` are
history: no guard reads them.

`hasReport` is whether the Commit row names a report, `known[c]` whether it did when finisher `c`
loaded the row, which `run_impl` does before it waits for the lock. A finisher that knows of no report
merges into an empty one. `CarriedForward` says that `initialize_and_save_report` saved a
carried-forward report before the chords were sent, so that the row names one from the start; without it
finding `processing_lost` below applies, and the properties about lost merges are stated for commits with it.

Facts of the environment the model uses (marked external in the map):

- celery runs a chord's body only after every header task has succeeded, with their
  results; a header task that fails leaves the body unrun. `acks_late` is off, so a task
  whose worker dies is not delivered again.
- The report lock's timeout is at least the hard time limit, so it only expires after its
  holder died. The finisher lock's 300 s are shorter than the time limit: it may
  expire under a running holder, and releasing it then fails.
- `wrap_up_dbsession` may commit Upload rows that were flushed before an exception.

Abstractions: one commit; coverage is the set of uploads whose sessions the report has
(so the number of sessions is `Cardinality(report)`; carried-forward sessions are in
`ReportSessions`); the report json is an object in storage that is read under the lock (with
`save_report_data_in_storage` off it is a column of the row loaded before the lock, and
all of it would be as stale as `known`); writing chunks and `report_json` is one step; `commit.state`, totals,
diff, breadcrumbs, checkpoints, caches and the timeseries/pull tasks the finisher
sends are left out. A retried processor clears its upload from `processing`
when it stops and puts it back when the retry starts: both are steps.

### UploadLifecycle and the refinement

An upload is absent, processing, processed, merged, or cleared (an error or a
retry); a batch is merged as a whole; coverage enters the report only from
processed uploads and before they count as merged; it never leaves. `Process` may repeat: a retried
processor can end with another result than before (a database error after the upload was marked).
`UploadProcessing` maps `stage` to its redis sets (`StageOf`), `good` to
the processed uploads with a successful result, and `report` to itself.

### UploadIntake

Task `t` is the UploadTask the API sends for upload `t`. Its states follow
`run_impl`: delayed, queued, pending (has_pending_jobs seen), idle (not currently
processing), locking, locked (second check), initializing, draining, drained, and
the ends. `Drain` is one `lpop` of `PopCount` elements (50 in the code).

Abstractions: one report type's list; the report lock that `is_currently_processing`
looks at is toggled freely (`merging`), i.e. finishers are arbitrary; the debounce
time is abstracted to "an upload newer than the one this task waited for is recent"
(`latest`, `delayedBy`), which leaves out the truncation of delays to whole seconds and
clock differences between API and worker; a rate-limited provider with no retries left
continues without provider, which is `InitializeReport`.

### ReportSessions

A report is `chunks[c]`, a set of pairs of a session number and the upload whose line records carry it, and
`json[c]`, its sessions and whether it has files; `cfRows`, `order` and `uState` are the Upload rows,
`hasReport` and `state` the Commit row. One file stands for all, one line record for all lines of an upload.

| actions | code |
|---|---|
| `PreTestLock`, `PreAcquireLock`, `PreNotReady`, `PreLockExpires` | `PreProcessUpload` |
| `InitNothingToDo`, `InitReadChunks`, `InitReadJson`, `InitWriteChunks`, `WriteJson`, `InitCommit`, `InitError`, `InitKilled` | `initialize_and_save_report`, in a preprocess task or an UploadTask: two reads of the parent's report, two writes, the commit of rows |
| `FinStart`, `FinAcquireLock`, `FinLockTimeout`, `FinMerge`, `FinWriteChunks`, `WriteJson`, `FinCommit`, `FinError`, `FinKilled`, `ReportLockExpires` | the finisher, as far as it touches report and rows |

`NextSessionNumber`, `DeleteMultipleSessions`, `ClearedSessions`, `MergeReports`, `UpdateUploads`, `CarryBase`
and `GenerateCarryforwardReport` are the functions of those names in the code, as operators.
After an exception `wrap_up_dbsession` commits whatever was flushed, or finds the session unusable; a death commits
nothing. `BatchAssumption` says that every upload is in one
batch, once: an UploadTask creates one Upload row per popped upload and puts it into one chord, which
`EachUploadOnce` is about.

`damaged` is history. It becomes true when the code lets go of consistency:

- a task saves while another one is saving, or over a report it has not read (initialisers and finishers share no
  lock; the stale row above);
- the chunks and the json of a parent are read around a save;
- a finisher fails or dies in the middle of saving: its rows are committed although not all of the report was written
  (an error before or between the two writes, and the late commit), or its rows are lost although some of a report that the
  Commit row already names was (an error or a death after the first write).

The properties of the module say that nothing else harms a report: not an error or a death before anything was written,
with the rows lost; not an error after both writes, with the late commit; not a death while saving the first
report of a commit, of an initialiser or a finisher, and the initialisation or merge after it; not a second
initialisation, not renumbering, clearing, failed, empty or expired uploads. They say nothing about a commit
after one of the three: the hazards list them with their lines.

### Notify

`upload[u]` is upload `u` and its finisher, `notify[n]` a NotifyTask, `trigger[t]` a ManualTriggerTask. `sent` is
what the notification at the provider is about. NotifyTasks are sent by elected finishers
(`FinishReportsProcessing`), by the status webhook (`Status`) and by triggers (`TriggerNotifications`).

The finisher goes `uploaded -> waiting -> merging -> saved -> committed -> marked -> released -> elected -> posting -> posted -> done`
(or `-> done` when not elected), and its ends besides are failed, dead and gaveup. What can happen to it:

| actions | code |
|---|---|
| `ProcessingFails` | the processor raises or dies: no finisher, the upload may stay in redis, its row stays UPLOADED |
| `ReportLockTimeout` | `LockError`: retried from the start, or out of retries |
| `FinisherLockTimeout` | `LockError` after 5 s: the finisher returns, there is no retry |
| `FinError` | `except` branches, soft time limit; `wrap_up_dbsession` may commit the rows of a report that was not saved |
| `FinKilled`, `ReportLockExpires`, `FinisherLockExpires`, `FinisherLockOverrun` | death, and the expiry of its locks; the finisher lock also expires under a live holder |

`known[u]` and `seen[n]` are whether the Commit row that the finisher or the NotifyTask loaded names a report: `SaveReport` of a
finisher that knows of none replaces the report (finding `processing_lost`), and a NotifyTask that has seen none sends nothing.
`CarriedForward` is as in `UploadProcessing`; `NotificationsNeverRegress` and `ManualIsComplete` are stated for commits with it, since
without it a report may be overwritten with an older one. `unmerged` is the union of the two redis sets.

`CheckUpcoming`, `AcquireNotifyLock`, `FetchCi`, `ReadHeadReport`, `Submit`, `ReleaseNotifyLock` are the way through `run_impl`;
`TestFailures`, `RateLimited`, `NoProvider`, `NotifyLockTimeout`, `NotifyDbError`, `NotifyError`, `NotifyKilled` the ways
out of it. Sending is one step; a database error after it starts the task again. The lock's timeout is at
least the hard time limit, so it ends only the lock of a dead holder. The lock of the manual trigger has 300 s and may also expire
under a live one (`TriggerLockOverrun`); a database error makes the trigger start again unless its lock is gone, in which
case `LockNotOwnedError` ends it. `Status` stands for one
webhook after CI has finished; `TriggerLockTimeout` may be due to a trigger that is not one of `Requests`;
`empty_upload` is left out, and so is a database error after the trigger has sent its NotifyTask, whose retry is like another request.
`MaxFaults` bounds how many faults happen.

### TestResults

`impl_type = "old"`, the default. `proc[u]` and `fin[u]` are the chain of upload `u`; `flake[w]` a worker that runs a
ProcessFlakesTask, of which `messages` have been sent. All uploads have one run of one test,
which passes or fails; `rows` are its Flakes. What the code commits separately is separate:
test instances, then the state; the push to the list, then the task; each transaction.
`FlakeLockTimeout` assumes that a task that waited three seconds for the lock was sent before
the holder's last `lpop`, i.e. that the holder does not need three seconds to release it; without that the
scheme of the code does not work. Waiting for the finisher's lock is an event that may or may not
happen. Uploads without any test run, and the lost flag `flake_uploads` (see 5), are left out.

## 3. Runs

Deadlock checking is off in all runs: the systems stop when every upload
is handled (or lost), and when nothing more arrives.

| run | instance | properties | states |
|---|---|---|---|
| `processing_nominal` | 3 uploads, 3 chords, failing and missing files, `after_n_builds` 2 | `NoMissedPostprocessing`, `MergedIsReported`, `CompleteReportIsNotified`, `ImplementsLifecycle` | 599 065 |
| `processing_faults` | 2 uploads, 2 chords, every failure except TTL; fair | `TypeOK`, `PostprocessingIsComplete`, `DoneLeavesNothing`, `ReportNeverShrinks`, `FinisherProceeds` | 626 391 |
| `processing_liveness` | 2 uploads, 2 chords, failing and missing files, TTL; fair | `EventuallyPostprocessed` | 49 303 |
| `processing_blocked`, `processing_once`, `processing_notified`, `processing_lost` | 2 chords | findings, see 5 | |
| `intake_nominal` | 3 uploads, 2 retries, no failures; fair | `EventuallyScheduled` | 323 258 |
| `intake_faults` | 2 uploads, 3 retries, every failure; fair | `TypeOK`, `NoTaskEndsEarly`, `EachUploadOnce`, `NoOvertaking`, `TasksEnd` | 41 234 |
| `report_sessions_faults` | parent with 2 batches, child with a batch of a failed, an empty and a good upload, 2 preprocess tasks, 1 error or death; fair | `TypeOK`, `RowsMatchSessions`, `LinesMatchSessions`, `CarriedForwardIsSuperseded`, `SessionsStay`, `PreprocessEnds` | 637 592 |
| `notify_faults` | 2 uploads with finishers, carried-forward report, 1 webhook or trigger, 1 fault of any kind in any task; fair | `TypeOK`, `ManualIsComplete`, `CompleteIsNotified`, `NotificationsNeverRegress`, `NotifyEnds` | 1 021 291 |
| `test_results_faults` | 2 uploads of a commit, 2 workers, 1 failure; fair | `TypeOK`, `NoUploadUnprocessed`, `FlakesAreExact`, `OneOpenFlake`, `FlakesComeToRest` | 495 534 |

What they show:

- `NoMissedPostprocessing`: a finisher that skips postprocessing because it counts
  other uploads always leaves it to one that will do it, for any interleaving.
- `PostprocessingIsComplete`: the count, read in two commands, never elects a
  finisher while an upload scheduled before the first read is unmerged, unless
  that upload was in a retry or its chord broke. It rests on `smove` being atomic
  and on reading `processing` first.
- `MergedIsReported`, `ReportNeverShrinks`: no lost update of the report, on commits with a carried-forward report.
- `DoneLeavesNothing`: a chord that got through leaves nothing in redis, failed uploads included.
- `CompleteReportIsNotified`: without failed uploads, `after_n_builds` sessions are enough
  for a notification about the whole report, whichever finisher was elected.
- `EventuallyPostprocessed`, `FinisherProceeds`, `EventuallyScheduled`, `TasksEnd`: progress.
- `NoTaskEndsEarly`, `EachUploadOnce`, `NoOvertaking`: the list is drained without
  loss (other than by a run cut off after popping, or expiry), duplication or reordering.
- `RowsMatchSessions`, `LinesMatchSessions`: sessions, line records and Upload rows correspond by number,
  although merging frees numbers and reuses them in one go; `CarriedForwardIsSuperseded`: an upload
  replaces what was carried forward for its flags, however the batch is composed; `SessionsStay`: no merge
  drops or renumbers an uploaded session. All up to `damaged`, see above.
- `PreprocessEnds`: a preprocess task that waits without a limit gets the lock of a dead one.
- `NotificationsNeverRegress`: of several NotifyTasks of a carried-forward commit none sends an older report after a
  newer one. `ManualIsComplete`: a triggered notification has every upload that was counted, except those whose finisher
  failed before it had marked them as merged: their rows may be committed without the report.
  `CompleteIsNotified`: tasks that leave the notification to others leave it to one that sends it,
  unless a NotifyTask ended for a reason of its own, an upload failed or a finisher broke: failed, died or gave up on its
  second lock. (It may have been retried, and lost that lock while it worked.) `NotifyEnds`: retries end.
- `NoUploadUnprocessed`: the sentence of `process_flakes.py:67`, for uploads processed when their commit was pushed
  and without a task that broke off. `FlakesAreExact`, `OneOpenFlake`: failures are counted once, in one flake.
  `FlakesComeToRest`: tasks end and the lock of a dead worker does not stop them.

Why the bounds are enough to meet the interesting cases: the election is a matter of two
finishers and one more that merges meanwhile, hence three chords; a failure
needs the failing chord and one that suffers from it. Retry limits are 1 instead of 5
(finisher) and 3 (database), 2 or 3 in the intake: each run contains a
retry, a second retry that is refused and, for `EventuallyScheduled`, tasks that give up while
a later one takes their uploads. `PopCount = 1` makes draining take several
steps. In `ReportSessions` the parent has two batches so that the child can carry forward from either state
of it, and the child's batch clears one of two carried-forward sessions so that a number is reused. In `Notify` two
finishers and a request give three NotifyTasks: one inside, one waiting, one that leaves it to others; one fault is a death, an
error with its late commit, a missed or expired lock or a retry, each with everybody else's reaction to it. A failed upload, CI and
a stale head are not counted as faults. The proofs have no bound on faults.
In `TestResults` `PopCount` and `Expiry` are 1 (10 and 30 in the code), so that a list needs several pops and
flakes expire; one failure suffices for a death, a retry or a rolled back transaction, but not for
using up the retries of a processor. Where a property does not depend on the bounds, section 4 proves it for all.
`Symmetry` permutes uploads and chords, in runs without temporal liveness properties only.

Fairness. `WF` on the steps of each task (celery delivers queued tasks, a
countdown ends, a live worker keeps running the task it has), on the expiry of locks
and on the passing of the debounce time (time passes). Arrivals, scheduling of new
batches, toggles of the report lock, CI, webhooks, requests, merges of pulls and all failures stay
optional. In `ReportSessions` only preprocess tasks are fair, in `Notify` only NotifyTasks and the expiry of their lock. No strong
fairness is assumed; a finisher that waits for the report lock gets past it because redis
retries the lock while each holder is inside for finitely many steps and every chord
is merged once.

Each property of a passing run has a mutant of a mapped definition that violates it
("mutants" in `PROJECT.json`; the `Mutant*` operators in the modules, used nowhere else):
a lock that is not exclusive, a report overwritten instead of merged, only successful
uploads removed from redis, a count that ignores one set, one retry too many, and so on.

## 4. Proofs

For any set of uploads, chords, commits, tasks and requests, any limits, any yaml and any `Events`, from the named
assumptions in the modules: limits are naturals, `MaxDbRetries <= MaxRetries` as 3 <= 5 in
the code, the "free" value of a lock is no task, kinds of tasks are disjoint, `Notify` and `TestResults` have finitely many
uploads (they are counted), and in `ReportSessions` no upload is in two batches.

| module | theorem | says |
|---|---|---|
| `UploadProcessingProofs` | `Invariant`, `TypeCorrect` | `Spec => []IInv`, `Spec => []TypeOK` |
| | `NoMissedPostprocessingHolds`, `PostprocessingIsCompleteHolds`, `MergedIsReportedHolds`, `DoneLeavesNothingHolds`, `CompleteReportIsNotifiedHolds` | `Spec => []P` for the property `P` of that name |
| | `ReportNeverShrinksHolds` | `Spec => ReportNeverShrinks`, an action property |
| `UploadLifecycleProofs` | `LifecycleImplemented` | `CarriedForward`, `"ttl" \notin Events` and `Spec` imply `Lifecycle!Spec` |
| `UploadIntakeProofs` | `IntakeInvariant`, `PlacesInvariant`, `IntakeTypeCorrect` | the two invariants, and types |
| | `NoTaskEndsEarlyHolds`, `EachUploadOnceHolds`, `NoOvertakingHolds` | `Spec => []P` |
| `NotifyProofs` | `NotifyInvariant`, `NotifyTypeCorrect` | the invariant, and types |
| | `ManualIsCompleteHolds`, `CompleteIsNotifiedHolds` | `Spec => []P` |
| | `NotificationsNeverRegressHolds` | `Spec => NotificationsNeverRegress`, an action property |
| `TestResultsProofs` | `FlakesInvariant`, `TypeCorrect` | the invariant, and types |
| | `NoUploadUnprocessedHolds`, `FlakesAreExactHolds`, `OneOpenFlakeHolds` | `Spec => []P` |
| `ReportSessionsProofs` | `SessionsInvariant`, `TypeCorrect` | the invariant, and types |
| | `RowsMatchSessionsHolds`, `LinesMatchSessionsHolds`, `CarriedForwardIsSupersededHolds` | `Spec => []P` |
| | `SessionsStayHolds` | `Spec => SessionsStay`, an action property |

With these every invariant and every action property that a passing run checks is also proved, without the bounds of the run.

The inductive invariant of `UploadProcessing` is a conjunction of parts, each preserved by
a lemma with one step per action:

- `BatchInv`, `ProcInv`, `RedisInv`, `MergedInv`, `IntermediateInv`: where the uploads of a chord
  can be, given where the chord is. None of the properties is inductive without
  them: a finisher only knows its own batch, and the count is about everybody's.
- `TrackInv` and `ElectionInv` give `PostprocessingIsComplete`. An upload that is not accounted
  for by a retry or a broken chord is in `processing`, `processed` or merged at all times;
  after reading an empty `processing`, those seen before are in `processed` or merged; after
  reading an empty `processed`, merged. `BrokenStable` and `AccountedStable` say that an excuse stays one.
- `HandoverInv` gives `NoMissedPostprocessing`: while something merged is not postprocessed, some
  chord may still be elected (`Hopeful`) or is broken. The one hard step is `ReadProcessed`,
  where a finisher leaves the election: what it counted belongs to a chord that is
  hopeful or broken, by `RedisInv`.
- `LockInv` (the in-memory copy is the stored report while merging, if `CarriedForward`) and `ReportInv` give
  the two theorems about the report.
- `NotifiedInv` gives `CompleteReportIsNotified`: coverage that no notification is about, though there are
  `after_n_builds` sessions, is in the hands of a chord that is hopeful or `Spoiled` (broken, or with an
  unsuccessful upload). The hard step is again a finisher that ends without postprocessing.

The refinement maps every action to one abstract action or a stutter, under `IInv`. With expiring
intermediate reports a successful upload may be merged without coverage, so
the theorem excludes that event; it includes all the others.

For the intake, `NoTaskEndsEarly` is strengthened to `QueueInv`: an upload in the list
has a task that has been created and is neither done nor `drained`, because `ScheduleTask` ends a task
without looking at the list again. `EachUploadOnce` and `NoOvertaking` follow from `PInv`: an upload moves from the list to
the arguments of one task and from there to the chords or to what is lost, and what is further along this way
arrived before what is behind it (`PipelineInv`). `NoOvertaking` alone is not inductive: whoever appends its arguments
to `scheduled` must know that no other task holds earlier ones, which is mutual exclusion (`UploadLockInv`).

For `Notify`, the theorems hold for any number of faults and for both values of `CarriedForward`.
`NotificationsNeverRegress` needs `SentInv`: what was sent is part of what the task in the lock has read,
and that is part of the report, which only grows because every finisher knows of it (`CarryInv`). It needs `NotifyLockInv`, since a
second task in the lock could send in between. `ManualIsComplete` needs `SavedInv`: an upload whose row is committed is in the
report, or failed to merge (it is still in redis by `UnmergedInv`, and stays there, since nobody else removes it); and `CountedInv`:
what was counted is committed, and the NotifyTask of a trigger exists only after counting.

`CompleteIsNotified` becomes inductive as `PromiseInv`: as long as nothing broke (`Deserving`), a report with enough builds is what the
provider shows, or a NotifyTask that will send it is on its way, or a finisher has not decided yet. The report may change
under a waiting NotifyTask and even shrink, so `WillNotify` says of which tasks this can be expected: one that has not loaded the Commit row,
one that has loaded a row that names the report, and one that has read what is stored now. The hard steps are those in
which somebody leaves it to others: `CheckUpcoming` (by `ReportLockInv` the holder of the lock is inside, or dead),
`CountUploads` (by `UnmergedInv` what is counted has a finisher that is on its way, or broken) and a `ReadHeadReport` that has
seen no report (by `SeenInv` nothing was ever sent, and a report that no row names belongs to a finisher about to commit, or broken).

In `TestResults` a transaction is a loop over uploads with a loop over their test runs. `Transactions` is the invariant of both
loops (an open flake is the one in hand and has not expired), and `TotalFails` grows by one for each failure in it. Around
it, the invariant says which commits a worker has popped, that an upload that is due has its commit in the
list or in a worker's hands, that a list with commits has a message or a worker that will look at it again, and that the rows
add up to the failures of the uploads whose state is "flake_processed": `FlakesAreExact` is about one transaction
that changes both.

In `ReportSessions` the properties are about reports that nobody is writing; the invariant is about those who write, too:

- `LockInv`: a finisher has the report lock from reading the report to its end, or died with it. Initialisers do not take it.
- `SaveInv`: unless `damaged`, who saves a report is the only one to do so for that commit, and where there was a report it is
  a finisher that has read it.
- `MemInv`: what is about to be saved is `Whole` (line records are those of the sessions), and `Superseded` (no
  carried-forward session beside an uploaded one of its flag); initialisers save carried-forward sessions only.
- `ReadInv`, `StayInv`: the chunks a finisher has read are still those of the json it is going to read, and the json it is
  going to overwrite is the one it has merged.
- `TxInv`: once the uncommitted row changes of a finisher are applied, rows and sessions match, and they touch only rows of
  its commit and uploads of its batch.
- `StoreInv`, `RowInv`: the stored report is such a report and its rows match; without a report there are no rows.

`NextNumber` shows that the search for a session number ends within twice the number of sessions (there are more candidates
than sessions); `MergeResult` what the loop of `merge_reports` computes for a batch of any length, by induction on its
rounds; `MergeSupersedes` and `MergeMatches` what this means for sessions and for rows.

Loops are recursive functions in these modules. The library's induction theorems, which take an operator, cannot be used
here; `RecursionLemmas` states induction over a set of numbers, derived from well-foundedness, and
that a recursion up to `N` has a result (`RecursionExists`).

Only model-checked: the liveness properties (`FinisherProceeds`, `EventuallyPostprocessed`, `EventuallyScheduled`, `TasksEnd`,
`PreprocessEnds`, `NotifyEnds`, `FlakesComeToRest`), which are outside of what TLAPS supports here.

## 5. Findings

Each is a run in which TLC finds the violation.

- `processing_once`: two finishers that both merged before either counts both find the sets
  empty and both postprocess. `state.py:15` says postprocessing "only happens once for a commit".
- `processing_notified`: `should_call_notifications` looks at the finisher's own batch; when that has only
  failed uploads, coverage other batches merged is not notified, although
  `upload_finisher.py:362` says "always notify, let the notify handle if it should submit".
- `processing_blocked`: an exception in one processor keeps another chord's merged uploads from being
  postprocessed, although `processing.py:83` says the `finally` block "makes sure unrecoverable errors
  or retries are not blocking later merge/notify stages": the chord of the raising task
  never reaches the finisher to which the other one left it.
- `processing_lost`: the Commit row is loaded before the report lock (`upload_finisher.py:103`). On a commit without
  a carried-forward report, a finisher that waited while another one saved the first report still sees none, merges into an
  empty report and overwrites it: the other batch's coverage is gone, its uploads are "processed".
  `upload_finisher.py:202` says "Process reports with a lock to prevent concurrent modifications".

Met while reading, without a run of their own:

- `trigger_process_flakes` (`sync_pull.py:550`) sets the key `flake_uploads`, which nothing reads, and pushes no commit: after
  a merge the task finds an empty list. `process_flakes.py:67` still describes that key.
- A NotifyTask that finds the report lock held ends with "has_other_notifies_coming"; if the finisher that holds it
  merged only failed uploads, dies, raises, or later does not get `upload_finisher_lock` within 5 s (`upload_finisher.py:284`, no
  retry), no other one comes, though the docstring (`notify.py:479`) asks to be conservative.
- When `save_report` raises, `upload_finisher.py:172` turns the exception into a result and `wrap_up_dbsession` commits what
  `update_uploads` has flushed: the uploads are "processed" although the report does not have them, and a manual trigger counts them.
- The chunks, the json and the rows of a report are three writes; a worker that dies between them leaves a report whose parts do not
  belong together, and the next merge starts from it.
- `_attempt_retry` logs `current_yaml.to_dict()`; on the rate-limited path `current_yaml` is still a plain dict or
  `None`, so the last retry ends with an AttributeError instead of "too_many_retries".
- `test_results_processor.py:477` skips "processed" uploads but not "flake_processed" ones: a late retry stores their test
  instances again.
- `reportfile.py:388` recomputes a line's coverage after a deletion without its missed branches.

## 6. Not modelled

- The arithmetic of coverage: how lines, branches, partials, complexity, totals and diffs are combined, and parsing of
  report formats. They are pure functions over rich data, well reached by unit tests; the models
  keep who contributed what.
- Report json in the database column (see 2; `save_report_data_in_storage` is off by default), backfilling of old commits, shifting
  of carried-forward lines, `joined: false` of a flag (`merging.py:56`, which changes how the values of line records are combined, not which records there are), and chunks that are
  missing in storage although the Commit row names a report (`report/__init__.py:260`: treated as no report).
- The new test analytics implementation (`impl_type` "new" and "both"), daily rollups, test result totals and comments.
- Bundle analysis: one SQLite file per commit, processed by a chain under one lock.
- Plans, billing, activation: sequential rules over one account, driven by Stripe's events.
- Comparison, notifiers and decoration, syncs (except the move of merged commits), timeseries, cleanup, torngit, storage,
  GraphQL and REST views, other webhooks, breadcrumbs: sequential rules, I/O or observability.

These are most of the lines of the repository: views, models, serializers, provider clients, parsers. `PROJECT.json` gives
the reason for each part.

## 7. Plan

1. `UploadPipeline`: composes `UploadIntake` and `UploadProcessing` (the report lock the intake sees is the finishers',
   `ScheduleTask` is `MarkUploadsAsProcessing`). Property: arrival leads to postprocessing.
2. An abstract specification of a commit's notification (a report that grows, a provider that shows one of its states, never an
   older one), implemented by `Notify`.
3. Proofs: the refinement of item 2; an abstract specification of the intake as one queue.
4. Instances of `UploadProcessing` and `Notify` for the other yaml settings (`notify_error`, `manual_trigger`, ci skip,
   `after_n_builds`), and of `TestResults` with two commits.
5. Bundle analysis, and the new test analytics implementation, when it becomes the default.
