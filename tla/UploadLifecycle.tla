--------------------------- MODULE UploadLifecycle --------------------------
(***************************************************************************)
(* What services/processing promises about the uploads of a commit, as its *)
(* state.py documents it: an upload is "processing", then "processed", then*)
(* "merged"; merging happens in batches; and the master report only ever   *)
(* gains the coverage of processed uploads, before they count as merged.   *)
(* Tasks, locks, redis and failures are not visible at this level.         *)
(***************************************************************************)
CONSTANT Uploads

VARIABLES
    stage,   \* stage[u]: the stage of upload u
    good,    \* processed uploads that have coverage
    report   \* uploads whose coverage is in the master report

vars == <<stage, good, report>>

Stages == {"absent", "processing", "cleared", "processed", "merged"}

InStage(s) == {u \in Uploads : stage[u] = s}
Advance(B, s) == stage' = [u \in Uploads |-> IF u \in B THEN s ELSE stage[u]]

Init ==
    /\ stage = [u \in Uploads |-> "absent"]
    /\ good = {}
    /\ report = {}

(* mark_uploads_as_processing, for a new batch or for a retried upload.    *)
Receive(B) ==
    /\ B \subseteq InStage("absent") \cup InStage("cleared")
    /\ Advance(B, "processing")
    /\ UNCHANGED <<good, report>>

(* clear_in_progress_uploads: an error or a retry.                         *)
Clear(u) ==
    /\ stage[u] = "processing"
    /\ Advance({u}, "cleared")
    /\ UNCHANGED <<good, report>>

(* mark_upload_as_processed, with coverage or with an error; a processor   *)
(* that is retried after that may come to another result.                  *)
Process(u) ==
    /\ stage[u] \in {"processing", "cleared", "processed"}
    /\ Advance({u}, "processed")
    /\ good' \in {good \cup {u}, good \ {u}}
    /\ UNCHANGED report

(* The coverage of processed uploads gets into the master report.          *)
Publish(S) ==
    /\ S \subseteq good \cap InStage("processed")
    /\ report' = report \cup S
    /\ UNCHANGED <<stage, good>>

(* mark_uploads_as_merged: a whole batch, its coverage being published.    *)
Merge(B) ==
    /\ B \subseteq InStage("processed")
    /\ B \cap good \subseteq report
    /\ Advance(B, "merged")
    /\ UNCHANGED <<good, report>>

Next ==
    \/ \E u \in Uploads : Clear(u) \/ Process(u)
    \/ \E B \in SUBSET Uploads : Receive(B) \/ Publish(B) \/ Merge(B)

Spec == Init /\ [][Next]_vars
=============================================================================
