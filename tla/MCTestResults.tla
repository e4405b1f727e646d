--------------------------- MODULE MCTestResults ----------------------------
(* Instances of TestResults for TLC.                                       *)
EXTENDS TestResults
CONSTANT c1

OneCommit == [u \in Uploads |-> c1]
=============================================================================
