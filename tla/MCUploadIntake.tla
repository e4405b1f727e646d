-------------------------- MODULE MCUploadIntake ----------------------------
(* Small instances of UploadIntake for TLC.                                *)
EXTENDS UploadIntake, TLC

(* Uploads are interchangeable in the safety properties.                   *)
Symmetry == Permutations(Uploads)
=============================================================================
