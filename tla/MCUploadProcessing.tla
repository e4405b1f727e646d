------------------------ MODULE MCUploadProcessing --------------------------
(* Small instances of UploadProcessing for TLC.                            *)
EXTENDS UploadProcessing, TLC

(* Uploads and chords are interchangeable in the safety properties.        *)
Symmetry == Permutations(Uploads) \cup Permutations(Chords)
=============================================================================
