-------------------------- MODULE MCReportSessions --------------------------
(* A parent and a child commit, for TLC.                                   *)
EXTENDS ReportSessions, TLC

CONSTANTS p, h, flagA, flagB, pa, pb, px, hb, hx, hf, pre1, pre2, up, uh, fp1, fp2, fh

ParentOf == p :> None @@ h :> p
FlagsOfUpload == pa :> {flagA} @@ pb :> {flagB} @@ px :> {flagB} @@ hf :> {flagA} @@ hx :> {flagA} @@ hb :> {flagB}
TaskCommit == pre1 :> h @@ pre2 :> h @@ up :> p @@ uh :> h
              @@ fp1 :> p @@ fp2 :> p @@ fh :> h
Batches == fp1 :> <<pa, pb>> @@ fp2 :> <<px>> @@ fh :> <<hf, hx, hb>>
=============================================================================
