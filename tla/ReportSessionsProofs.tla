------------------------ MODULE ReportSessionsProofs ------------------------
(***************************************************************************)
(* Proofs about ReportSessions, for any commits, tasks, uploads, flags and *)
(* batches that the assumptions allow, and any selection of Events.        *)
(***************************************************************************)
EXTENDS ReportSessions, RecursionLemmas, FiniteSetTheorems, TLAPS

-----------------------------------------------------------------------------
(* Reports.                                                                *)

SessionMaps ==
    {S \in UNION {[D -> SessionSet] : D \in SUBSET Nat} : IsFiniteSet(DOMAIN S)}

Reports ==
    [sessions : SessionMaps, files : BOOLEAN, lines : SUBSET (Nat \X Uploads)]

(* What is stored of a report can be read back: a report without files has *)
(* no line records.                                                        *)
Whole(r) == Coherent(r) /\ (r.files \/ r.lines = {})

(* Sessions have distinct natural numbers, and there are finitely many.    *)
LEMMA SessionMapElements ==
    ASSUME NEW S \in SessionMaps
    PROVE  /\ DOMAIN S \in SUBSET Nat /\ IsFiniteSet(DOMAIN S)
           /\ S \in [DOMAIN S -> SessionSet] /\ IsSessions(S)
  BY DEF SessionMaps, IsSessions

(* A map of sessions is made of a finite set of numbers.                   *)
LEMMA SessionMapOf ==
    ASSUME NEW D \in SUBSET Nat, IsFiniteSet(D), NEW S \in [D -> SessionSet]
    PROVE  S \in SessionMaps
  BY DEF SessionMaps

(* The search of next_session_number ends, with a number that is free.     *)
LEMMA NextNumber ==
    ASSUME NEW S \in SessionMaps
    PROVE  /\ NextSessionNumber(S) \in Nat
           /\ NextSessionNumber(S) \notin DOMAIN S
           /\ NextSessionNumber(S) = 0 => DOMAIN S = {}
<1> DEFINE k == Cardinality(DOMAIN S)
           Free(n) == /\ n \notin DOMAIN S
                      /\ \A m \in k .. (n - 1) : m \in DOMAIN S
           A == (k .. (2 * k)) \ DOMAIN S
<1>1. DOMAIN S \in SUBSET Nat /\ IsFiniteSet(DOMAIN S) /\ k \in Nat
  BY SessionMapElements, FS_CardinalityType
<1> HIDE DEF k
<1>2. A # {}
  <2> SUFFICES ASSUME k .. (2 * k) \subseteq DOMAIN S PROVE FALSE
    OBVIOUS
  <2>1. Cardinality(k .. (2 * k)) = k + 1
    <3>1. k \in Int /\ 2 * k \in Int /\ ~(k > 2 * k) /\ (2 * k) - k + 1 = k + 1
      BY <1>1
    <3> QED
      BY <3>1, FS_Interval
  <2>2. Cardinality(k .. (2 * k)) <= k
    BY <1>1, FS_Subset DEF k
  <2> QED
    BY <1>1, <2>1, <2>2
<1>3. PICK n \in A : \A j \in A : ~(<<j, n>> \in OpToRel(<, Nat))
  <2>1. A \in SUBSET Nat
    BY <1>1
  <2> HIDE DEF A
  <2> QED
    BY <1>2, <2>1, WFMin, NatLessThanWellFounded
<1>4. n \in k .. (2 * k) /\ Free(n)
  <2>1. n \in Nat /\ n \in k .. (2 * k) /\ n \notin DOMAIN S
    BY <1>1
  <2>2. ASSUME NEW m \in k .. (n - 1), m \notin DOMAIN S PROVE FALSE
    <3>1. m \in A /\ m \in Nat /\ m < n
      BY <1>1, <2>1, <2>2
    <3> QED
      BY <1>3, <2>1, <3>1 DEF OpToRel
  <2> QED
    BY <2>1, <2>2
<1>5. NextSessionNumber(S) = CHOOSE i \in k .. (2 * k) : Free(i)
  BY DEF NextSessionNumber, k
<1>6. NextSessionNumber(S) \in k .. (2 * k) /\ Free(NextSessionNumber(S))
  BY <1>4, <1>5
<1>7. NextSessionNumber(S) = 0 => k = 0
  BY <1>1, <1>6
<1>8. k = 0 => DOMAIN S = {}
  BY <1>1, FS_EmptySet DEF k
<1> QED
  BY <1>1, <1>6, <1>7, <1>8

(* Deleting sessions takes their line records along, and nothing else.     *)
LEMMA DeleteSessions ==
    ASSUME NEW r \in Reports, NEW D
    PROVE  LET q == DeleteMultipleSessions(r, D) IN
           /\ q \in Reports
           /\ DOMAIN q.sessions = DOMAIN r.sessions \ D
           /\ \A n \in DOMAIN q.sessions : q.sessions[n] = r.sessions[n]
           /\ Whole(r) => Whole(q)
<1> DEFINE S == r.sessions
           T == [n \in DOMAIN S \ D |-> S[n]]
           left == {l \in r.lines : l[1] \notin D}
           q == DeleteMultipleSessions(r, D)
<1>1. S \in SessionMaps /\ r.files \in BOOLEAN /\ r.lines \in SUBSET (Nat \X Uploads)
  BY DEF Reports
<1>2. DOMAIN S \in SUBSET Nat /\ IsFiniteSet(DOMAIN S) /\ S \in [DOMAIN S -> SessionSet]
  BY <1>1, SessionMapElements
<1>3. q = [sessions |-> T, files |-> r.files /\ left # {}, lines |-> left]
  BY DEF DeleteMultipleSessions
<1> HIDE DEF q
<1>4. q.sessions = T /\ q.files = (r.files /\ left # {}) /\ q.lines = left
  BY <1>3
<1>5. T \in [DOMAIN S \ D -> SessionSet]
  BY <1>2
<1>6. IsFiniteSet(DOMAIN S \ D) /\ DOMAIN S \ D \in SUBSET Nat
  BY <1>2, FS_Subset
<1>7. T \in SessionMaps
  <2> HIDE DEF T
  <2> QED
    BY <1>5, <1>6, SessionMapOf
<1>8. q \in Reports
  <2>1. left \in SUBSET (Nat \X Uploads) /\ (r.files /\ left # {}) \in BOOLEAN
    BY <1>1
  <2> HIDE DEF T, left
  <2> QED
    BY <1>3, <1>7, <2>1 DEF Reports
<1>9. DOMAIN T = DOMAIN S \ D /\ \A n \in DOMAIN T : T[n] = S[n]
  OBVIOUS
<1>10. ASSUME Whole(r) PROVE Whole(q)
  <2>1. r.lines = {<<n, S[n].src>> : n \in DOMAIN S} /\ (r.files \/ r.lines = {})
    BY <1>10 DEF Whole, Coherent
  <2>2. left = {<<n, S[n].src>> : n \in DOMAIN S \ D}
    BY <2>1
  <2>3. left = {<<n, T[n].src>> : n \in DOMAIN T}
    <3> HIDE DEF left
    <3> QED
      BY <2>2
  <2>4. q.files \/ q.lines = {}
    BY <1>4, <2>1
  <2> HIDE DEF left, T
  <2> QED
    BY <1>4, <2>3, <2>4 DEF Whole, Coherent
<1> HIDE DEF T
<1> QED
  BY <1>4, <1>8, <1>9, <1>10 DEF q

(* Sessions that are carried forward are marked as such.                   *)
AllCarried(S) == \A n \in DOMAIN S : S[n].cf

(* A report without sessions.                                              *)
LEMMA EmptyReportIsWhole ==
    /\ EmptyReport \in Reports /\ Whole(EmptyReport)
    /\ EmptyReport.sessions = NoSessions /\ DOMAIN NoSessions = {}
    /\ NoSessions \in SessionMaps /\ AllCarried(EmptyReport.sessions)
<1>1. NoSessions \in [{} -> SessionSet] /\ DOMAIN NoSessions = {}
  BY DEF NoSessions
<1>2. NoSessions \in SessionMaps
  BY <1>1, FS_EmptySet, SessionMapOf
<1>3. /\ EmptyReport.sessions = NoSessions /\ EmptyReport.files = FALSE
      /\ EmptyReport.lines = {}
  BY DEF EmptyReport
<1>4. EmptyReport \in Reports
  BY <1>2 DEF EmptyReport, Reports
<1> QED
  BY <1>1, <1>2, <1>3, <1>4 DEF Whole, Coherent, AllCarried

(* generate_carryforward_report: a whole report yields a whole report.     *)
LEMMA CarriedReport ==
    ASSUME NEW r \in Reports
    PROVE  LET g == GenerateCarryforwardReport(r) IN
           /\ g \in Reports
           /\ AllCarried(g.sessions)
           /\ Whole(r) => Whole(g)
<1> DEFINE D == {n \in DOMAIN r.sessions :
                    FlagsOf[r.sessions[n].src] \cap CarryFlags = {}}
           kept == DeleteMultipleSessions(r, D)
           T == [n \in DOMAIN kept.sessions |->
                    [src |-> kept.sessions[n].src, cf |-> TRUE]]
           g == GenerateCarryforwardReport(r)
<1>1. kept \in Reports /\ (Whole(r) => Whole(kept))
  BY DeleteSessions
<1>2. g = EmptyReport \/ g = [kept EXCEPT !.sessions = T]
  BY DEF GenerateCarryforwardReport
<1> HIDE DEF kept, g
<1>3. EmptyReport \in Reports /\ Whole(EmptyReport) /\ AllCarried(EmptyReport.sessions)
  BY EmptyReportIsWhole
<1>4. /\ kept.sessions \in SessionMaps /\ kept.files \in BOOLEAN
      /\ kept.lines \in SUBSET (Nat \X Uploads)
      /\ kept = [sessions |-> kept.sessions, files |-> kept.files, lines |-> kept.lines]
  BY <1>1 DEF Reports
<1>5. /\ DOMAIN kept.sessions \in SUBSET Nat /\ IsFiniteSet(DOMAIN kept.sessions)
      /\ kept.sessions \in [DOMAIN kept.sessions -> SessionSet]
  BY <1>4, SessionMapElements
<1>6. \A n \in DOMAIN kept.sessions : kept.sessions[n].src \in Uploads
  BY <1>5 DEF SessionSet
<1>7. /\ DOMAIN T = DOMAIN kept.sessions /\ T \in [DOMAIN kept.sessions -> SessionSet]
      /\ \A n \in DOMAIN T : T[n].cf /\ T[n].src = kept.sessions[n].src
  BY <1>6 DEF SessionSet
<1> HIDE DEF T
<1>8. T \in SessionMaps
  BY <1>5, <1>7, SessionMapOf
<1>9. CASE g = [kept EXCEPT !.sessions = T]
  <2>1. g = [sessions |-> T, files |-> kept.files, lines |-> kept.lines]
    BY <1>4, <1>9
  <2>2. g \in Reports
    BY <1>4, <1>8, <2>1 DEF Reports
  <2>3. g.sessions = T /\ g.files = kept.files /\ g.lines = kept.lines
    BY <2>1
  <2>4. Whole(kept) => Whole(g)
    BY <1>7, <2>3 DEF Whole, Coherent
  <2> QED
    BY <1>1, <1>7, <2>2, <2>3, <2>4 DEF AllCarried, g
<1> QED
  BY <1>2, <1>3, <1>9 DEF g

-----------------------------------------------------------------------------
(* merge_reports.                                                          *)

Merges ==
    [report : Reports, m : UNION {[D -> Nat] : D \in SUBSET Uploads}]

Uploaded(u) == [src |-> u, cf |-> FALSE]

(* b is what the round of upload u makes of a: its session has a number    *)
(* that was free.                                                          *)
Adds(a, b, u) ==
    \E n \in Nat \ DOMAIN a.report.sessions :
        /\ DOMAIN b.report.sessions = DOMAIN a.report.sessions \cup {n}
        /\ \A i \in DOMAIN a.report.sessions :
            b.report.sessions[i] = a.report.sessions[i]
        /\ b.report.sessions[n] = Uploaded(u)
        /\ DOMAIN b.m = DOMAIN a.m \cup {u}
        /\ \A v \in DOMAIN a.m : v # u => b.m[v] = a.m[v]
        /\ b.m[u] = n

(* One round of the loop in merge_reports.                                 *)
LEMMA MergeRound ==
    ASSUME NEW a \in Merges, NEW u \in Uploads
    PROVE  LET b == MergeOne(a, u) IN
           /\ b \in Merges
           /\ IF u \in Failed \cup Hollow THEN b = a ELSE Adds(a, b, u)
           /\ Whole(a.report) => Whole(b.report)
<1> DEFINE b == MergeOne(a, u)
           r == a.report
           S == r.sessions
           n == NextSessionNumber(S)
           D == DOMAIN S \cup {n}
           T == [i \in D |-> IF i = n THEN Uploaded(u) ELSE S[i]]
           L == r.lines \cup {<<n, u>>}
           M == [v \in DOMAIN a.m \cup {u} |-> IF v = u THEN n ELSE a.m[v]]
<1>1. CASE u \in Failed \cup Hollow
  BY <1>1 DEF MergeOne
<1>2. CASE u \notin Failed \cup Hollow
  <2>1. r \in Reports /\ a.m \in UNION {[E -> Nat] : E \in SUBSET Uploads}
    BY DEF Merges
  <2>2. PICK E \in SUBSET Uploads : a.m \in [E -> Nat]
    BY <2>1
  <2>3. S \in SessionMaps /\ r.files \in BOOLEAN /\ r.lines \in SUBSET (Nat \X Uploads)
    BY <2>1 DEF Reports
  <2>4. DOMAIN S \in SUBSET Nat /\ IsFiniteSet(DOMAIN S) /\ S \in [DOMAIN S -> SessionSet]
    BY <2>3, SessionMapElements
  <2>5. n \in Nat /\ n \notin DOMAIN S /\ (n = 0 => DOMAIN S = {})
    BY <2>3, NextNumber
  <2>6. b = [m |-> M,
             report |-> IF ~r.files /\ n = 0
                        THEN [sessions |-> [i \in {0} |-> Uploaded(u)], files |-> TRUE,
                              lines |-> {<<0, u>>}]
                        ELSE [sessions |-> T, files |-> TRUE, lines |-> L]]
    BY <1>2 DEF MergeOne, Uploaded
  <2> HIDE DEF b, n
  <2>7. Uploaded(u) \in SessionSet
    BY DEF Uploaded, SessionSet
  <2>8. T \in [D -> SessionSet] /\ D \in SUBSET Nat /\ IsFiniteSet(D)
    <3>1. T \in [D -> SessionSet]
      BY <2>4, <2>7
    <3>2. D \in SUBSET Nat
      BY <2>4, <2>5
    <3>3. IsFiniteSet(D)
      BY <2>4, <2>5, FS_AddElement
    <3> QED
      BY <3>1, <3>2, <3>3
  <2>9. T \in SessionMaps
    <3> HIDE DEF T, D
    <3> QED
      BY <2>8, SessionMapOf
  <2>10. /\ DOMAIN T = D /\ T[n] = Uploaded(u)
         /\ \A i \in DOMAIN S : T[i] = S[i]
    BY <2>5
  <2>11. n = 0 => T = [i \in {0} |-> Uploaded(u)]
    BY <2>5
  <2>12. b.m = M /\ b.report.sessions = T /\ b.report.files = TRUE
         /\ b.report.lines = IF ~r.files /\ n = 0 THEN {<<0, u>>} ELSE L
    <3> HIDE DEF T, L, M
    <3>1. b.m = M
      BY <2>6
    <3>2. CASE ~r.files /\ n = 0
      BY <2>6, <2>11, <3>1, <3>2
    <3>3. CASE ~(~r.files /\ n = 0)
      BY <2>6, <3>1, <3>3
    <3> QED
      BY <3>2, <3>3
  <2>13. b.report.lines \in SUBSET (Nat \X Uploads)
    <3>1. L \in SUBSET (Nat \X Uploads) /\ {<<0, u>>} \in SUBSET (Nat \X Uploads)
      BY <2>3, <2>5
    <3> HIDE DEF L
    <3> QED
      BY <2>12, <3>1
  <2>14. b = [report |-> b.report, m |-> b.m]
         /\ b.report = [sessions |-> b.report.sessions, files |-> b.report.files,
                        lines |-> b.report.lines]
    <3> HIDE DEF T, L, M
    <3> QED
      BY <2>6
  <2>15. /\ DOMAIN M = DOMAIN a.m \cup {u} /\ M[u] = n
         /\ \A v \in DOMAIN a.m : v # u => M[v] = a.m[v]
         /\ M \in [E \cup {u} -> Nat]
    BY <2>2, <2>5
  <2>16. b \in Merges
    <3>1. M \in UNION {[F -> Nat] : F \in SUBSET Uploads}
      <4>1. E \cup {u} \in SUBSET Uploads
        OBVIOUS
      <4> HIDE DEF M
      <4> QED
        BY <2>15, <4>1
    <3> HIDE DEF T, L, M
    <3>2. b.report \in Reports
      BY <2>9, <2>12, <2>13, <2>14 DEF Reports
    <3> QED
      BY <2>12, <2>14, <3>1, <3>2 DEF Merges
  <2>17. Adds(a, b, u)
    <3> HIDE DEF T, L, M
    <3>1. n \in Nat \ DOMAIN a.report.sessions
      BY <2>5
    <3> QED
      BY <2>10, <2>12, <2>15, <3>1 DEF Adds
  <2>18. ASSUME Whole(r) PROVE Whole(b.report)
    <3>1. r.lines = {<<i, S[i].src>> : i \in DOMAIN S} /\ (r.files \/ r.lines = {})
      BY <2>18 DEF Whole, Coherent
    <3>2. L = {<<i, T[i].src>> : i \in DOMAIN T}
      <4>1. Uploaded(u).src = u
        BY DEF Uploaded
      <4> HIDE DEF T
      <4> QED
        BY <2>5, <2>10, <3>1, <4>1
    <3>3. b.report.lines = L
      <4>1. CASE ~r.files /\ n = 0
        BY <2>12, <3>1, <4>1
      <4>2. CASE ~(~r.files /\ n = 0)
        BY <2>12, <4>2
      <4> QED
        BY <4>1, <4>2
    <3> HIDE DEF T, L
    <3> QED
      BY <2>12, <3>2, <3>3 DEF Whole, Coherent
  <2> QED
    BY <1>2, <2>16, <2>17, <2>18 DEF b
<1> QED
  BY <1>1, <1>2

(* q is r with one session more for each of the uploads W.                 *)
Merged(r, q, W) ==
    /\ DOMAIN q.m = W
    /\ \A n \in DOMAIN r.sessions :
        n \in DOMAIN q.report.sessions /\ q.report.sessions[n] = r.sessions[n]
    /\ \A u \in W :
        /\ q.m[u] \in DOMAIN q.report.sessions \ DOMAIN r.sessions
        /\ q.report.sessions[q.m[u]] = Uploaded(u)
    /\ \A n \in DOMAIN q.report.sessions \ DOMAIN r.sessions :
        \E u \in W : q.m[u] = n

(* A round adds one.                                                       *)
LEMMA MergedStep ==
    ASSUME NEW r \in Reports, NEW a \in Merges, NEW b \in Merges, NEW W,
           Merged(r, a, W), NEW u, u \notin W, Adds(a, b, u)
    PROVE  Merged(r, b, W \cup {u})
<1> DEFINE A == a.report.sessions
           B == b.report.sessions
<1>1. PICK n \in Nat \ DOMAIN A :
        /\ DOMAIN B = DOMAIN A \cup {n}
        /\ \A i \in DOMAIN A : B[i] = A[i]
        /\ B[n] = Uploaded(u)
        /\ DOMAIN b.m = DOMAIN a.m \cup {u}
        /\ \A v \in DOMAIN a.m : v # u => b.m[v] = a.m[v]
        /\ b.m[u] = n
  BY DEF Adds
<1>2. /\ DOMAIN a.m = W
      /\ \A i \in DOMAIN r.sessions : i \in DOMAIN A /\ A[i] = r.sessions[i]
      /\ \A v \in W : a.m[v] \in DOMAIN A \ DOMAIN r.sessions /\ A[a.m[v]] = Uploaded(v)
      /\ \A i \in DOMAIN A \ DOMAIN r.sessions : \E v \in W : a.m[v] = i
  BY DEF Merged
<1> HIDE DEF A, B
<1>3. DOMAIN b.m = W \cup {u}
  BY <1>1, <1>2
<1>4. \A i \in DOMAIN r.sessions : i \in DOMAIN B /\ B[i] = r.sessions[i]
  BY <1>1, <1>2
<1>5. \A v \in W \cup {u} : /\ b.m[v] \in DOMAIN B \ DOMAIN r.sessions
                            /\ B[b.m[v]] = Uploaded(v)
  BY <1>1, <1>2
<1>6. \A i \in DOMAIN B \ DOMAIN r.sessions : \E v \in W \cup {u} : b.m[v] = i
  BY <1>1, <1>2
<1> QED
  BY <1>3, <1>4, <1>5, <1>6 DEF Merged, A, B

(* What merge_reports starts from.                                         *)
Kept(r, f) ==
    IF ClearedSessions(r, f) = {} THEN r
    ELSE DeleteMultipleSessions(r, ClearedSessions(r, f))

(* Sessions that share no carryforward flag with the batch stay.           *)
LEMMA KeptReport ==
    ASSUME NEW r \in Reports, NEW f
    PROVE  /\ Kept(r, f) \in Reports
           /\ DOMAIN Kept(r, f).sessions = DOMAIN r.sessions \ ClearedSessions(r, f)
           /\ \A n \in DOMAIN Kept(r, f).sessions :
                Kept(r, f).sessions[n] = r.sessions[n]
           /\ Whole(r) => Whole(Kept(r, f))
<1> DEFINE D == ClearedSessions(r, f)
<1> HIDE DEF D
<1>1. CASE D = {}
  <2>1. Kept(r, f) = r
    BY <1>1 DEF Kept, D
  <2> QED
    BY <1>1, <2>1 DEF D
<1>2. CASE D # {}
  <2>1. Kept(r, f) = DeleteMultipleSessions(r, D)
    BY <1>2 DEF Kept, D
  <2> QED
    BY <2>1, DeleteSessions DEF D
<1> QED
  BY <1>1, <1>2

(* merge_reports adds one session for each upload of the batch that has    *)
(* coverage, to a report without the sessions that these supersede.        *)
LEMMA MergeResult ==
    ASSUME NEW r \in Reports, NEW f \in FinTasks
    PROVE  LET q == MergeReports(r, f) IN
           /\ q \in Merges
           /\ Merged(Kept(r, f), q, Covered(f))
           /\ Whole(r) => Whole(q.report)
<1> DEFINE N == Len(Batch[f])
           t == [report |-> Kept(r, f), m |-> [u \in {} |-> 0]]
           After(g) == g = [i \in 0 .. Len(Batch[f]) |->
                              IF i = 0 THEN t ELSE MergeOne(g[i - 1], Batch[f][i])]
           step == [i \in Nat |-> [x \in Merges |->
                     IF i \in 1 .. N THEN MergeOne(x, Batch[f][i]) ELSE x]]
           after == CHOOSE g : After(g)
           k == Kept(r, f)
           q == MergeReports(r, f)
<1>1. Batch[f] \in Seq(Uploads) /\ N \in Nat /\ DOMAIN Batch[f] = 1 .. N
      /\ \A i \in 1 .. N : Batch[f][i] \in Uploads
  BY TaskAssumption
<1>2. q = after[N]
  BY DEF MergeReports, Kept
<1>3. k \in Reports /\ (Whole(r) => Whole(k))
  BY KeptReport
<1> HIDE DEF k, N, q
<1>4. t.report = k /\ DOMAIN t.m = {} /\ t \in Merges
  <2>1. [u \in {} |-> 0] \in [{} -> Nat]
    OBVIOUS
  <2>2. [u \in {} |-> 0] \in UNION {[D -> Nat] : D \in SUBSET Uploads}
    BY <2>1
  <2> QED
    BY <1>3, <2>2 DEF Merges, k
<1> HIDE DEF t
<1>5. ASSUME NEW x \in Merges, NEW i \in 1 .. N
      PROVE  /\ MergeOne(x, Batch[f][i]) \in Merges
             /\ IF Batch[f][i] \in Failed \cup Hollow THEN MergeOne(x, Batch[f][i]) = x
                ELSE Adds(x, MergeOne(x, Batch[f][i]), Batch[f][i])
             /\ Whole(x.report) => Whole(MergeOne(x, Batch[f][i]).report)
  BY <1>1, MergeRound
<1>6. step \in Steps(Merges)
  BY <1>5 DEF Steps
<1>7. PICK g : IsRecursion(g, N, Merges, t, step)
  <2> HIDE DEF step
  <2> QED
    BY <1>1, <1>4, <1>6, RecursionExists, Zenon
<1>8. /\ g \in [0 .. N -> Merges] /\ g[0] = t
      /\ \A i \in 1 .. N : g[i] = MergeOne(g[i - 1], Batch[f][i])
  <2>1. /\ g \in [0 .. N -> Merges] /\ g[0] = t
        /\ \A i \in 1 .. N : g[i] = step[i][g[i - 1]]
    BY <1>7 DEF IsRecursion
  <2>2. ASSUME NEW i \in 1 .. N
        PROVE  step[i][g[i - 1]] = MergeOne(g[i - 1], Batch[f][i])
    <3>1. i \in Nat /\ g[i - 1] \in Merges
      BY <1>1, <2>1
    <3> QED
      BY <3>1
  <2> QED
    BY <2>1, <2>2
<1>9. After(g)
  <2>1. \A i \in 0 .. N : i # 0 => i \in 1 .. N
    BY <1>1
  <2> QED
    BY <1>8, <2>1 DEF N
<1>10. After(after)
  BY <1>9
<1> HIDE DEF after
<1>11. /\ after[0] = t
       /\ \A i \in 1 .. N : after[i] = MergeOne(after[i - 1], Batch[f][i])
  BY <1>1, <1>10 DEF N
<1> DEFINE seen(n) == {Batch[f][j] : j \in 1 .. n} \ (Failed \cup Hollow)
           T == {n \in Nat : n <= N =>
                    /\ after[n] \in Merges
                    /\ Merged(k, after[n], seen(n))
                    /\ Whole(r) => Whole(after[n].report)}
<1>12. 0 \in T
  <2>1. seen(0) = {}
    OBVIOUS
  <2>2. Merged(k, t, {})
    BY <1>4 DEF Merged
  <2> HIDE DEF seen
  <2> QED
    BY <1>3, <1>4, <1>11, <2>1, <2>2
<1>13. ASSUME NEW n \in Nat, n \in T PROVE n + 1 \in T
  <2> SUFFICES ASSUME n + 1 <= N
               PROVE  /\ after[n + 1] \in Merges
                      /\ Merged(k, after[n + 1], seen(n + 1))
                      /\ Whole(r) => Whole(after[n + 1].report)
    OBVIOUS
  <2> DEFINE u == Batch[f][n + 1]
  <2>1. /\ n + 1 \in 1 .. N /\ (n + 1) - 1 = n /\ after[n] \in Merges
        /\ Merged(k, after[n], seen(n))
        /\ Whole(r) => Whole(after[n].report)
    BY <1>1, <1>13
  <2>2. after[n + 1] = MergeOne(after[n], u)
    BY <1>11, <2>1
  <2>3. /\ after[n + 1] \in Merges
        /\ IF u \in Failed \cup Hollow THEN after[n + 1] = after[n]
           ELSE Adds(after[n], after[n + 1], u)
        /\ Whole(after[n].report) => Whole(after[n + 1].report)
    BY <1>5, <2>1, <2>2
  <2>4. /\ u \notin {Batch[f][j] : j \in 1 .. n}
        /\ {Batch[f][j] : j \in 1 .. (n + 1)} = {Batch[f][j] : j \in 1 .. n} \cup {u}
    <3>1. \A j \in 1 .. n : j \in 1 .. N /\ j # n + 1
      BY <1>1, <2>1
    <3>2. 1 .. (n + 1) = (1 .. n) \cup {n + 1}
      OBVIOUS
    <3>3. \A i, j \in 1 .. N : Batch[f][i] = Batch[f][j] => i = j
      BY <1>1, BatchAssumption
    <3> QED
      BY <2>1, <3>1, <3>2, <3>3
  <2>5. CASE u \in Failed \cup Hollow
    <3>1. seen(n + 1) = seen(n)
      BY <2>4, <2>5
    <3> HIDE DEF seen, u
    <3> QED
      BY <2>1, <2>3, <2>5, <3>1
  <2>6. CASE u \notin Failed \cup Hollow
    <3>1. seen(n + 1) = seen(n) \cup {u} /\ u \notin seen(n)
      BY <2>4, <2>6
    <3> HIDE DEF seen, u
    <3>2. Merged(k, after[n + 1], seen(n) \cup {u})
      BY <1>3, <2>1, <2>3, <2>6, <3>1, MergedStep
    <3> QED
      BY <2>1, <2>3, <3>1, <3>2
  <2> QED
    BY <2>5, <2>6
<1>14. Nat \subseteq T
  <2> HIDE DEF T
  <2> QED
    BY <1>12, <1>13, InductionOnSet
<1>15. /\ q \in Merges /\ Merged(k, q, seen(N)) /\ (Whole(r) => Whole(q.report))
  <2> HIDE DEF seen
  <2>1. N \in T
    <3> HIDE DEF T
    <3> QED
      BY <1>1, <1>14
  <2> QED
    BY <1>1, <1>2, <2>1
<1>16. seen(N) = Covered(f)
  BY <1>1 DEF Covered, Range
<1> QED
  BY <1>15, <1>16 DEF q, k

-----------------------------------------------------------------------------
(* The inductive invariant.                                                *)

CarriedRowSet == [commit : Commits, order : Nat, src : Uploads, by : InitTasks]

Txs == [order : UNION {[D -> Nat \cup {None}] : D \in SUBSET Uploads},
        deleted : SUBSET CarriedRowSet]

InitPcs == {"new", "waiting", "locked", "reading", "carrying", "chunks", "json",
            "done", "dead"}
FinPcs  == {"new", "waiting", "reading", "merged", "chunks", "json", "done", "dead"}

TypeInv ==
    /\ chunks \in [Commits -> SUBSET (Nat \X Uploads)]
    /\ json \in [Commits -> [sessions : SessionMaps, files : BOOLEAN]]
    /\ hasReport \in [Commits -> BOOLEAN]
    /\ state \in [Commits -> {"pending", "complete", "error"}]
    /\ cfRows \in SUBSET CarriedRowSet
    /\ order \in [Uploads -> Nat \cup {None}]
    /\ uState \in [Uploads -> {"uploaded", "processed", "error"}]
    /\ pc \in [Tasks -> InitPcs \cup FinPcs]
    /\ \A t \in InitTasks : pc[t] \in InitPcs
    /\ \A f \in FinTasks : pc[f] \in FinPcs
    /\ known \in [FinTasks -> BOOLEAN]
    /\ mem \in [Tasks -> Reports]
    /\ base \in [InitTasks -> Commits \cup {None}]
    /\ \A t \in InitTasks : pc[t] = "reading" => base[t] \in Commits
    /\ tx \in [FinTasks -> Txs]
    /\ preLock \in [Commits -> PreTasks \cup {None}]
    /\ \A c \in Commits : preLock[c] # None => CommitOf[preLock[c]] = c
    /\ reportLock \in [Commits -> FinTasks \cup {None}]
    /\ \A c \in Commits : reportLock[c] # None => CommitOf[reportLock[c]] = c
    /\ faults \in 0 .. MaxFaults /\ damaged \in BOOLEAN

(* A finisher has the report lock from reading the report to its end, and  *)
(* maybe still when it is dead.                                            *)
LockInv ==
    \A f \in FinTasks :
        pc[f] \in {"reading", "merged"} \cup Saving => reportLock[CommitOf[f]] = f

NobodySaves(c) == \A t \in Tasks : CommitOf[t] = c => pc[t] \notin Saving

(* An uploaded session supersedes carried-forward ones.                    *)
Superseded(S) ==
    \A m, n \in DOMAIN S :
        S[m].cf /\ ~S[n].cf =>
            FlagsOf[S[m].src] \cap FlagsOf[S[n].src] \cap CarryFlags = {}

(* The sessions of S stay in T, or are superseded there.                   *)
Stays(S, T) ==
    \A n \in DOMAIN S :
        \/ n \in DOMAIN T /\ T[n] = S[n]
        \/ S[n].cf /\ \E m \in DOMAIN T :
            ~T[m].cf /\ FlagsOf[T[m].src] \cap FlagsOf[S[n].src] \cap CarryFlags # {}

(* Sessions S, carried-forward rows R and order numbers O correspond, for  *)
(* commit c.                                                               *)
Match(c, S, R, O) ==
    /\ \A w \in R : w.commit = c =>
        w.order \in DOMAIN S /\ S[w.order] = [src |-> w.src, cf |-> TRUE]
    /\ \A n \in DOMAIN S :
        IF S[n].cf THEN Cardinality({w \in R : w.commit = c /\ w.order = n}) = 1
                   ELSE O[S[n].src] = n
    /\ \A f \in FinTasks : CommitOf[f] = c => \A u \in Range(Batch[f]) :
        O[u] # None => O[u] \in DOMAIN S /\ S[O[u]] = Uploaded(u)

(* Who saves a report, saves alone and has read what it overwrites.        *)
SaveInv(t) ==
    ~damaged /\ pc[t] \in Saving =>
        /\ \A o \in Tasks : CommitOf[o] = CommitOf[t] /\ pc[o] \in Saving => o = t
        /\ hasReport[CommitOf[t]] => t \in FinTasks /\ known[t]
        /\ chunks[CommitOf[t]] = mem[t].lines
        /\ pc[t] = "json" => /\ json[CommitOf[t]].sessions = mem[t].sessions
                             /\ json[CommitOf[t]].files = mem[t].files

(* What is going to be saved is a proper report.                           *)
MemInv(t) ==
    ~damaged /\ pc[t] \in {"carrying", "merged"} \cup Saving =>
        /\ Whole(mem[t]) /\ Superseded(mem[t].sessions)
        /\ t \in InitTasks => AllCarried(mem[t].sessions)

(* What has been saved is a proper report, and the rows are those of it.   *)
StoreInv(c) ==
    ~damaged /\ hasReport[c] /\ NobodySaves(c) =>
        /\ Coherent(FromChunks(chunks[c], json[c]))
        /\ Superseded(json[c].sessions)
        /\ Match(c, json[c].sessions, cfRows, order)

(* There are no rows of sessions before there is a report, and no numbers  *)
(* of uploads that were not merged.                                        *)
RowInv ==
    /\ \A w \in cfRows : hasReport[w.commit]
    /\ ~damaged => \A f \in FinTasks : ~hasReport[CommitOf[f]] =>
        \A u \in Range(Batch[f]) : order[u] = None

(* Order numbers once the row changes of f are committed.                  *)
OrderAfter(f) ==
    [u \in Uploads |-> IF u \in DOMAIN tx[f].order THEN tx[f].order[u] ELSE order[u]]

(* The chunks that a finisher has read are still those of the json that it *)
(* is going to read.                                                       *)
ReadInv(f) ==
    /\ known[f] => hasReport[CommitOf[f]]
    /\ ~damaged /\ pc[f] = "reading" /\ known[f] => mem[f].lines = chunks[CommitOf[f]]

(* The json that a finisher is going to overwrite is the one it has merged.*)
StayInv(f) ==
    ~damaged /\ pc[f] \in {"merged", "chunks"} /\ known[f] =>
        Stays(json[CommitOf[f]].sessions, mem[f].sessions)

(* A finisher changes no rows but its own, and those as its report needs.  *)
TxInv(f) ==
    /\ pc[f] # "done" => \A u \in Range(Batch[f]) : order[u] = None
    /\ DOMAIN tx[f].order \subseteq Range(Batch[f])
    /\ \A w \in tx[f].deleted : w.commit = CommitOf[f]
    /\ /\ ~damaged
       /\ pc[f] \in {"merged"} \cup Saving
       /\ hasReport[CommitOf[f]] => known[f]
       => Match(CommitOf[f], mem[f].sessions, cfRows \ tx[f].deleted, OrderAfter(f))

FinInv(f) == ReadInv(f) /\ StayInv(f) /\ TxInv(f)

StateInv ==
    /\ \A t \in Tasks : SaveInv(t) /\ MemInv(t)
    /\ \A c \in Commits : StoreInv(c)
    /\ \A f \in FinTasks : FinInv(f)
    /\ RowInv

-----------------------------------------------------------------------------
(* Merging and the sessions that were there before.                        *)

(* Uploaded sessions stay, and carried-forward ones go only for uploads    *)
(* with coverage for their flags, but then all of them.                    *)
LEMMA MergeSupersedes ==
    ASSUME NEW r \in Reports, NEW f \in FinTasks, Whole(r), Superseded(r.sessions)
    PROVE  /\ Superseded(MergeReports(r, f).report.sessions)
           /\ Stays(r.sessions, MergeReports(r, f).report.sessions)
<1> DEFINE q == MergeReports(r, f)
           S == r.sessions
           K == Kept(r, f).sessions
           T == q.report.sessions
           shares(u, v) == FlagsOf[u] \cap FlagsOf[v] \cap CarryFlags # {}
<1>1. Merged(Kept(r, f), q, Covered(f))
  BY MergeResult
<1>2. /\ \A n \in DOMAIN K : n \in DOMAIN T /\ T[n] = K[n]
      /\ \A u \in Covered(f) : q.m[u] \in DOMAIN T \ DOMAIN K /\ T[q.m[u]] = Uploaded(u)
      /\ \A n \in DOMAIN T \ DOMAIN K : \E u \in Covered(f) : q.m[u] = n
  BY <1>1 DEF Merged
<1>3. /\ DOMAIN K = DOMAIN S \ ClearedSessions(r, f)
      /\ \A n \in DOMAIN K : K[n] = S[n]
  BY KeptReport
<1>4. \A u : Uploaded(u).src = u /\ Uploaded(u).cf = FALSE
  BY DEF Uploaded
<1>5. r.files \/ DOMAIN S = {}
  BY DEF Whole, Coherent
<1>6. \A n \in DOMAIN S : n \in ClearedSessions(r, f) <=>
        S[n].cf /\ \E u \in Covered(f) : shares(u, S[n].src)
  <2> DEFINE fs == (UNION {FlagsOf[u] : u \in Covered(f)}) \cap CarryFlags
  <2>0. \A y : y \in fs <=> y \in CarryFlags /\ \E u \in Covered(f) : y \in FlagsOf[u]
    OBVIOUS
  <2> HIDE DEF fs
  <2>1. ASSUME NEW v
        PROVE  FlagsOf[v] \cap fs # {} <=> \E u \in Covered(f) : shares(u, v)
    <3>1. ASSUME FlagsOf[v] \cap fs # {} PROVE \E u \in Covered(f) : shares(u, v)
      <4>1. PICK y : y \in FlagsOf[v] /\ y \in fs
        BY <3>1
      <4>2. PICK u \in Covered(f) : y \in FlagsOf[u]
        BY <2>0, <4>1
      <4>3. y \in FlagsOf[u] \cap FlagsOf[v] \cap CarryFlags
        BY <2>0, <4>1, <4>2
      <4> QED
        BY <4>3
    <3>2. ASSUME NEW u \in Covered(f), shares(u, v) PROVE FlagsOf[v] \cap fs # {}
      <4>1. PICK y : y \in FlagsOf[u] \cap FlagsOf[v] \cap CarryFlags
        BY <3>2
      <4>2. y \in FlagsOf[v] \cap fs
        BY <2>0, <4>1
      <4> QED
        BY <4>2
    <3> QED
      BY <3>1, <3>2
  <2>2. ClearedSessions(r, f) = {n \in DOMAIN S :
            r.files /\ S[n].cf /\ FlagsOf[S[n].src] \cap fs # {}}
    BY DEF ClearedSessions, fs
  <2> HIDE DEF shares
  <2> QED
    BY <1>5, <2>1, <2>2
<1> HIDE DEF q, K, T
<1>7. ASSUME NEW m \in DOMAIN T, NEW n \in DOMAIN T, T[m].cf, ~T[n].cf
      PROVE  ~shares(T[m].src, T[n].src)
  <2>1. m \in DOMAIN K
    BY <1>2, <1>4, <1>7
  <2>2. m \in DOMAIN S /\ m \notin ClearedSessions(r, f) /\ T[m] = S[m]
    BY <1>2, <1>3, <2>1
  <2>3. CASE n \in DOMAIN K
    <3>1. n \in DOMAIN S /\ T[n] = S[n]
      BY <1>2, <1>3, <2>3
    <3> QED
      BY <1>7, <2>2, <3>1 DEF Superseded
  <2>4. CASE n \notin DOMAIN K
    <3>1. PICK u \in Covered(f) : T[n] = Uploaded(u)
      BY <1>2, <2>4
    <3>2. ~shares(u, S[m].src)
      BY <1>6, <1>7, <2>2
    <3> QED
      BY <1>4, <2>2, <3>1, <3>2
  <2> QED
    BY <2>3, <2>4
<1>8. ASSUME NEW n \in DOMAIN S, ~(n \in DOMAIN T /\ T[n] = S[n])
      PROVE  S[n].cf /\ \E m \in DOMAIN T : ~T[m].cf /\ shares(T[m].src, S[n].src)
  <2>1. n \in ClearedSessions(r, f)
    BY <1>2, <1>3, <1>8
  <2>2. PICK u \in Covered(f) : shares(u, S[n].src)
    BY <1>6, <2>1
  <2>3. q.m[u] \in DOMAIN T /\ T[q.m[u]] = Uploaded(u)
    BY <1>2
  <2> QED
    BY <1>4, <1>6, <2>1, <2>2, <2>3
<1>9. Superseded(T)
  BY <1>7 DEF Superseded
<1>10. Stays(S, T)
  BY <1>8 DEF Stays
<1> QED
  BY <1>9, <1>10 DEF T, q

(* update_uploads keeps rows and sessions together, although numbers of    *)
(* cleared sessions are used again.                                        *)
LEMMA MergeMatches ==
    ASSUME NEW r \in Reports, NEW f \in FinTasks, NEW x,
           x = UpdateUploads(f, r, MergeReports(r, f).m),
           order \in [Uploads -> Nat \cup {None}],
           Match(CommitOf[f], r.sessions, cfRows, order),
           \A u \in Range(Batch[f]) : order[u] = None
    PROVE  Match(CommitOf[f], MergeReports(r, f).report.sessions, cfRows \ x.deleted,
                 [u \in Uploads |-> IF u \in DOMAIN x.order THEN x.order[u] ELSE order[u]])
<1> DEFINE q == MergeReports(r, f)
           c == CommitOf[f]
           S == r.sessions
           K == Kept(r, f).sessions
           T == q.report.sessions
           D == ClearedSessions(r, f)
           R == cfRows \ x.deleted
           O == [u \in Uploads |-> IF u \in DOMAIN x.order THEN x.order[u] ELSE order[u]]
<1>1. Merged(Kept(r, f), q, Covered(f))
  BY MergeResult
<1>2. /\ \A n \in DOMAIN K : n \in DOMAIN T /\ T[n] = K[n]
      /\ \A u \in Covered(f) : q.m[u] \in DOMAIN T \ DOMAIN K /\ T[q.m[u]] = Uploaded(u)
      /\ \A n \in DOMAIN T \ DOMAIN K : \E u \in Covered(f) : q.m[u] = n
      /\ DOMAIN q.m = Covered(f)
  BY <1>1 DEF Merged
<1>3. /\ DOMAIN K = DOMAIN S \ D
      /\ \A n \in DOMAIN K : K[n] = S[n]
  BY KeptReport
<1>4. \A u : Uploaded(u).src = u /\ Uploaded(u).cf = FALSE
  BY DEF Uploaded
<1>5. D \subseteq DOMAIN S /\ \A n \in D : S[n].cf
  BY DEF ClearedSessions
<1>6. /\ DOMAIN x.order = Range(Batch[f])
      /\ \A u \in Range(Batch[f]) : x.order[u] = IF u \in DOMAIN q.m THEN q.m[u] ELSE None
      /\ x.deleted = {w \in cfRows : w.commit = c /\ w.order \in D}
  BY DEF UpdateUploads
<1>7. DOMAIN S \in SUBSET Nat /\ \A n \in DOMAIN S : S[n].src \in Uploads
  <2>1. S \in SessionMaps
    BY DEF Reports
  <2> QED
    BY <2>1, SessionMapElements DEF SessionSet
<1>8. Covered(f) \subseteq Range(Batch[f]) /\ Range(Batch[f]) \subseteq Uploads
  <2>1. Batch[f] \in Seq(Uploads)
    BY TaskAssumption
  <2> QED
    BY <2>1 DEF Covered, Range
<1>9. /\ \A w \in cfRows : w.commit = c =>
           w.order \in DOMAIN S /\ S[w.order] = [src |-> w.src, cf |-> TRUE]
      /\ \A n \in DOMAIN S :
           IF S[n].cf THEN Cardinality({w \in cfRows : w.commit = c /\ w.order = n}) = 1
                      ELSE order[S[n].src] = n
      /\ \A g \in FinTasks : CommitOf[g] = c => \A u \in Range(Batch[g]) :
           order[u] # None => order[u] \in DOMAIN S /\ S[order[u]] = Uploaded(u)
  BY DEF Match
<1>10. /\ \A u \in Covered(f) : O[u] = q.m[u]
       /\ \A u \in Range(Batch[f]) : u \notin Covered(f) => O[u] = None
       /\ \A u \in Uploads : u \notin Range(Batch[f]) => O[u] = order[u]
  BY <1>2, <1>6, <1>8
<1> HIDE DEF q, K, T, D, O
<1>11. ASSUME NEW w \in R, w.commit = c
       PROVE  w.order \in DOMAIN T /\ T[w.order] = [src |-> w.src, cf |-> TRUE]
  <2>1. w.order \in DOMAIN S /\ w.order \notin D
    BY <1>6, <1>9, <1>11
  <2> QED
    BY <1>2, <1>3, <1>9, <1>11, <2>1
<1>12. ASSUME NEW n \in DOMAIN T, T[n].cf
       PROVE  Cardinality({w \in R : w.commit = c /\ w.order = n}) = 1
  <2>1. n \in DOMAIN K
    BY <1>2, <1>4, <1>12
  <2>2. n \in DOMAIN S /\ n \notin D /\ S[n].cf
    BY <1>2, <1>3, <1>12, <2>1
  <2>3. {w \in R : w.commit = c /\ w.order = n} =
          {w \in cfRows : w.commit = c /\ w.order = n}
    BY <1>6, <2>2
  <2> QED
    BY <1>9, <2>2, <2>3
<1>13. ASSUME NEW n \in DOMAIN T, ~T[n].cf PROVE O[T[n].src] = n
  <2>1. CASE n \in DOMAIN K
    <3>1. n \in DOMAIN S /\ T[n] = S[n] /\ order[S[n].src] = n
      BY <1>2, <1>3, <1>9, <1>13, <2>1
    <3>2. n # None /\ S[n].src \in Uploads
      BY <1>7, <3>1, TaskAssumption
    <3>3. S[n].src \notin Range(Batch[f])
      BY <3>1, <3>2
    <3> QED
      BY <1>10, <3>1, <3>2, <3>3
  <2>2. CASE n \notin DOMAIN K
    <3>1. PICK u \in Covered(f) : q.m[u] = n
      BY <1>2, <2>2
    <3> QED
      BY <1>2, <1>4, <1>10, <3>1
  <2> QED
    BY <2>1, <2>2
<1>14. ASSUME NEW g \in FinTasks, CommitOf[g] = c, NEW u \in Range(Batch[g]), O[u] # None
       PROVE  O[u] \in DOMAIN T /\ T[O[u]] = Uploaded(u)
  <2>1. u \in Uploads
    <3>1. Batch[g] \in Seq(Uploads)
      BY TaskAssumption
    <3> QED
      BY <3>1 DEF Range
  <2>2. CASE u \in Covered(f)
    BY <1>2, <1>10, <2>2
  <2>3. CASE u \notin Covered(f)
    <3>1. O[u] = order[u]
      BY <1>10, <1>14, <2>1, <2>3
    <3>2. order[u] \in DOMAIN S /\ S[order[u]] = Uploaded(u)
      BY <1>9, <1>14, <3>1
    <3>3. order[u] \in DOMAIN K
      BY <1>3, <1>4, <1>5, <3>2
    <3> QED
      BY <1>2, <1>3, <3>1, <3>2, <3>3
  <2> QED
    BY <2>2, <2>3
<1> QED
  BY <1>11, <1>12, <1>13, <1>14 DEF Match, O, T, q

(* Rows R and order numbers O become P and Q by a change that is not about *)
(* commit d: it gives numbers to uploads B of another commit.              *)
SameFor(d, R, O, P, Q, B) ==
    /\ \A w : w.commit = d => (w \in P <=> w \in R)
    /\ \A u \in B : O[u] = None
    /\ \A u \in Uploads : u \notin B => Q[u] = O[u]
    /\ \A f \in FinTasks : CommitOf[f] = d => Range(Batch[f]) \cap B = {}

(* Rows and numbers of another commit do not matter.                       *)
LEMMA MatchFrame ==
    ASSUME NEW d, NEW S \in SessionMaps, NEW R, NEW O, NEW P, NEW Q, NEW B,
           Match(d, S, R, O), SameFor(d, R, O, P, Q, B)
    PROVE  Match(d, S, P, Q)
<1> USE DEF SameFor
<1>1. DOMAIN S \in SUBSET Nat /\ \A n \in DOMAIN S : S[n].src \in Uploads
  BY SessionMapElements DEF SessionSet
<1>2. \A f \in FinTasks : Range(Batch[f]) \subseteq Uploads
  BY TaskAssumption DEF Range
<1>3. None \notin Nat
  BY TaskAssumption
<1>4. \A n \in DOMAIN S : {w \in P : w.commit = d /\ w.order = n} =
                          {w \in R : w.commit = d /\ w.order = n}
  OBVIOUS
<1>5. \A n \in DOMAIN S :
        IF S[n].cf THEN Cardinality({w \in R : w.commit = d /\ w.order = n}) = 1
                   ELSE O[S[n].src] = n
  BY DEF Match
<1>6. \A n \in DOMAIN S :
        IF S[n].cf THEN Cardinality({w \in P : w.commit = d /\ w.order = n}) = 1
                   ELSE Q[S[n].src] = n
  BY <1>1, <1>3, <1>4, <1>5
<1>7. \A w \in P : w.commit = d =>
        w.order \in DOMAIN S /\ S[w.order] = [src |-> w.src, cf |-> TRUE]
  BY DEF Match
<1>8. \A f \in FinTasks : CommitOf[f] = d => \A u \in Range(Batch[f]) :
        Q[u] # None => Q[u] \in DOMAIN S /\ S[Q[u]] = Uploaded(u)
  BY <1>2 DEF Match
<1> QED
  BY <1>6, <1>7, <1>8 DEF Match

-----------------------------------------------------------------------------
(* Steps and the state.                                                    *)

(* A step of t that changes nothing but what t has in memory, and does not *)
(* enter the saving of a report.                                           *)
LEMMA FrameStep ==
    ASSUME TypeInv, StateInv, NEW t \in Tasks,
           UNCHANGED <<chunks, json, hasReport, cfRows, order>>,
           ~damaged' => ~damaged,
           \A o \in Tasks : o # t => pc'[o] = pc[o] /\ mem'[o] = mem[o],
           \A f \in FinTasks : f # t => known'[f] = known[f] /\ tx'[f] = tx[f],
           pc'[t] \notin Saving,
           ~damaged' /\ pc[t] \in Saving => ~hasReport[CommitOf[t]],
           MemInv(t)', t \in FinTasks => FinInv(t)'
    PROVE  StateInv'
<1>1. ASSUME NEW o \in Tasks PROVE SaveInv(o)'
  <2>1. CASE o = t
    BY <2>1 DEF SaveInv
  <2>2. CASE o # t
    BY <2>2 DEF SaveInv, StateInv
  <2> QED
    BY <2>1, <2>2
<1>2. ASSUME NEW o \in Tasks PROVE MemInv(o)'
  <2>1. CASE o # t
    BY <2>1 DEF MemInv, StateInv
  <2> QED
    BY <2>1
<1>3. ASSUME NEW c \in Commits PROVE StoreInv(c)'
  <2> SUFFICES ASSUME ~damaged', hasReport[c], NobodySaves(c)'
               PROVE  NobodySaves(c)
    BY DEF StoreInv, StateInv
  <2> QED
    BY DEF NobodySaves
<1>4. ASSUME NEW f \in FinTasks PROVE FinInv(f)'
  <2>1. CASE f # t
    <3>1. f \in Tasks /\ FinInv(f)
      BY DEF Tasks, StateInv
    <3>2. /\ pc'[f] = pc[f] /\ mem'[f] = mem[f] /\ known'[f] = known[f] /\ tx'[f] = tx[f]
      BY <2>1, <3>1
    <3>3. OrderAfter(f)' = OrderAfter(f)
      BY <3>2 DEF OrderAfter
    <3>4. ReadInv(f)' /\ StayInv(f)'
      BY <3>1, <3>2 DEF FinInv, ReadInv, StayInv
    <3>5. TxInv(f)'
      BY <3>1, <3>2, <3>3 DEF FinInv, TxInv
    <3> QED
      BY <3>4, <3>5 DEF FinInv
  <2> QED
    BY <2>1
<1>5. RowInv'
  BY DEF RowInv, StateInv
<1> QED
  BY <1>1, <1>2, <1>3, <1>4, <1>5 DEF StateInv

(* Two finishers do not hold one lock.                                     *)
LEMMA OneFinisher ==
    ASSUME LockInv, NEW f \in FinTasks, NEW g \in FinTasks, CommitOf[f] = CommitOf[g],
           pc[f] \in {"reading", "merged"} \cup Saving,
           pc[g] \in {"reading", "merged"} \cup Saving
    PROVE  f = g
  BY DEF LockInv

(* save_report writes the chunks: from here on t is the only one that      *)
(* saves, or the report is damaged.                                        *)
LEMMA WriteChunksStep ==
    ASSUME TypeInv, LockInv, StateInv, NEW t \in Tasks, NEW ready,
           \/ t \in InitTasks /\ ready = "carrying"
           \/ t \in FinTasks /\ ready = "merged",
           WriteChunks(t, ready)
    PROVE  StateInv'
<1> DEFINE c == CommitOf[t]
<1>1. /\ pc[t] = ready /\ chunks' = [chunks EXCEPT ![c] = mem[t].lines]
      /\ damaged' = (damaged \/ Overwrites(t))
      /\ pc' = [pc EXCEPT ![t] = "chunks"]
      /\ json' = json /\ hasReport' = hasReport /\ cfRows' = cfRows /\ order' = order
      /\ known' = known /\ mem' = mem /\ tx' = tx
  BY DEF WriteChunks, Goto, rows, locals
<1>2. /\ c \in Commits /\ pc'[t] = "chunks" /\ chunks'[c] = mem[t].lines
      /\ \A d \in Commits : d # c => chunks'[d] = chunks[d]
      /\ \A o \in Tasks : o # t => pc'[o] = pc[o]
      /\ \A o \in Tasks : CommitOf[o] \in Commits
      /\ FinTasks \subseteq Tasks /\ pc[t] \notin Saving
  BY <1>1, TaskAssumption DEF TypeInv, Tasks, Saving
<1>3. ~damaged' => /\ ~damaged
                   /\ \A o \in Tasks : o # t /\ CommitOf[o] = c => pc[o] \notin Saving
                   /\ hasReport[c] => t \in FinTasks /\ known[t]
  BY <1>1, TaskAssumption DEF Overwrites
<1> HIDE DEF c
<1>4. ASSUME NEW o \in Tasks PROVE SaveInv(o)'
  <2>1. CASE o = t
    BY <1>1, <1>2, <1>3, <2>1 DEF SaveInv, Saving, c
  <2>2. CASE o # t
    <3> SUFFICES ASSUME ~damaged', pc[o] \in Saving PROVE SaveInv(o)'
      BY <1>2, <2>2 DEF SaveInv
    <3>1. SaveInv(o) /\ CommitOf[o] # c /\ ~damaged
      BY <1>3, <2>2 DEF StateInv
    <3> QED
      BY <1>1, <1>2, <2>2, <3>1 DEF SaveInv, c
  <2> QED
    BY <2>1, <2>2
<1>5. ASSUME NEW o \in Tasks PROVE MemInv(o)'
  <2>1. MemInv(o) /\ MemInv(t)
    BY DEF StateInv
  <2> QED
    BY <1>1, <1>2, <1>3, <2>1 DEF MemInv, Saving
<1>6. ASSUME NEW d \in Commits PROVE StoreInv(d)'
  <2>1. CASE d = c
    <3>1. ~NobodySaves(d)'
      BY <1>2, <2>1 DEF NobodySaves, Saving, c
    <3> QED
      BY <3>1 DEF StoreInv
  <2>2. CASE d # c
    <3>1. NobodySaves(d)' => NobodySaves(d)
      BY <1>2, <2>2 DEF NobodySaves, c
    <3>2. StoreInv(d) /\ chunks'[d] = chunks[d]
      BY <1>2, <2>2 DEF StateInv
    <3> QED
      BY <1>1, <1>3, <3>1, <3>2 DEF StoreInv
  <2> QED
    BY <2>1, <2>2
<1>7. ASSUME NEW f \in FinTasks PROVE FinInv(f)'
  <2>1. FinInv(f) /\ f \in Tasks
    BY <1>2 DEF StateInv
  <2>2. OrderAfter(f)' = OrderAfter(f)
    BY <1>1 DEF OrderAfter
  <2>3. ReadInv(f)'
    <3>1. CASE f = t
      BY <1>1, <1>2, <2>1, <3>1 DEF FinInv, ReadInv
    <3>2. CASE f # t
      <4> SUFFICES ASSUME ~damaged', pc[f] = "reading", known[f] PROVE CommitOf[f] # c
        BY <1>1, <1>2, <1>3, <2>1, <3>2 DEF FinInv, ReadInv
      <4> SUFFICES ASSUME CommitOf[f] = c PROVE FALSE
        OBVIOUS
      <4>1. t \in FinTasks /\ pc[t] = "merged"
        BY <1>1, <1>3, <2>1, TaskAssumption DEF FinInv, ReadInv
      <4> QED
        BY <3>2, <4>1, OneFinisher DEF c
    <3> QED
      BY <3>1, <3>2
  <2>4. StayInv(f)' /\ TxInv(f)'
    <3>1. CASE f = t
      <4>1. pc[f] = "merged"
        BY <1>1, <3>1, TaskAssumption
      <4> QED
        BY <1>1, <1>2, <1>3, <2>1, <2>2, <3>1, <4>1 DEF FinInv, StayInv, TxInv
    <3>2. CASE f # t
      BY <1>1, <1>2, <1>3, <2>1, <2>2, <3>2 DEF FinInv, StayInv, TxInv
    <3> QED
      BY <3>1, <3>2
  <2> QED
    BY <2>3, <2>4 DEF FinInv
<1>8. RowInv'
  BY <1>1, <1>3 DEF RowInv, StateInv
<1> QED
  BY <1>4, <1>5, <1>6, <1>7, <1>8 DEF StateInv

(* save_report writes the json; what it overwrites has been merged.        *)
LEMMA WriteJsonStep ==
    ASSUME TypeInv, LockInv, StateInv, NEW t \in Tasks, WriteJson(t)
    PROVE  StateInv'
<1> DEFINE c == CommitOf[t]
           j == [sessions |-> mem[t].sessions, files |-> mem[t].files]
<1>1. /\ pc[t] = "chunks" /\ json' = [json EXCEPT ![c] = j]
      /\ pc' = [pc EXCEPT ![t] = "json"] /\ damaged' = damaged
      /\ chunks' = chunks /\ hasReport' = hasReport /\ cfRows' = cfRows /\ order' = order
      /\ known' = known /\ mem' = mem /\ tx' = tx
  BY DEF WriteJson, Goto, rows, locals, history
<1>2. /\ c \in Commits /\ pc'[t] = "json"
      /\ json'[c].sessions = mem[t].sessions /\ json'[c].files = mem[t].files
      /\ \A d \in Commits : d # c => json'[d] = json[d]
      /\ \A o \in Tasks : o # t => pc'[o] = pc[o]
      /\ \A o \in Tasks : CommitOf[o] \in Commits
      /\ FinTasks \subseteq Tasks /\ pc[t] \in Saving /\ pc'[t] \in Saving
  BY <1>1, TaskAssumption DEF TypeInv, Tasks, Saving
<1>3. SaveInv(t)
  BY DEF StateInv
<1> HIDE DEF c
<1>4. ASSUME NEW o \in Tasks PROVE SaveInv(o)'
  <2>1. CASE o = t
    BY <1>1, <1>2, <1>3, <2>1 DEF SaveInv, c
  <2>2. CASE o # t
    <3> SUFFICES ASSUME ~damaged, pc[o] \in Saving PROVE SaveInv(o)'
      BY <1>1, <1>2, <2>2 DEF SaveInv
    <3>1. SaveInv(o) /\ CommitOf[o] # c
      BY <1>2, <1>3, <2>2 DEF StateInv, SaveInv, c
    <3> QED
      BY <1>1, <1>2, <2>2, <3>1 DEF SaveInv, c
  <2> QED
    BY <2>1, <2>2
<1>5. ASSUME NEW o \in Tasks PROVE MemInv(o)'
  <2>1. MemInv(o) /\ MemInv(t)
    BY DEF StateInv
  <2> QED
    BY <1>1, <1>2, <2>1 DEF MemInv, Saving
<1>6. ASSUME NEW d \in Commits PROVE StoreInv(d)'
  <2>1. CASE d = c
    <3>1. ~NobodySaves(d)'
      BY <1>2, <2>1 DEF NobodySaves, c
    <3> QED
      BY <3>1 DEF StoreInv
  <2>2. CASE d # c
    <3>1. NobodySaves(d)' => NobodySaves(d)
      BY <1>2, <2>2 DEF NobodySaves, c
    <3>2. StoreInv(d) /\ json'[d] = json[d]
      BY <1>2, <2>2 DEF StateInv
    <3> QED
      BY <1>1, <3>1, <3>2 DEF StoreInv
  <2> QED
    BY <2>1, <2>2
<1>7. ASSUME NEW f \in FinTasks PROVE FinInv(f)'
  <2>1. FinInv(f) /\ f \in Tasks
    BY <1>2 DEF StateInv
  <2>2. OrderAfter(f)' = OrderAfter(f)
    BY <1>1 DEF OrderAfter
  <2>3. StayInv(f)'
    <3>1. CASE f = t
      BY <1>2, <3>1 DEF StayInv
    <3>2. CASE f # t
      <4> SUFFICES ASSUME ~damaged, pc[f] \in {"merged", "chunks"}, known[f]
                   PROVE  CommitOf[f] # c
        BY <1>1, <1>2, <2>1, <3>2 DEF FinInv, StayInv
      <4> SUFFICES ASSUME CommitOf[f] = c PROVE FALSE
        OBVIOUS
      <4>1. t \in FinTasks
        BY <1>2, <1>3, <2>1 DEF FinInv, ReadInv, SaveInv, c
      <4> QED
        BY <1>2, <3>2, <4>1, OneFinisher DEF c, Saving
    <3> QED
      BY <3>1, <3>2
  <2>4. ReadInv(f)' /\ TxInv(f)'
    BY <1>1, <1>2, <2>1, <2>2 DEF FinInv, ReadInv, TxInv
  <2> QED
    BY <2>3, <2>4 DEF FinInv
<1>8. RowInv'
  BY <1>1 DEF RowInv, StateInv
<1> QED
  BY <1>4, <1>5, <1>6, <1>7, <1>8 DEF StateInv

(* The uploads whose rows task t changes.                                  *)
Own(t) == IF t \in FinTasks THEN Range(Batch[t]) ELSE {}

(* The rows are committed after the json was written: from here on the     *)
(* commit has a report.                                                    *)
LEMMA CommitStep ==
    ASSUME TypeInv, LockInv, StateInv, NEW t \in Tasks,
           pc[t] = "json", pc'[t] \in {"done", "dead"},
           UNCHANGED <<chunks, json>>,
           ~damaged' => ~damaged,
           hasReport' = [hasReport EXCEPT ![CommitOf[t]] = TRUE],
           \A o \in Tasks : o # t => pc'[o] = pc[o] /\ mem'[o] = mem[o],
           \A f \in FinTasks : f # t => known'[f] = known[f] /\ tx'[f] = tx[f],
           \A w : w.commit # CommitOf[t] => (w \in cfRows' <=> w \in cfRows),
           \A u \in Uploads : u \notin Own(t) => order'[u] = order[u],
           ~damaged' => Match(CommitOf[t], mem[t].sessions, cfRows', order'),
           t \in FinTasks => /\ pc'[t] = "done" /\ ~known'[t] /\ tx'[t] = NoTx
    PROVE  StateInv'
<1> DEFINE c == CommitOf[t]
<1>1. /\ c \in Commits /\ FinTasks \subseteq Tasks
      /\ \A o \in Tasks : CommitOf[o] \in Commits
      /\ pc[t] \in Saving /\ pc'[t] \notin Saving \cup {"carrying", "merged"}
  BY TaskAssumption DEF Tasks, Saving
<1>2. hasReport'[c] = TRUE /\ \A d \in Commits : d # c => hasReport'[d] = hasReport[d]
  BY <1>1 DEF TypeInv
<1>3. SaveInv(t) /\ MemInv(t)
  BY DEF StateInv
<1>4. ~damaged' => \A o \in Tasks : o # t /\ CommitOf[o] = c => pc[o] \notin Saving
  BY <1>1, <1>3 DEF SaveInv
<1>5. \A u \in Own(t) : order[u] = None
  BY DEF Own, StateInv, FinInv, TxInv
<1>6. \A f \in FinTasks : f # t => Range(Batch[f]) \cap Own(t) = {}
  BY BatchAssumption, TaskAssumption DEF Own, Range
<1>7. \A f \in FinTasks : Range(Batch[f]) \subseteq Uploads
  BY TaskAssumption DEF Range
<1> HIDE DEF c
<1>8. ASSUME NEW o \in Tasks PROVE SaveInv(o)'
  <2>1. CASE o = t
    BY <1>1, <2>1 DEF SaveInv
  <2>2. CASE o # t
    <3> SUFFICES ASSUME ~damaged', pc[o] \in Saving PROVE SaveInv(o)'
      BY <2>2 DEF SaveInv
    <3>1. SaveInv(o) /\ CommitOf[o] # c /\ CommitOf[o] \in Commits
      BY <1>1, <1>4, <2>2 DEF StateInv
    <3> QED
      BY <1>1, <1>2, <2>2, <3>1 DEF SaveInv, c
  <2> QED
    BY <2>1, <2>2
<1>9. ASSUME NEW o \in Tasks PROVE MemInv(o)'
  <2>1. CASE o = t
    BY <1>1, <2>1 DEF MemInv
  <2>2. CASE o # t
    BY <2>2 DEF MemInv, StateInv
  <2> QED
    BY <2>1, <2>2
<1>10. ASSUME NEW d \in Commits PROVE StoreInv(d)'
  <2> SUFFICES ASSUME ~damaged', hasReport'[d], NobodySaves(d)'
               PROVE  /\ Coherent(FromChunks(chunks[d], json[d]))
                      /\ Superseded(json[d].sessions)
                      /\ Match(d, json[d].sessions, cfRows', order')
    BY DEF StoreInv
  <2>1. CASE d = c
    <3>1. /\ chunks[c] = mem[t].lines /\ json[c].sessions = mem[t].sessions
          /\ json[c].files = mem[t].files
          /\ Whole(mem[t]) /\ Superseded(mem[t].sessions)
      BY <1>1, <1>3 DEF SaveInv, MemInv, c
    <3>2. Coherent(FromChunks(chunks[c], json[c]))
      BY <3>1 DEF Whole, Coherent, FromChunks
    <3> QED
      BY <2>1, <3>1, <3>2 DEF c
  <2>2. CASE d # c
    <3>1. NobodySaves(d)
      BY <2>2 DEF NobodySaves, c
    <3>2. /\ Coherent(FromChunks(chunks[d], json[d])) /\ Superseded(json[d].sessions)
          /\ Match(d, json[d].sessions, cfRows, order)
      BY <1>2, <2>2, <3>1 DEF StoreInv, StateInv
    <3>3. json[d].sessions \in SessionMaps
      BY DEF TypeInv
    <3>4. \A w : w.commit = d => (w \in cfRows' <=> w \in cfRows)
      BY <2>2 DEF c
    <3>5. \A f \in FinTasks : CommitOf[f] = d => Range(Batch[f]) \cap Own(t) = {}
      BY <1>6, <2>2 DEF c
    <3>6. Match(d, json[d].sessions, cfRows', order')
      <4>1. SameFor(d, cfRows, order, cfRows', order', Own(t))
        BY <1>5, <3>4, <3>5 DEF SameFor
      <4> QED
        BY <3>2, <3>3, <4>1, MatchFrame
    <3> QED
      BY <3>2, <3>6
  <2> QED
    BY <2>1, <2>2
<1>11. ASSUME NEW f \in FinTasks PROVE FinInv(f)'
  <2>1. CASE f = t
    <3>1. DOMAIN tx'[f].order = {} /\ tx'[f].deleted = {}
      BY <2>1 DEF NoTx
    <3> QED
      BY <2>1, <1>1, <3>1 DEF FinInv, ReadInv, StayInv, TxInv, Saving
  <2>2. CASE f # t
    <3> DEFINE d == CommitOf[f]
    <3>1. /\ f \in Tasks /\ FinInv(f) /\ d \in Commits
          /\ pc'[f] = pc[f] /\ mem'[f] = mem[f] /\ known'[f] = known[f] /\ tx'[f] = tx[f]
      BY <1>1, <2>2 DEF StateInv
    <3>2. ReadInv(f)' /\ StayInv(f)'
      BY <1>2, <3>1 DEF FinInv, ReadInv, StayInv
    <3>3. /\ pc'[f] # "done" => \A u \in Range(Batch[f]) : order'[u] = None
          /\ DOMAIN tx'[f].order \subseteq Range(Batch[f])
          /\ \A w \in tx'[f].deleted : w.commit = d
      BY <1>6, <1>7, <2>2, <3>1 DEF FinInv, TxInv
    <3>4. ASSUME ~damaged', pc[f] \in {"merged"} \cup Saving, hasReport'[d] => known[f]
          PROVE  Match(d, mem[f].sessions, cfRows' \ tx[f].deleted, OrderAfter(f)')
      <4>1. d # c
        <5> SUFFICES ASSUME d = c PROVE FALSE
          OBVIOUS
        <5>1. t \in FinTasks
          BY <1>1, <1>2, <1>3, <3>1, <3>4 DEF SaveInv, FinInv, ReadInv, c
        <5> QED
          BY <1>1, <2>2, <3>4, <5>1, OneFinisher DEF c
      <4>2. Match(d, mem[f].sessions, cfRows \ tx[f].deleted, OrderAfter(f))
        BY <1>2, <3>1, <3>4, <4>1 DEF FinInv, TxInv
      <4>3. \A u \in Own(t) : u \in Uploads /\ u \notin DOMAIN tx[f].order
        BY <1>6, <1>7, <2>2, <3>1, <3>3 DEF Own
      <4>4. \A u \in Own(t) : OrderAfter(f)[u] = None
        BY <1>5, <4>3 DEF OrderAfter
      <4>5. \A u \in Uploads : u \notin Own(t) => OrderAfter(f)'[u] = OrderAfter(f)[u]
        BY <3>1 DEF OrderAfter
      <4>6. mem[f].sessions \in SessionMaps
        BY <3>1 DEF TypeInv, Reports
      <4>7. \A w : w.commit = d =>
              (w \in cfRows' \ tx[f].deleted <=> w \in cfRows \ tx[f].deleted)
        BY <4>1 DEF c
      <4>8. \A g \in FinTasks : CommitOf[g] = d => Range(Batch[g]) \cap Own(t) = {}
        BY <1>6, <4>1 DEF c
      <4> DEFINE S == mem[f].sessions
                 R == cfRows \ tx[f].deleted
                 P == cfRows' \ tx[f].deleted
                 O == OrderAfter(f)
                 Q == OrderAfter(f)'
                 B == Own(t)
      <4>9. Match(d, S, R, O) /\ S \in SessionMaps /\ SameFor(d, R, O, P, Q, B)
        BY <4>2, <4>4, <4>5, <4>6, <4>7, <4>8 DEF SameFor
      <4> HIDE DEF d, S, R, P, O, Q, B
      <4>10. Match(d, S, P, Q)
        BY <4>9, MatchFrame
      <4> QED
        BY <4>10 DEF S, P, Q
    <3>5. TxInv(f)'
      BY <3>1, <3>3, <3>4 DEF TxInv
    <3> QED
      BY <3>2, <3>5 DEF FinInv
  <2> QED
    BY <2>1, <2>2
<1>12. RowInv'
  <2>1. ASSUME NEW w \in cfRows' PROVE hasReport'[w.commit]
    <3>1. CASE w.commit = c
      BY <1>2, <3>1
    <3>2. CASE w.commit # c
      <4>1. w \in cfRows /\ hasReport[w.commit] /\ w.commit \in Commits
        BY <3>2 DEF RowInv, StateInv, TypeInv, CarriedRowSet, c
      <4> QED
        BY <1>2, <3>2, <4>1
    <3> QED
      BY <3>1, <3>2
  <2>2. ASSUME ~damaged', NEW f \in FinTasks, ~hasReport'[CommitOf[f]],
               NEW u \in Range(Batch[f])
        PROVE  order'[u] = None
    <3>1. CommitOf[f] \in Commits /\ CommitOf[f] # c /\ f # t
      BY <1>1, <1>2, <2>2 DEF c
    <3>2. ~hasReport[CommitOf[f]] /\ u \in Uploads /\ u \notin Own(t)
      BY <1>2, <1>6, <1>7, <2>2, <3>1
    <3> QED
      BY <2>2, <3>2 DEF RowInv, StateInv
  <2> QED
    BY <2>1, <2>2 DEF RowInv
<1> QED
  BY <1>8, <1>9, <1>10, <1>11, <1>12 DEF StateInv

-----------------------------------------------------------------------------
(* Tasks that end, and the steps of initialisers.                          *)

IInv == TypeInv /\ LockInv /\ StateInv

(* Locks are released and memory is gone.                                  *)
LEMMA LeaveTypes ==
    ASSUME TypeInv, LockInv, NEW t \in Tasks, NEW s, Leave(t, s), s \in {"done", "dead"},
           t \in FinTasks => s = "done"
    PROVE  /\ pc' = [pc EXCEPT ![t] = s] /\ pc'[t] = s
           /\ \A o \in Tasks : o # t => pc'[o] = pc[o] /\ mem'[o] = mem[o]
           /\ \A f \in FinTasks : f # t => known'[f] = known[f]
           /\ t \in FinTasks => ~known'[t]
           /\ pc' \in [Tasks -> InitPcs \cup FinPcs]
           /\ \A o \in InitTasks : pc'[o] \in InitPcs
           /\ \A f \in FinTasks : pc'[f] \in FinPcs
           /\ known' \in [FinTasks -> BOOLEAN]
           /\ mem' \in [Tasks -> Reports]
           /\ base' \in [InitTasks -> Commits \cup {None}]
           /\ \A o \in InitTasks : pc'[o] = "reading" => base'[o] \in Commits
           /\ preLock' \in [Commits -> PreTasks \cup {None}]
           /\ \A c \in Commits : preLock'[c] # None => CommitOf[preLock'[c]] = c
           /\ reportLock' \in [Commits -> FinTasks \cup {None}]
           /\ \A c \in Commits : reportLock'[c] # None => CommitOf[reportLock'[c]] = c
           /\ LockInv'
<1>1. /\ pc' = [pc EXCEPT ![t] = s] /\ mem' = [mem EXCEPT ![t] = EmptyReport]
      /\ known' = [f \in FinTasks |-> f # t /\ known[f]]
      /\ base' = [o \in InitTasks |-> IF o = t THEN None ELSE base[o]]
      /\ preLock' = [c \in Commits |-> IF preLock[c] = t THEN None ELSE preLock[c]]
      /\ reportLock' = [c \in Commits |-> IF reportLock[c] = t THEN None ELSE reportLock[c]]
  BY DEF Leave, Goto, Release
<1>2. InitTasks \subseteq Tasks /\ FinTasks \subseteq Tasks
  BY DEF Tasks
<1>3. /\ pc \in [Tasks -> InitPcs \cup FinPcs] /\ mem \in [Tasks -> Reports]
      /\ known \in [FinTasks -> BOOLEAN]
      /\ \A o \in InitTasks : pc[o] \in InitPcs
      /\ \A f \in FinTasks : pc[f] \in FinPcs
  BY DEF TypeInv
<1>4. pc'[t] = s /\ \A o \in Tasks : o # t => pc'[o] = pc[o] /\ mem'[o] = mem[o]
  BY <1>1, <1>3
<1>5. /\ \A f \in FinTasks : f # t => known'[f] = known[f]
      /\ t \in FinTasks => ~known'[t]
      /\ known' \in [FinTasks -> BOOLEAN]
  BY <1>1, <1>3
<1>6. /\ pc' \in [Tasks -> InitPcs \cup FinPcs]
      /\ \A o \in InitTasks : pc'[o] \in InitPcs
      /\ \A f \in FinTasks : pc'[f] \in FinPcs
  <2>1. s \in InitPcs /\ (t \in FinTasks => s \in FinPcs)
    BY DEF InitPcs, FinPcs
  <2> QED
    BY <1>1, <1>2, <1>3, <1>4, <2>1
<1>7. mem' \in [Tasks -> Reports]
  BY <1>1, <1>3, EmptyReportIsWhole
<1>8. /\ base' \in [InitTasks -> Commits \cup {None}]
      /\ \A o \in InitTasks : pc'[o] = "reading" => base'[o] \in Commits
  BY <1>1, <1>2, <1>4 DEF TypeInv
<1>9. /\ preLock' \in [Commits -> PreTasks \cup {None}]
      /\ \A c \in Commits : preLock'[c] # None => CommitOf[preLock'[c]] = c
  BY <1>1 DEF TypeInv
<1>10. /\ reportLock' \in [Commits -> FinTasks \cup {None}]
       /\ \A c \in Commits : reportLock'[c] # None => CommitOf[reportLock'[c]] = c
  BY <1>1 DEF TypeInv
<1>11. LockInv'
  <2> SUFFICES ASSUME NEW f \in FinTasks
               PROVE  pc'[f] \in {"reading", "merged"} \cup Saving =>
                        reportLock'[CommitOf[f]] = f
    BY DEF LockInv
  <2>1. /\ f \in Tasks /\ CommitOf[f] \in Commits /\ f # None
        /\ reportLock'[CommitOf[f]] = IF reportLock[CommitOf[f]] = t THEN None
                                      ELSE reportLock[CommitOf[f]]
    BY <1>1, <1>2, TaskAssumption
  <2>2. CASE f = t
    <3>1. pc'[f] = "done"
      BY <1>4, <2>2
    <3> QED
      BY <2>1, <2>2, <3>1 DEF Saving
  <2>3. CASE f # t
    BY <1>4, <2>1, <2>3 DEF LockInv
  <2> QED
    BY <2>2, <2>3
<1> QED
  BY <1>1, <1>4, <1>5, <1>6, <1>7, <1>8, <1>9, <1>10, <1>11

(* A task that ends without having saved anything.                         *)
LEMMA EndStep ==
    ASSUME IInv, NEW t \in Tasks, NEW s, Leave(t, s), s \in {"done", "dead"},
           t \in FinTasks => s = "done",
           UNCHANGED <<chunks, json, hasReport, cfRows, order, uState, tx>>,
           state' \in [Commits -> {"pending", "complete", "error"}],
           ~damaged' => ~damaged, damaged' \in BOOLEAN, faults' \in 0 .. MaxFaults,
           ~damaged' /\ pc[t] \in Saving => ~hasReport[CommitOf[t]]
    PROVE  IInv'
<1>1. TypeInv /\ LockInv /\ StateInv
  BY DEF IInv
<1>2. LockInv' /\ TypeInv'
  BY <1>1, LeaveTypes DEF TypeInv
<1>3. /\ pc'[t] = s
      /\ \A o \in Tasks : o # t => pc'[o] = pc[o] /\ mem'[o] = mem[o]
      /\ \A f \in FinTasks : f # t => known'[f] = known[f]
      /\ t \in FinTasks => ~known'[t]
  BY <1>1, LeaveTypes
<1>4. pc'[t] \notin Saving /\ MemInv(t)'
  BY <1>3 DEF MemInv, Saving
<1>5. t \in FinTasks => FinInv(t)'
  BY <1>1, <1>3 DEF StateInv, FinInv, ReadInv, StayInv, TxInv, Saving
<1>6. StateInv'
  BY <1>1, <1>3, <1>4, <1>5, FrameStep
<1> QED
  BY <1>2, <1>6 DEF IInv

(* The lock of the preprocess tasks.                                       *)
LEMMA PreLockStep ==
    ASSUME IInv, NEW t \in PreTasks,
           PreTestLock(t) \/ PreAcquireLock(t) \/ PreLockExpires(t)
    PROVE  IInv'
<1>1. TypeInv /\ LockInv /\ StateInv
  BY DEF IInv
<1>2. t \in Tasks /\ t \in InitTasks /\ t \notin FinTasks /\ CommitOf[t] \in Commits
      /\ InitTasks \subseteq Tasks /\ FinTasks \subseteq Tasks
  BY TaskAssumption DEF Tasks, InitTasks
<1>3. /\ UNCHANGED <<chunks, json, hasReport, state, cfRows, order, uState>>
      /\ UNCHANGED <<known, mem, base, tx, reportLock, faults, damaged>>
  BY DEF PreTestLock, PreAcquireLock, PreLockExpires, storage, rows, locals, locks, history
<1>4. \E s \in {"waiting", "done", "locked", "dead"} : pc' = [pc EXCEPT ![t] = s]
  <2>1. CASE PreTestLock(t)
    BY <2>1 DEF PreTestLock, Goto
  <2>2. CASE PreAcquireLock(t)
    BY <2>2 DEF PreAcquireLock, Goto
  <2>3. CASE PreLockExpires(t)
    <3>1. pc' = pc /\ pc[t] = "dead"
      BY <2>3 DEF PreLockExpires
    <3>2. pc' = [pc EXCEPT ![t] = "dead"]
      BY <1>1, <1>2, <3>1 DEF TypeInv
    <3> QED
      BY <3>2
  <2> QED
    BY <2>1, <2>2, <2>3
<1>5. PICK s \in {"waiting", "done", "locked", "dead"} : pc' = [pc EXCEPT ![t] = s]
  BY <1>4
<1>6. /\ pc' \in [Tasks -> InitPcs \cup FinPcs] /\ pc'[t] = s
      /\ \A o \in Tasks : o # t => pc'[o] = pc[o]
      /\ \A o \in InitTasks : pc'[o] \in InitPcs
      /\ \A f \in FinTasks : pc'[f] \in FinPcs
  BY <1>1, <1>2, <1>5 DEF TypeInv, InitPcs, FinPcs
<1>7. /\ preLock' \in [Commits -> PreTasks \cup {None}]
      /\ \A c \in Commits : preLock'[c] # None => CommitOf[preLock'[c]] = c
  <2>1. preLock \in [Commits -> PreTasks \cup {None}]
        /\ \A c \in Commits : preLock[c] # None => CommitOf[preLock[c]] = c
    BY <1>1 DEF TypeInv
  <2>2. CASE PreTestLock(t)
    BY <2>1, <2>2 DEF PreTestLock, locks
  <2>3. CASE PreAcquireLock(t)
    BY <1>2, <2>1, <2>3 DEF PreAcquireLock
  <2>4. CASE PreLockExpires(t)
    BY <1>2, <2>1, <2>4 DEF PreLockExpires
  <2> QED
    BY <2>2, <2>3, <2>4
<1>8. TypeInv'
  <2>1. \A o \in InitTasks : pc'[o] = "reading" => base[o] \in Commits
    BY <1>1, <1>2, <1>5, <1>6 DEF TypeInv
  <2> QED
    BY <1>1, <1>3, <1>6, <1>7, <2>1 DEF TypeInv
<1>9. LockInv'
  BY <1>1, <1>2, <1>3, <1>6 DEF LockInv
<1>10. ~damaged' /\ pc[t] \in Saving => ~hasReport[CommitOf[t]]
  BY <1>1, <1>2, <1>3 DEF StateInv, SaveInv
<1>11. pc'[t] \notin Saving /\ MemInv(t)'
  BY <1>5, <1>6 DEF MemInv, Saving
<1>12. StateInv'
  BY <1>1, <1>2, <1>3, <1>6, <1>10, <1>11, FrameStep
<1> QED
  BY <1>8, <1>9, <1>12 DEF IInv

(* An initialiser dies: it has no report to leave half written, or the     *)
(* commit does not name one.                                               *)
LEMMA InitKilledStep ==
    ASSUME IInv, NEW t \in InitTasks, InitKilled(t)
    PROVE  IInv'
<1>1. TypeInv /\ LockInv /\ StateInv
  BY DEF IInv
<1>2. t \in Tasks /\ t \notin FinTasks /\ CommitOf[t] \in Commits
      /\ InitTasks \subseteq Tasks /\ FinTasks \subseteq Tasks
  BY TaskAssumption DEF Tasks
<1>3. /\ UNCHANGED <<chunks, json, hasReport, state, cfRows, order, uState>>
      /\ UNCHANGED <<known, base, tx, preLock, reportLock, damaged>>
      /\ pc' = [pc EXCEPT ![t] = "dead"] /\ mem' = [mem EXCEPT ![t] = EmptyReport]
      /\ faults < MaxFaults /\ faults' = faults + 1
  BY DEF InitKilled, Event, Goto, storage, rows, locks
<1>4. /\ pc' \in [Tasks -> InitPcs \cup FinPcs] /\ pc'[t] = "dead"
      /\ \A o \in Tasks : o # t => pc'[o] = pc[o] /\ mem'[o] = mem[o]
      /\ \A o \in InitTasks : pc'[o] \in InitPcs
      /\ \A f \in FinTasks : pc'[f] \in FinPcs
  BY <1>1, <1>2, <1>3 DEF TypeInv, InitPcs, FinPcs
<1>5. mem' \in [Tasks -> Reports] /\ faults' \in 0 .. MaxFaults
  <2>1. mem' \in [Tasks -> Reports]
    BY <1>1, <1>3, EmptyReportIsWhole DEF TypeInv
  <2>2. faults' \in 0 .. MaxFaults
    BY <1>1, <1>3, TaskAssumption DEF TypeInv
  <2> QED
    BY <2>1, <2>2
<1>6. TypeInv'
  <2>1. \A o \in InitTasks : pc'[o] = "reading" => base[o] \in Commits
    BY <1>1, <1>2, <1>4 DEF TypeInv
  <2> QED
    BY <1>1, <1>3, <1>4, <1>5, <2>1 DEF TypeInv
<1>7. LockInv'
  BY <1>1, <1>2, <1>3, <1>4 DEF LockInv
<1>8. ~damaged' /\ pc[t] \in Saving => ~hasReport[CommitOf[t]]
  BY <1>1, <1>2, <1>3 DEF StateInv, SaveInv
<1>9. pc'[t] \notin Saving /\ MemInv(t)'
  BY <1>4 DEF MemInv, Saving
<1>10. StateInv'
  BY <1>1, <1>2, <1>3, <1>4, <1>8, <1>9, FrameStep
<1> QED
  BY <1>6, <1>7, <1>10 DEF IInv

(* What is read in two steps is a report, whatever was written in between. *)
LEMMA FromChunksReport ==
    ASSUME NEW L \in SUBSET (Nat \X Uploads),
           NEW j \in [sessions : SessionMaps, files : BOOLEAN]
    PROVE  /\ FromChunks(L, j) \in Reports
           /\ FromChunks(L, j).sessions = j.sessions
           /\ Coherent(FromChunks(L, j)) => Whole(FromChunks(L, j))
<1>1. /\ FromChunks(L, j).sessions = j.sessions /\ FromChunks(L, j).files = j.files
      /\ FromChunks(L, j).lines = IF j.files THEN L ELSE {}
  BY DEF FromChunks
<1>2. FromChunks(L, j) \in Reports
  <2>1. (IF j.files THEN L ELSE {}) \in SUBSET (Nat \X Uploads)
    OBVIOUS
  <2> QED
    BY <2>1 DEF FromChunks, Reports
<1> QED
  BY <1>1, <1>2 DEF Whole

(* The first of the two steps.                                             *)
LEMMA ChunksOnlyReport ==
    ASSUME NEW L \in SUBSET (Nat \X Uploads)
    PROVE  ChunksOnly(L) \in Reports /\ ChunksOnly(L).lines = L
  BY EmptyReportIsWhole DEF ChunksOnly, Reports

(* An initialiser reads the chunks of the commit it carries forward from.  *)
LEMMA InitReadChunksStep ==
    ASSUME IInv, NEW t \in InitTasks, InitReadChunks(t)
    PROVE  IInv'
<1>1. TypeInv /\ LockInv /\ StateInv
  BY DEF IInv
<1>2. t \in Tasks /\ t \notin FinTasks /\ CommitOf[t] \in Commits
      /\ InitTasks \subseteq Tasks /\ FinTasks \subseteq Tasks
  BY TaskAssumption DEF Tasks
<1>3. PICK b \in CarryBase(CommitOf[t]) :
        /\ base' = [base EXCEPT ![t] = b]
        /\ mem' = [mem EXCEPT ![t] = ChunksOnly(chunks[b])]
  BY DEF InitReadChunks
<1>4. /\ UNCHANGED <<chunks, json, hasReport, state, cfRows, order, uState>>
      /\ UNCHANGED <<known, tx, preLock, reportLock, faults, damaged>>
      /\ pc' = [pc EXCEPT ![t] = "reading"] /\ pc[t] = "locked"
  BY DEF InitReadChunks, Goto, storage, rows, locks, history
<1>5. b \in Commits
  BY DEF CarryBase
<1>6. ChunksOnly(chunks[b]) \in Reports
  <2>1. chunks[b] \in SUBSET (Nat \X Uploads)
    BY <1>1, <1>5 DEF TypeInv
  <2> QED
    BY <2>1, ChunksOnlyReport
<1> DEFINE e == ChunksOnly(chunks[b])
<1> HIDE DEF e
<1>7. /\ pc' \in [Tasks -> InitPcs \cup FinPcs] /\ pc'[t] = "reading"
      /\ \A o \in Tasks : o # t => pc'[o] = pc[o]
      /\ \A o \in InitTasks : pc'[o] \in InitPcs
      /\ \A f \in FinTasks : pc'[f] \in FinPcs
  BY <1>1, <1>2, <1>4 DEF TypeInv, InitPcs, FinPcs
<1>8. mem' \in [Tasks -> Reports] /\ \A o \in Tasks : o # t => mem'[o] = mem[o]
  <2>1. mem' = [mem EXCEPT ![t] = e] /\ e \in Reports
    BY <1>3, <1>6 DEF e
  <2> QED
    BY <1>1, <1>2, <2>1 DEF TypeInv
<1>9. /\ base' \in [InitTasks -> Commits \cup {None}]
      /\ \A o \in InitTasks : pc'[o] = "reading" => base'[o] \in Commits
  BY <1>1, <1>2, <1>3, <1>5, <1>7 DEF TypeInv
<1>10. TypeInv'
  BY <1>1, <1>4, <1>7, <1>8, <1>9 DEF TypeInv
<1>11. LockInv'
  BY <1>1, <1>2, <1>4, <1>7 DEF LockInv
<1>12. pc'[t] \notin Saving /\ pc[t] \notin Saving /\ MemInv(t)'
  BY <1>4, <1>7 DEF MemInv, Saving
<1>13. StateInv'
  BY <1>1, <1>2, <1>4, <1>7, <1>8, <1>12, FrameStep
<1> QED
  BY <1>10, <1>11, <1>13 DEF IInv

(* Then the json: what is carried forward is a proper report, unless chunks*)
(* and json did not belong together.                                       *)
LEMMA InitReadJsonStep ==
    ASSUME IInv, NEW t \in InitTasks, InitReadJson(t)
    PROVE  IInv'
<1> DEFINE r == FromChunks(mem[t].lines, json[base[t]])
           cf == GenerateCarryforwardReport(r)
<1>1. TypeInv /\ LockInv /\ StateInv
  BY DEF IInv
<1>2. t \in Tasks /\ t \notin FinTasks /\ CommitOf[t] \in Commits
      /\ InitTasks \subseteq Tasks /\ FinTasks \subseteq Tasks
  BY TaskAssumption DEF Tasks
<1>3. /\ pc[t] = "reading" /\ damaged' = (damaged \/ ~Coherent(r))
      /\ UNCHANGED <<storage, rows, tx, faults>>
      /\ \/ /\ pc' = [pc EXCEPT ![t] = "carrying"] /\ mem' = [mem EXCEPT ![t] = cf]
            /\ UNCHANGED <<known, base, preLock, reportLock>>
         \/ Leave(t, "done")
  BY DEF InitReadJson, Goto, End, locks
<1>4. r \in Reports /\ (Coherent(r) => Whole(r))
  <2>1. mem[t].lines \in SUBSET (Nat \X Uploads)
    BY <1>1, <1>2 DEF TypeInv, Reports
  <2>2. json[base[t]] \in [sessions : SessionMaps, files : BOOLEAN]
    BY <1>1, <1>3 DEF TypeInv
  <2> QED
    BY <2>1, <2>2, FromChunksReport
<1>5. cf \in Reports /\ AllCarried(cf.sessions) /\ (Whole(r) => Whole(cf))
  BY <1>4, CarriedReport
<1> HIDE DEF cf, r
<1>6. /\ damaged' \in BOOLEAN /\ (~damaged' => ~damaged /\ Coherent(r))
      /\ faults' \in 0 .. MaxFaults /\ pc[t] \notin Saving
      /\ UNCHANGED <<chunks, json, hasReport, state, cfRows, order, uState, tx, faults>>
      /\ state' \in [Commits -> {"pending", "complete", "error"}]
  BY <1>1, <1>3 DEF TypeInv, Saving, storage, rows
<1>7. CASE Leave(t, "done")
  BY <1>2, <1>3, <1>6, <1>7, EndStep
<1>8. CASE /\ pc' = [pc EXCEPT ![t] = "carrying"] /\ mem' = [mem EXCEPT ![t] = cf]
           /\ UNCHANGED <<known, base, preLock, reportLock>>
  <2>1. /\ pc' \in [Tasks -> InitPcs \cup FinPcs] /\ pc'[t] = "carrying"
        /\ \A o \in Tasks : o # t => pc'[o] = pc[o]
        /\ \A o \in InitTasks : pc'[o] \in InitPcs
        /\ \A f \in FinTasks : pc'[f] \in FinPcs
    BY <1>1, <1>2, <1>8 DEF TypeInv, InitPcs, FinPcs
  <2>2. /\ mem' \in [Tasks -> Reports] /\ mem'[t] = cf
        /\ \A o \in Tasks : o # t => mem'[o] = mem[o]
    BY <1>1, <1>2, <1>5, <1>8 DEF TypeInv
  <2>3. \A o \in InitTasks : pc'[o] = "reading" => base[o] \in Commits
    BY <1>1, <1>2, <2>1 DEF TypeInv
  <2>4. TypeInv'
    BY <1>1, <1>6, <1>8, <2>1, <2>2, <2>3 DEF TypeInv
  <2>5. LockInv'
    BY <1>1, <1>2, <1>8, <2>1 DEF LockInv
  <2>6. pc'[t] \notin Saving /\ MemInv(t)'
    <3>1. Superseded(cf.sessions)
      BY <1>5 DEF Superseded, AllCarried
    <3> QED
      BY <1>4, <1>5, <1>6, <2>1, <2>2, <3>1 DEF MemInv, Saving
  <2>7. StateInv'
    BY <1>1, <1>2, <1>6, <1>8, <2>1, <2>2, <2>6, FrameStep
  <2> QED
    BY <2>4, <2>5, <2>7 DEF IInv
<1> QED
  BY <1>3, <1>7, <1>8

(* The two writes of save_report, in any task.                             *)
LEMMA SaveReportStep ==
    ASSUME IInv, NEW t \in Tasks,
           \/ t \in InitTasks /\ InitWriteChunks(t)
           \/ t \in FinTasks /\ FinWriteChunks(t)
           \/ WriteJson(t)
    PROVE  IInv'
<1>1. TypeInv /\ LockInv /\ StateInv
  BY DEF IInv
<1>2. CommitOf[t] \in Commits /\ InitTasks \subseteq Tasks /\ FinTasks \subseteq Tasks
  BY TaskAssumption DEF Tasks
<1>3. mem[t] \in Reports
  BY <1>1 DEF TypeInv
<1>4. /\ mem[t].lines \in SUBSET (Nat \X Uploads)
      /\ [sessions |-> mem[t].sessions, files |-> mem[t].files] \in
            [sessions : SessionMaps, files : BOOLEAN]
  BY <1>3 DEF Reports
<1>5. ASSUME NEW s \in {"chunks", "json"}, pc' = [pc EXCEPT ![t] = s],
             t \in FinTasks => pc[t] \in {"merged", "chunks"},
             UNCHANGED <<reportLock, base>>
      PROVE  /\ pc' \in [Tasks -> InitPcs \cup FinPcs]
             /\ \A o \in InitTasks : pc'[o] \in InitPcs
             /\ \A f \in FinTasks : pc'[f] \in FinPcs
             /\ \A o \in InitTasks : pc'[o] = "reading" => base'[o] \in Commits
             /\ LockInv'
  <2>1. pc'[t] = s /\ \A o \in Tasks : o # t => pc'[o] = pc[o]
    BY <1>1, <1>5 DEF TypeInv
  <2>2. LockInv'
    BY <1>1, <1>2, <1>5, <2>1 DEF LockInv, Saving
  <2> QED
    BY <1>1, <1>2, <1>5, <2>1, <2>2 DEF TypeInv, InitPcs, FinPcs
<1>6. ASSUME NEW ready, WriteChunks(t, ready),
             \/ t \in InitTasks /\ ready = "carrying"
             \/ t \in FinTasks /\ ready = "merged"
      PROVE  IInv'
  <2>1. /\ chunks' = [chunks EXCEPT ![CommitOf[t]] = mem[t].lines]
        /\ damaged' = (damaged \/ Overwrites(t))
        /\ pc' = [pc EXCEPT ![t] = "chunks"] /\ pc[t] = ready
        /\ UNCHANGED <<json, hasReport, state, cfRows, order, uState>>
        /\ UNCHANGED <<known, mem, base, tx, preLock, reportLock, faults>>
    BY <1>6 DEF WriteChunks, Goto, rows, locals, locks
  <2>2. chunks' \in [Commits -> SUBSET (Nat \X Uploads)] /\ damaged' \in BOOLEAN
    BY <1>1, <1>2, <1>4, <2>1 DEF TypeInv
  <2>3. t \in FinTasks => pc[t] = "merged"
    BY <1>6, <2>1, TaskAssumption
  <2>4. TypeInv' /\ LockInv'
    BY <1>1, <1>5, <2>1, <2>2, <2>3 DEF TypeInv
  <2>5. StateInv'
    BY <1>1, <1>6, WriteChunksStep
  <2> QED
    BY <2>4, <2>5 DEF IInv
<1>7. CASE WriteJson(t)
  <2>1. /\ json' = [json EXCEPT ![CommitOf[t]] =
                      [sessions |-> mem[t].sessions, files |-> mem[t].files]]
        /\ pc' = [pc EXCEPT ![t] = "json"] /\ pc[t] = "chunks"
        /\ UNCHANGED <<chunks, hasReport, state, cfRows, order, uState>>
        /\ UNCHANGED <<known, mem, base, tx, preLock, reportLock, faults, damaged>>
    BY <1>7 DEF WriteJson, Goto, rows, locals, locks, history
  <2>2. json' \in [Commits -> [sessions : SessionMaps, files : BOOLEAN]]
    BY <1>1, <1>2, <1>4, <2>1 DEF TypeInv
  <2>3. TypeInv' /\ LockInv'
    BY <1>1, <1>5, <2>1, <2>2 DEF TypeInv
  <2>4. StateInv'
    BY <1>1, <1>7, WriteJsonStep
  <2> QED
    BY <2>3, <2>4 DEF IInv
<1> QED
  BY <1>6, <1>7 DEF InitWriteChunks, FinWriteChunks

(* The tasks that have nothing to save.                                    *)
LEMMA InitDoneStep ==
    ASSUME IInv, NEW t \in InitTasks, InitNothingToDo(t) \/ PreNotReady(t)
    PROVE  IInv'
<1>1. t \in Tasks /\ t \notin FinTasks
  BY TaskAssumption DEF Tasks
<1>2. /\ pc[t] = "locked" /\ Leave(t, "done")
      /\ UNCHANGED <<chunks, json, hasReport, state, cfRows, order, uState, tx>>
      /\ UNCHANGED <<faults, damaged>>
  BY DEF InitNothingToDo, PreNotReady, End, storage, rows, history
<1>3. /\ damaged' \in BOOLEAN /\ faults' \in 0 .. MaxFaults /\ pc[t] \notin Saving
      /\ state' \in [Commits -> {"pending", "complete", "error"}]
  BY <1>2 DEF IInv, TypeInv, Saving
<1> QED
  BY <1>1, <1>2, <1>3, EndStep

(* The columns of the Commit row: there is a report once the json is       *)
(* written.                                                                *)
LEMMA CommitRow ==
    ASSUME TypeInv, NEW t \in Tasks, SaveCommitRow(t)
    PROVE  /\ hasReport' \in [Commits -> BOOLEAN]
           /\ state' \in [Commits -> {"pending", "complete", "error"}]
           /\ pc[t] = "json" => hasReport' = [hasReport EXCEPT ![CommitOf[t]] = TRUE]
           /\ pc[t] # "json" => hasReport' = hasReport
<1>1. /\ hasReport \in [Commits -> BOOLEAN] /\ CommitOf[t] \in Commits
      /\ state \in [Commits -> {"pending", "complete", "error"}]
  BY TaskAssumption DEF TypeInv
<1>2. /\ hasReport' = [hasReport EXCEPT ![CommitOf[t]] = @ \/ pc[t] = "json"]
      /\ state' = [state EXCEPT ![CommitOf[t]] =
                    IF pc[t] \notin Saving THEN @
                    ELSE IF mem[t].files THEN "complete" ELSE "error"]
  BY DEF SaveCommitRow
<1>3. hasReport' \in [Commits -> BOOLEAN]
  BY <1>1, <1>2
<1>4. state' \in [Commits -> {"pending", "complete", "error"}]
  BY <1>1, <1>2
<1>5. ASSUME pc[t] = "json" PROVE hasReport' = [hasReport EXCEPT ![CommitOf[t]] = TRUE]
  BY <1>1, <1>2, <1>5
<1>6. ASSUME pc[t] # "json" PROVE hasReport' = hasReport
  BY <1>1, <1>2, <1>6
<1> QED
  BY <1>3, <1>4, <1>5, <1>6

(* The rows of save_full_report, for a report that was carried forward.    *)
LEMMA CarriedMatch ==
    ASSUME TypeInv, NEW t \in InitTasks, AllCarried(mem[t].sessions),
           \A w \in cfRows : w.commit # CommitOf[t],
           \A f \in FinTasks : CommitOf[f] = CommitOf[t] =>
                \A u \in Range(Batch[f]) : order[u] = None
    PROVE  Match(CommitOf[t], mem[t].sessions,
                 cfRows \cup CarriedRows(t, DOMAIN mem[t].sessions), order)
<1> DEFINE c == CommitOf[t]
           S == mem[t].sessions
           row(n) == [commit |-> c, order |-> n, src |-> S[n].src, by |-> t]
           P == CarriedRows(t, DOMAIN S)
<1>1. P = {row(n) : n \in DOMAIN S}
  BY DEF CarriedRows
<1>2. \A n : row(n).commit = c /\ row(n).order = n /\ row(n).src = S[n].src
  OBVIOUS
<1>3. \A n \in DOMAIN S : S[n] \in SessionSet /\ S[n].cf
  <2>1. mem[t] \in Reports
    BY DEF TypeInv, Tasks
  <2>2. S \in SessionMaps
    BY <2>1 DEF Reports
  <2> QED
    BY <2>2, SessionMapElements DEF AllCarried
<1>4. \A n \in DOMAIN S : S[n] = [src |-> S[n].src, cf |-> TRUE]
  BY <1>3 DEF SessionSet
<1> HIDE DEF P, S, row
<1>5. \A n \in DOMAIN S : {w \in cfRows \cup P : w.commit = c /\ w.order = n} = {row(n)}
  BY <1>1, <1>2
<1>6. \A n \in DOMAIN S : Cardinality({w \in cfRows \cup P : w.commit = c /\ w.order = n}) = 1
  BY <1>5, FS_Singleton
<1>7. ASSUME NEW w \in cfRows \cup P, w.commit = c
      PROVE  w.order \in DOMAIN S /\ S[w.order] = [src |-> w.src, cf |-> TRUE]
  <2>1. PICK n \in DOMAIN S : w = row(n)
    BY <1>1, <1>7
  <2> QED
    BY <1>2, <1>4, <2>1
<1> QED
  BY <1>3, <1>6, <1>7 DEF Match, P, S

(* The rows of a carried-forward session name its number and its upload.   *)
LEMMA CarriedRowTypes ==
    ASSUME TypeInv, NEW t \in InitTasks, NEW N \in SUBSET DOMAIN mem[t].sessions
    PROVE  /\ CarriedRows(t, N) \in SUBSET CarriedRowSet
           /\ \A w \in CarriedRows(t, N) : w.commit = CommitOf[t]
<1>1. t \in Tasks /\ CommitOf[t] \in Commits /\ mem[t].sessions \in SessionMaps
  BY TaskAssumption DEF Tasks, TypeInv, Reports
<1>2. \A n \in DOMAIN mem[t].sessions : n \in Nat /\ mem[t].sessions[n].src \in Uploads
  BY <1>1, SessionMapElements DEF SessionSet
<1> QED
  BY <1>1, <1>2 DEF CarriedRows, CarriedRowSet

(* The rows of a carried-forward report are committed, all of them or, when*)
(* an exception came in between, some.                                     *)
LEMMA InitSavedStep ==
    ASSUME IInv, NEW t \in InitTasks, NEW s \in {"done", "dead"},
           NEW N \in SUBSET DOMAIN mem[t].sessions,
           pc[t] = "json", SaveCommitRow(t), Leave(t, s),
           cfRows' = cfRows \cup CarriedRows(t, N),
           ~damaged' => ~damaged /\ N = DOMAIN mem[t].sessions,
           damaged' \in BOOLEAN, faults' \in 0 .. MaxFaults,
           UNCHANGED <<chunks, json, order, uState, tx>>
    PROVE  IInv'
<1>1. TypeInv /\ LockInv /\ StateInv
  BY DEF IInv
<1>2. t \in Tasks /\ t \notin FinTasks /\ pc[t] \in Saving
  BY TaskAssumption DEF Tasks, Saving
<1>3. /\ CarriedRows(t, N) \in SUBSET CarriedRowSet
      /\ \A w \in CarriedRows(t, N) : w.commit = CommitOf[t]
  BY <1>1, CarriedRowTypes
<1>4. /\ hasReport' \in [Commits -> BOOLEAN]
      /\ state' \in [Commits -> {"pending", "complete", "error"}]
      /\ hasReport' = [hasReport EXCEPT ![CommitOf[t]] = TRUE]
  BY <1>1, <1>2, CommitRow
<1>5. TypeInv' /\ LockInv'
  <2>1. cfRows' \in SUBSET CarriedRowSet
    BY <1>1, <1>3 DEF TypeInv
  <2> QED
    BY <1>1, <1>2, <1>4, <2>1, LeaveTypes DEF TypeInv
<1>6. /\ pc'[t] \in {"done", "dead"}
      /\ \A o \in Tasks : o # t => pc'[o] = pc[o] /\ mem'[o] = mem[o]
      /\ \A f \in FinTasks : f # t => known'[f] = known[f] /\ tx'[f] = tx[f]
  BY <1>1, <1>2, LeaveTypes
<1>7. \A w : w.commit # CommitOf[t] => (w \in cfRows' <=> w \in cfRows)
  BY <1>3
<1>8. ASSUME ~damaged' PROVE Match(CommitOf[t], mem[t].sessions, cfRows', order')
  <2>1. ~hasReport[CommitOf[t]] /\ AllCarried(mem[t].sessions)
    BY <1>1, <1>2, <1>8 DEF StateInv, SaveInv, MemInv
  <2>2. \A w \in cfRows : w.commit # CommitOf[t]
    BY <1>1, <2>1 DEF StateInv, RowInv
  <2>3. \A f \in FinTasks : CommitOf[f] = CommitOf[t] =>
            \A u \in Range(Batch[f]) : order[u] = None
    BY <1>1, <1>8, <2>1 DEF StateInv, RowInv
  <2> QED
    BY <1>1, <1>8, <2>1, <2>2, <2>3, CarriedMatch
<1>9. StateInv'
  BY <1>1, <1>2, <1>4, <1>6, <1>7, <1>8, CommitStep
<1> QED
  BY <1>5, <1>9 DEF IInv

(* Initialisers that come to the commit, or to an exception on the way.    *)
LEMMA InitEndStep ==
    ASSUME IInv, NEW t \in InitTasks, InitCommit(t) \/ InitError(t)
    PROVE  IInv'
<1>1. TypeInv /\ LockInv /\ StateInv
  BY DEF IInv
<1>2. t \in Tasks /\ t \notin FinTasks
  BY TaskAssumption DEF Tasks
<1>3. /\ faults \in 0 .. MaxFaults /\ damaged \in BOOLEAN /\ MaxFaults \in Nat
  BY <1>1, TaskAssumption DEF TypeInv
<1>4. CASE InitCommit(t)
  <2>1. /\ pc[t] = "json" /\ SaveCommitRow(t) /\ Leave(t, "done")
        /\ cfRows' = cfRows \cup CarriedRows(t, DOMAIN mem[t].sessions)
        /\ UNCHANGED <<chunks, json, order, uState, tx>> /\ UNCHANGED <<faults, damaged>>
    BY <1>4 DEF InitCommit, End, storage, history
  <2> QED
    BY <1>3, <2>1, InitSavedStep
<1>5. CASE InitError(t)
  <2>1. /\ faults < MaxFaults /\ faults' = faults + 1 /\ SaveCommitRow(t)
        /\ Leave(t, "dead") /\ UNCHANGED <<chunks, json, order, uState, tx>>
        /\ pc[t] \in {"carrying"} \cup Saving
    BY <1>5 DEF InitError, Event, storage
  <2>2. PICK N \in SUBSET DOMAIN mem[t].sessions :
            /\ pc[t] # "json" => N = {}
            /\ cfRows' = cfRows \cup CarriedRows(t, N)
            /\ damaged' = (damaged \/ (pc[t] = "json" /\ N # DOMAIN mem[t].sessions))
    BY <1>5 DEF InitError
  <2>3. faults' \in 0 .. MaxFaults
    BY <1>3, <2>1
  <2>4. damaged' \in BOOLEAN /\ (~damaged' => ~damaged)
    BY <1>3, <2>2
  <2>5. CASE pc[t] = "json"
    <3>1. ~damaged' => N = DOMAIN mem[t].sessions
      BY <2>2, <2>5
    <3> QED
      BY <2>1, <2>2, <2>3, <2>4, <2>5, <3>1, InitSavedStep
  <2>6. CASE pc[t] # "json"
    <3>1. cfRows' = cfRows
      BY <2>2, <2>6 DEF CarriedRows
    <3>2. hasReport' = hasReport /\ state' \in [Commits -> {"pending", "complete", "error"}]
      BY <1>1, <1>2, <2>1, <2>6, CommitRow
    <3>3. ~damaged' /\ pc[t] \in Saving => ~hasReport[CommitOf[t]]
      BY <1>1, <1>2, <2>4 DEF StateInv, SaveInv
    <3> QED
      BY <1>2, <2>1, <2>3, <2>4, <3>1, <3>2, <3>3, EndStep
  <2> QED
    BY <2>5, <2>6
<1> QED
  BY <1>4, <1>5

-----------------------------------------------------------------------------
(* The steps of finishers.                                                 *)

(* Before the report is merged.                                            *)
LEMMA FinWaitStep ==
    ASSUME IInv, NEW f \in FinTasks, FinStart(f) \/ FinLockTimeout(f)
    PROVE  IInv'
<1>1. TypeInv /\ LockInv /\ StateInv
  BY DEF IInv
<1>2. f \in Tasks /\ f \notin InitTasks /\ CommitOf[f] \in Commits
      /\ InitTasks \subseteq Tasks /\ FinTasks \subseteq Tasks
  BY TaskAssumption DEF Tasks
<1>3. /\ UNCHANGED <<chunks, json, hasReport, state, cfRows, order, uState>>
      /\ UNCHANGED <<mem, base, tx, preLock, reportLock, faults, damaged>>
      /\ pc[f] \in {"new", "waiting"}
  BY DEF FinStart, FinLockTimeout, storage, rows, locals, locks, history
<1>4. PICK s \in {"new", "waiting"} : pc' = [pc EXCEPT ![f] = s]
  BY DEF FinStart, FinLockTimeout, Goto
<1>5. /\ known' \in [FinTasks -> BOOLEAN]
      /\ \A g \in FinTasks : g # f => known'[g] = known[g]
      /\ known'[f] => hasReport[CommitOf[f]]
  <2>1. CASE FinStart(f)
    BY <1>1, <1>2, <2>1 DEF FinStart, TypeInv
  <2>2. CASE FinLockTimeout(f)
    BY <1>1, <2>2 DEF FinLockTimeout, locals, TypeInv, StateInv, FinInv, ReadInv
  <2> QED
    BY <2>1, <2>2
<1>6. /\ pc' \in [Tasks -> InitPcs \cup FinPcs] /\ pc'[f] = s
      /\ \A o \in Tasks : o # f => pc'[o] = pc[o]
      /\ \A o \in InitTasks : pc'[o] \in InitPcs
      /\ \A g \in FinTasks : pc'[g] \in FinPcs
  BY <1>1, <1>2, <1>4 DEF TypeInv, InitPcs, FinPcs
<1>7. TypeInv'
  <2>1. \A o \in InitTasks : pc'[o] = "reading" => base[o] \in Commits
    BY <1>1, <1>2, <1>6 DEF TypeInv
  <2> QED
    BY <1>1, <1>3, <1>5, <1>6, <2>1 DEF TypeInv
<1>8. LockInv'
  BY <1>1, <1>2, <1>3, <1>6 DEF LockInv, Saving
<1>9. pc'[f] \notin Saving /\ pc[f] \notin Saving /\ MemInv(f)'
  BY <1>3, <1>6 DEF MemInv, Saving
<1>10. FinInv(f)'
  BY <1>1, <1>3, <1>5, <1>6 DEF StateInv, FinInv, ReadInv, StayInv, TxInv, Saving
<1>11. StateInv'
  BY <1>1, <1>2, <1>3, <1>5, <1>6, <1>9, <1>10, FrameStep
<1> QED
  BY <1>7, <1>8, <1>11 DEF IInv

(* The lock is taken and the chunks are read.                              *)
LEMMA FinAcquireLockStep ==
    ASSUME IInv, NEW f \in FinTasks, FinAcquireLock(f)
    PROVE  IInv'
<1> DEFINE c == CommitOf[f]
           L == IF known[f] THEN chunks[c] ELSE {}
           e == ChunksOnly(L)
<1>1. TypeInv /\ LockInv /\ StateInv
  BY DEF IInv
<1>2. f \in Tasks /\ f \notin InitTasks /\ c \in Commits
      /\ InitTasks \subseteq Tasks /\ FinTasks \subseteq Tasks
  BY TaskAssumption DEF Tasks
<1>3. /\ UNCHANGED <<chunks, json, hasReport, state, cfRows, order, uState>>
      /\ UNCHANGED <<known, base, tx, preLock, faults, damaged>>
      /\ pc[f] = "waiting" /\ pc' = [pc EXCEPT ![f] = "reading"]
      /\ mem' = [mem EXCEPT ![f] = e] /\ reportLock[c] = None
      /\ reportLock' = [reportLock EXCEPT ![c] = f]
  BY DEF FinAcquireLock, Goto, storage, rows, history
<1>4. e \in Reports /\ e.lines = L
  <2>1. L \in SUBSET (Nat \X Uploads)
    BY <1>1, <1>2 DEF TypeInv
  <2> QED
    BY <2>1, ChunksOnlyReport
<1> HIDE DEF e
<1>5. /\ pc' \in [Tasks -> InitPcs \cup FinPcs] /\ pc'[f] = "reading"
      /\ \A o \in Tasks : o # f => pc'[o] = pc[o]
      /\ \A o \in InitTasks : pc'[o] \in InitPcs
      /\ \A g \in FinTasks : pc'[g] \in FinPcs
  BY <1>1, <1>2, <1>3 DEF TypeInv, InitPcs, FinPcs
<1>6. /\ mem' \in [Tasks -> Reports] /\ mem'[f] = e
      /\ \A o \in Tasks : o # f => mem'[o] = mem[o]
  BY <1>1, <1>2, <1>3, <1>4 DEF TypeInv
<1>7. /\ reportLock' \in [Commits -> FinTasks \cup {None}] /\ reportLock'[c] = f
      /\ \A d \in Commits : d # c => reportLock'[d] = reportLock[d]
      /\ \A d \in Commits : reportLock'[d] # None => CommitOf[reportLock'[d]] = d
  BY <1>1, <1>2, <1>3 DEF TypeInv
<1>8. TypeInv'
  <2>1. \A o \in InitTasks : pc'[o] = "reading" => base[o] \in Commits
    BY <1>1, <1>2, <1>5 DEF TypeInv
  <2> QED
    BY <1>1, <1>3, <1>5, <1>6, <1>7, <2>1 DEF TypeInv
<1>9. LockInv'
  <2> SUFFICES ASSUME NEW g \in FinTasks
               PROVE  pc'[g] \in {"reading", "merged"} \cup Saving =>
                        reportLock'[CommitOf[g]] = g
    BY DEF LockInv
  <2>1. CASE g = f
    BY <1>5, <1>7, <2>1
  <2>2. CASE g # f
    <3>1. /\ CommitOf[g] \in Commits /\ pc'[g] = pc[g] /\ g # None
          /\ pc[g] \in {"reading", "merged"} \cup Saving => reportLock[CommitOf[g]] = g
      BY <1>1, <1>2, <1>5, <2>2, TaskAssumption DEF LockInv
    <3> QED
      BY <1>3, <1>7, <2>2, <3>1
  <2> QED
    BY <2>1, <2>2
<1>10. pc'[f] \notin Saving /\ pc[f] \notin Saving /\ MemInv(f)'
  BY <1>3, <1>5 DEF MemInv, Saving
<1>11. FinInv(f)'
  <2>1. known[f] => mem'[f].lines = chunks[c]
    BY <1>4, <1>6
  <2> QED
    BY <1>1, <1>3, <1>5, <2>1 DEF StateInv, FinInv, ReadInv, StayInv, TxInv, Saving
<1>12. StateInv'
  BY <1>1, <1>2, <1>3, <1>5, <1>6, <1>10, <1>11, FrameStep
<1> QED
  BY <1>8, <1>9, <1>12 DEF IInv

(* What update_uploads is going to commit.                                 *)
LEMMA UpdateTypes ==
    ASSUME TypeInv, NEW f \in FinTasks, NEW r, NEW m, NEW x,
           m \in UNION {[D -> Nat] : D \in SUBSET Uploads},
           x = UpdateUploads(f, r, m)
    PROVE  /\ x \in Txs /\ DOMAIN x.order = Range(Batch[f])
           /\ \A w \in x.deleted : w.commit = CommitOf[f]
<1> DEFINE B == Range(Batch[f])
           O == [u \in B |-> IF u \in DOMAIN m THEN m[u] ELSE None]
           D == {w \in cfRows : /\ w.commit = CommitOf[f]
                                /\ w.order \in ClearedSessions(r, f)}
<1>1. x = [order |-> O, deleted |-> D]
  BY DEF UpdateUploads
<1>2. B \in SUBSET Uploads
  BY TaskAssumption DEF Range
<1>3. D \in SUBSET CarriedRowSet /\ \A w \in D : w.commit = CommitOf[f]
  BY DEF TypeInv
<1>4. PICK E \in SUBSET Uploads : m \in [E -> Nat]
  OBVIOUS
<1> HIDE DEF B, D
<1>5. O \in [B -> Nat \cup {None}] /\ DOMAIN O = B
  BY <1>4
<1>6. O \in UNION {[F -> Nat \cup {None}] : F \in SUBSET Uploads}
  <2> HIDE DEF O
  <2> QED
    BY <1>2, <1>5
<1> HIDE DEF O
<1>7. x \in Txs /\ x.order = O /\ x.deleted = D
  BY <1>1, <1>3, <1>6 DEF Txs
<1> QED
  BY <1>3, <1>5, <1>7 DEF B

(* What a finisher has read, if nothing is damaged: a proper report, and   *)
(* rows that belong to it.                                                 *)
LEMMA FinReads ==
    ASSUME IInv, NEW f \in FinTasks, pc[f] = "reading", ~damaged, NEW r,
           r = IF known[f] THEN FromChunks(mem[f].lines, json[CommitOf[f]]) ELSE EmptyReport
    PROVE  /\ Whole(r) /\ Superseded(r.sessions)
           /\ known[f] => r.sessions = json[CommitOf[f]].sessions
           /\ (hasReport[CommitOf[f]] => known[f]) =>
                Match(CommitOf[f], r.sessions, cfRows, order)
<1> DEFINE c == CommitOf[f]
<1>1. TypeInv /\ LockInv /\ StateInv
  BY DEF IInv
<1>2. f \in Tasks /\ c \in Commits
  BY TaskAssumption DEF Tasks
<1>3. CASE known[f]
  <2>1. hasReport[c] /\ mem[f].lines = chunks[c]
    BY <1>1, <1>3 DEF StateInv, FinInv, ReadInv
  <2>2. NobodySaves(c)
    <3> SUFFICES ASSUME NEW o \in Tasks, CommitOf[o] = c, pc[o] \in Saving PROVE FALSE
      BY DEF NobodySaves
    <3>1. o \in FinTasks
      BY <1>1, <2>1 DEF StateInv, SaveInv
    <3>2. o = f
      BY <1>1, <3>1, OneFinisher
    <3> QED
      BY <3>2 DEF Saving
  <2>3. /\ Coherent(FromChunks(chunks[c], json[c])) /\ Superseded(json[c].sessions)
        /\ Match(c, json[c].sessions, cfRows, order)
    BY <1>1, <1>2, <2>1, <2>2 DEF StateInv, StoreInv
  <2>4. /\ chunks[c] \in SUBSET (Nat \X Uploads)
        /\ json[c] \in [sessions : SessionMaps, files : BOOLEAN]
    BY <1>1, <1>2 DEF TypeInv
  <2>5. r = FromChunks(chunks[c], json[c])
    BY <1>3, <2>1
  <2>6. r.sessions = json[c].sessions /\ Whole(r)
    BY <2>3, <2>4, <2>5, FromChunksReport
  <2> QED
    BY <2>3, <2>6
<1>4. CASE ~known[f]
  <2>1. r = EmptyReport
    BY <1>4
  <2>2. Whole(r) /\ r.sessions = NoSessions /\ DOMAIN NoSessions = {}
    BY <2>1, EmptyReportIsWhole
  <2>3. Superseded(NoSessions)
    BY <2>2 DEF Superseded
  <2>4. ASSUME ~hasReport[c] PROVE Match(c, NoSessions, cfRows, order)
    <3>1. \A w \in cfRows : w.commit # c
      BY <1>1, <2>4 DEF StateInv, RowInv
    <3>2. \A g \in FinTasks : CommitOf[g] = c => \A u \in Range(Batch[g]) : order[u] = None
      BY <1>1, <2>4 DEF StateInv, RowInv
    <3> QED
      BY <2>2, <3>1, <3>2 DEF Match
  <2> QED
    BY <1>4, <2>2, <2>3, <2>4
<1> QED
  BY <1>3, <1>4

(* merge_reports and update_uploads, on what the finisher has read.        *)
LEMMA FinMergeStep ==
    ASSUME IInv, NEW f \in FinTasks, FinMerge(f)
    PROVE  IInv'
<1> DEFINE c == CommitOf[f]
           r == IF known[f] THEN FromChunks(mem[f].lines, json[c]) ELSE EmptyReport
           q == MergeReports(r, f)
           x == UpdateUploads(f, r, q.m)
<1>1. TypeInv /\ LockInv /\ StateInv
  BY DEF IInv
<1>2. f \in Tasks /\ f \notin InitTasks /\ c \in Commits
      /\ InitTasks \subseteq Tasks /\ FinTasks \subseteq Tasks
  BY TaskAssumption DEF Tasks
<1>3. /\ UNCHANGED <<chunks, json, hasReport, state, cfRows, order, uState>>
      /\ UNCHANGED <<known, base, preLock, reportLock, faults, damaged>>
      /\ pc[f] = "reading" /\ pc' = [pc EXCEPT ![f] = "merged"]
      /\ mem' = [mem EXCEPT ![f] = q.report] /\ tx' = [tx EXCEPT ![f] = x]
  BY DEF FinMerge, Goto, storage, rows, locks, history
<1>4. r \in Reports
  <2>1. /\ mem[f].lines \in SUBSET (Nat \X Uploads)
        /\ json[c] \in [sessions : SessionMaps, files : BOOLEAN]
    BY <1>1, <1>2 DEF TypeInv, Reports
  <2> QED
    BY <2>1, FromChunksReport, EmptyReportIsWhole
<1>5. ~damaged =>
        /\ Whole(r) /\ Superseded(r.sessions)
        /\ known[f] => r.sessions = json[c].sessions
        /\ (hasReport[c] => known[f]) => Match(c, r.sessions, cfRows, order)
  BY <1>3, FinReads
<1> HIDE DEF r
<1>6. q \in Merges /\ (Whole(r) => Whole(q.report))
  BY <1>4, MergeResult
<1>7. Whole(r) /\ Superseded(r.sessions) =>
        Superseded(q.report.sessions) /\ Stays(r.sessions, q.report.sessions)
  BY <1>4, MergeSupersedes
<1>8. \A u \in Range(Batch[f]) : order[u] = None
  BY <1>1, <1>3 DEF StateInv, FinInv, TxInv
<1>9. Match(c, r.sessions, cfRows, order) =>
        Match(c, q.report.sessions, cfRows \ x.deleted,
              [u \in Uploads |-> IF u \in DOMAIN x.order THEN x.order[u] ELSE order[u]])
  <2>1. order \in [Uploads -> Nat \cup {None}]
    BY <1>1 DEF TypeInv
  <2> HIDE DEF x
  <2>2. x = UpdateUploads(f, r, MergeReports(r, f).m)
    BY DEF x
  <2> QED
    BY <1>4, <1>8, <2>1, <2>2, MergeMatches
<1>10. q.report \in Reports /\ q.m \in UNION {[D -> Nat] : D \in SUBSET Uploads}
  BY <1>6 DEF Merges
<1> HIDE DEF q
<1>11. /\ x \in Txs /\ DOMAIN x.order = Range(Batch[f])
       /\ \A w \in x.deleted : w.commit = c
  <2> HIDE DEF x
  <2>1. x = UpdateUploads(f, r, q.m)
    BY DEF x
  <2> QED
    BY <1>1, <1>10, <2>1, UpdateTypes
<1> HIDE DEF x
<1>12. /\ pc' \in [Tasks -> InitPcs \cup FinPcs] /\ pc'[f] = "merged"
       /\ \A o \in Tasks : o # f => pc'[o] = pc[o]
       /\ \A o \in InitTasks : pc'[o] \in InitPcs
       /\ \A g \in FinTasks : pc'[g] \in FinPcs
  BY <1>1, <1>2, <1>3 DEF TypeInv, InitPcs, FinPcs
<1>13. /\ mem' \in [Tasks -> Reports] /\ mem'[f] = q.report
       /\ \A o \in Tasks : o # f => mem'[o] = mem[o]
  BY <1>1, <1>2, <1>3, <1>10 DEF TypeInv
<1>14. /\ tx' \in [FinTasks -> Txs] /\ tx'[f] = x
       /\ \A g \in FinTasks : g # f => tx'[g] = tx[g]
  BY <1>1, <1>3, <1>11 DEF TypeInv
<1>15. TypeInv'
  <2>1. \A o \in InitTasks : pc'[o] = "reading" => base[o] \in Commits
    BY <1>1, <1>2, <1>12 DEF TypeInv
  <2> QED
    BY <1>1, <1>3, <1>12, <1>13, <1>14, <2>1 DEF TypeInv
<1>16. LockInv'
  BY <1>1, <1>2, <1>3, <1>12 DEF LockInv, Saving
<1>17. pc'[f] \notin Saving /\ pc[f] \notin Saving /\ MemInv(f)'
  BY <1>2, <1>3, <1>5, <1>6, <1>7, <1>12, <1>13 DEF MemInv, Saving, q
<1>18. ReadInv(f)' /\ StayInv(f)'
  BY <1>1, <1>3, <1>5, <1>7, <1>12, <1>13 DEF StateInv, FinInv, ReadInv, StayInv
<1>19. TxInv(f)'
  <2>1. OrderAfter(f)' =
          [u \in Uploads |-> IF u \in DOMAIN x.order THEN x.order[u] ELSE order[u]]
    BY <1>3, <1>14 DEF OrderAfter
  <2> QED
    BY <1>3, <1>5, <1>8, <1>9, <1>11, <1>13, <1>14, <2>1 DEF TxInv
<1>20. StateInv'
  <2>1. FinInv(f)'
    BY <1>18, <1>19 DEF FinInv
  <2> QED
    BY <1>1, <1>2, <1>3, <1>12, <1>13, <1>14, <1>17, <2>1, FrameStep
<1> QED
  BY <1>15, <1>16, <1>20 DEF IInv

(* The row changes of update_uploads, when they are committed.             *)
LEMMA CommittedRows ==
    ASSUME TypeInv, StateInv, NEW f \in FinTasks, CommitUploads(f)
    PROVE  /\ cfRows' = cfRows \ tx[f].deleted /\ order' = OrderAfter(f)
           /\ cfRows' \in SUBSET CarriedRowSet
           /\ order' \in [Uploads -> Nat \cup {None}]
           /\ uState' \in [Uploads -> {"uploaded", "processed", "error"}]
           /\ tx' \in [FinTasks -> Txs] /\ tx'[f] = NoTx
           /\ \A g \in FinTasks : g # f => tx'[g] = tx[g]
           /\ \A u \in Uploads : u \notin Range(Batch[f]) => order'[u] = order[u]
           /\ \A w : w.commit # CommitOf[f] => (w \in cfRows' <=> w \in cfRows)
<1>1. /\ cfRows' = cfRows \ tx[f].deleted /\ order' = OrderAfter(f)
      /\ uState' = [u \in Uploads |->
                        IF u \notin DOMAIN tx[f].order THEN uState[u]
                        ELSE IF u \in Failed THEN "error" ELSE "processed"]
      /\ tx' = [tx EXCEPT ![f] = NoTx]
  BY DEF CommitUploads, OrderAfter
<1>2. /\ DOMAIN tx[f].order \subseteq Range(Batch[f])
      /\ \A w \in tx[f].deleted : w.commit = CommitOf[f]
  BY DEF StateInv, FinInv, TxInv
<1>3. /\ cfRows \in SUBSET CarriedRowSet /\ order \in [Uploads -> Nat \cup {None}]
      /\ uState \in [Uploads -> {"uploaded", "processed", "error"}]
      /\ tx \in [FinTasks -> Txs]
  BY DEF TypeInv
<1>4. PICK D \in SUBSET Uploads : tx[f].order \in [D -> Nat \cup {None}]
  <2>1. tx[f].order \in UNION {[D -> Nat \cup {None}] : D \in SUBSET Uploads}
    BY <1>3 DEF Txs
  <2> QED
    BY <2>1
<1>5. /\ OrderAfter(f) \in [Uploads -> Nat \cup {None}]
      /\ \A u \in Uploads : u \notin Range(Batch[f]) => OrderAfter(f)[u] = order[u]
  BY <1>2, <1>3, <1>4 DEF OrderAfter
<1>6. NoTx \in Txs
  <2> DEFINE n == [u \in {} |-> None]
  <2>1. n \in [{} -> Nat \cup {None}]
    OBVIOUS
  <2>2. NoTx = [order |-> n, deleted |-> {}]
    BY DEF NoTx
  <2> HIDE DEF n
  <2>3. n \in UNION {[F -> Nat \cup {None}] : F \in SUBSET Uploads}
    BY <2>1
  <2> QED
    BY <2>2, <2>3 DEF Txs
<1>7. uState' \in [Uploads -> {"uploaded", "processed", "error"}]
  BY <1>1, <1>3
<1>8. /\ tx' \in [FinTasks -> Txs] /\ tx'[f] = NoTx
      /\ \A g \in FinTasks : g # f => tx'[g] = tx[g]
  BY <1>1, <1>3, <1>6
<1> QED
  BY <1>1, <1>2, <1>3, <1>5, <1>7, <1>8

(* An exception before the json is written: rows and numbers without a     *)
(* report that has them.  What is left is what holds of damaged reports.   *)
LEMMA FinDamagedStep ==
    ASSUME IInv, NEW f \in FinTasks, CommitUploads(f), Leave(f, "done"),
           damaged' = TRUE, UNCHANGED <<chunks, json, hasReport>>
    PROVE  StateInv'
<1>1. TypeInv /\ LockInv /\ StateInv
  BY DEF IInv
<1>2. f \in Tasks /\ FinTasks \subseteq Tasks
  BY DEF Tasks
<1>3. /\ cfRows' = cfRows \ tx[f].deleted /\ tx'[f] = NoTx
      /\ \A g \in FinTasks : g # f => tx'[g] = tx[g]
      /\ \A u \in Uploads : u \notin Range(Batch[f]) => order'[u] = order[u]
  BY <1>1, CommittedRows
<1>4. /\ pc'[f] = "done" /\ ~known'[f]
      /\ \A o \in Tasks : o # f => pc'[o] = pc[o]
      /\ \A g \in FinTasks : g # f => known'[g] = known[g]
  BY <1>1, <1>2, LeaveTypes
<1>5. /\ \A g \in FinTasks : Range(Batch[g]) \subseteq Uploads
      /\ \A g \in FinTasks : g # f => Range(Batch[g]) \cap Range(Batch[f]) = {}
  BY BatchAssumption, TaskAssumption DEF Range
<1>6. ASSUME NEW g \in FinTasks PROVE FinInv(g)'
  <2>1. FinInv(g)
    BY <1>1 DEF StateInv
  <2>2. ReadInv(g)' /\ StayInv(g)'
    BY <1>4, <2>1 DEF FinInv, ReadInv, StayInv
  <2>3. CASE g = f
    <3>1. DOMAIN NoTx.order = {} /\ NoTx.deleted = {}
      BY DEF NoTx
    <3>2. TxInv(g)'
      BY <1>3, <1>4, <2>3, <3>1 DEF TxInv
    <3> QED
      BY <2>2, <3>2 DEF FinInv
  <2>4. CASE g # f
    <3>1. pc'[g] = pc[g] /\ tx'[g] = tx[g]
      BY <1>2, <1>3, <1>4, <2>4
    <3>2. \A u \in Range(Batch[g]) : order'[u] = order[u]
      BY <1>3, <1>5, <2>4
    <3>3. TxInv(g)'
      BY <2>1, <3>1, <3>2 DEF FinInv, TxInv
    <3> QED
      BY <2>2, <3>3 DEF FinInv
  <2> QED
    BY <2>3, <2>4
<1>7. RowInv'
  BY <1>1, <1>3 DEF StateInv, RowInv
<1>8. /\ \A t \in Tasks : SaveInv(t)' /\ MemInv(t)'
      /\ \A c \in Commits : StoreInv(c)'
  BY DEF SaveInv, MemInv, StoreInv
<1> QED
  BY <1>6, <1>7, <1>8 DEF StateInv

(* An empty transaction.                                                   *)
LEMMA NoTxTyped == NoTx \in Txs
<1> DEFINE n == [u \in {} |-> None]
<1>1. n \in [{} -> Nat \cup {None}]
  OBVIOUS
<1>2. NoTx = [order |-> n, deleted |-> {}]
  BY DEF NoTx
<1> HIDE DEF n
<1>3. n \in UNION {[F -> Nat \cup {None}] : F \in SUBSET Uploads}
  BY <1>1
<1> QED
  BY <1>2, <1>3 DEF Txs

(* A finisher dies, or ends after an exception, and its row changes are    *)
(* lost: there was no report, or it has not begun to overwrite it, or the  *)
(* damage is on record.                                                    *)
LEMMA FinLoseStep ==
    ASSUME IInv, NEW f \in FinTasks, Event("kill") \/ Event("save_error"),
           LoseRows(f), UNCHANGED storage, Leave(f, "done") \/ FinKilled(f),
           pc[f] \in {"waiting", "reading", "merged"} \cup Saving
    PROVE  IInv'
<1>1. TypeInv /\ LockInv /\ StateInv
  BY DEF IInv
<1>2. f \in Tasks /\ f \notin InitTasks /\ FinTasks \subseteq Tasks /\ InitTasks \subseteq Tasks
      /\ CommitOf[f] \in Commits
  BY TaskAssumption DEF Tasks
<1>3. /\ UNCHANGED <<chunks, json, hasReport, state, cfRows, order, uState>>
      /\ tx' = [tx EXCEPT ![f] = NoTx]
      /\ damaged' = (damaged \/ (pc[f] \in Saving /\ hasReport[CommitOf[f]]))
      /\ faults < MaxFaults /\ faults' = faults + 1
  BY DEF LoseRows, Event, storage, rows
<1>4. /\ damaged' \in BOOLEAN /\ (~damaged' => ~damaged)
      /\ ~damaged' /\ pc[f] \in Saving => ~hasReport[CommitOf[f]]
  <2>1. damaged \in BOOLEAN
    BY <1>1 DEF TypeInv
  <2> QED
    BY <1>3, <2>1
<1>5. faults' \in 0 .. MaxFaults
  BY <1>1, <1>3, TaskAssumption DEF TypeInv
<1>6. tx' \in [FinTasks -> Txs] /\ tx'[f] = NoTx /\ \A g \in FinTasks : g # f => tx'[g] = tx[g]
  BY <1>1, <1>3, NoTxTyped DEF TypeInv
<1>7. PICK z \in {"done", "dead"} :
        /\ pc'[f] = z
        /\ \A o \in Tasks : o # f => pc'[o] = pc[o] /\ mem'[o] = mem[o]
        /\ \A g \in FinTasks : g # f => known'[g] = known[g]
        /\ ~known'[f]
        /\ TypeInv' /\ LockInv'
  <2>1. CASE Leave(f, "done")
    BY <1>1, <1>2, <1>3, <1>4, <1>5, <1>6, <2>1, LeaveTypes DEF TypeInv
  <2>2. CASE FinKilled(f)
    <3>1. /\ pc' = [pc EXCEPT ![f] = "dead"] /\ mem' = [mem EXCEPT ![f] = EmptyReport]
          /\ known' = [known EXCEPT ![f] = FALSE]
          /\ UNCHANGED <<base, preLock, reportLock>>
      BY <2>2 DEF FinKilled, Goto, locks
    <3>2. /\ pc' \in [Tasks -> InitPcs \cup FinPcs] /\ pc'[f] = "dead"
          /\ \A o \in Tasks : o # f => pc'[o] = pc[o] /\ mem'[o] = mem[o]
          /\ \A o \in InitTasks : pc'[o] = pc[o]
      BY <1>1, <1>2, <3>1 DEF TypeInv, FinPcs
    <3>3. \A g \in FinTasks : pc'[g] \in FinPcs
      BY <1>1, <1>2, <3>2 DEF TypeInv, FinPcs
    <3>4. /\ known' \in [FinTasks -> BOOLEAN] /\ ~known'[f]
          /\ \A g \in FinTasks : g # f => known'[g] = known[g]
      BY <1>1, <3>1 DEF TypeInv
    <3>5. mem' \in [Tasks -> Reports]
      BY <1>1, <3>1, EmptyReportIsWhole DEF TypeInv
    <3>6. TypeInv'
      BY <1>1, <1>3, <1>4, <1>5, <1>6, <3>1, <3>2, <3>3, <3>4, <3>5 DEF TypeInv
    <3>7. LockInv'
      BY <1>1, <1>2, <3>1, <3>2 DEF LockInv, Saving
    <3> QED
      BY <3>2, <3>4, <3>6, <3>7
  <2> QED
    BY <2>1, <2>2
<1>8. pc'[f] \notin Saving /\ MemInv(f)'
  BY <1>7 DEF MemInv, Saving
<1>9. FinInv(f)'
  <2>1. DOMAIN NoTx.order = {} /\ NoTx.deleted = {}
    BY DEF NoTx
  <2>2. FinInv(f) /\ pc[f] \in {"waiting", "reading", "merged"} \cup Saving
    BY <1>1 DEF StateInv
  <2>3. ReadInv(f)' /\ StayInv(f)'
    BY <1>7 DEF ReadInv, StayInv
  <2>4. TxInv(f)'
    BY <1>3, <1>6, <1>7, <2>1, <2>2 DEF FinInv, TxInv, Saving
  <2> QED
    BY <2>3, <2>4 DEF FinInv
<1>10. StateInv'
  BY <1>1, <1>2, <1>3, <1>4, <1>6, <1>7, <1>8, <1>9, FrameStep
<1> QED
  BY <1>7, <1>10 DEF IInv

(* The lock of a dead finisher expires.                                    *)
LEMMA ReportLockExpiresStep ==
    ASSUME IInv, NEW f \in FinTasks, ReportLockExpires(f)
    PROVE  IInv'
<1>1. TypeInv /\ LockInv /\ StateInv
  BY DEF IInv
<1>2. f \in Tasks /\ CommitOf[f] \in Commits /\ pc[f] = "dead"
      /\ reportLock' = [reportLock EXCEPT ![CommitOf[f]] = None]
      /\ reportLock[CommitOf[f]] = f
  BY TaskAssumption DEF Tasks, ReportLockExpires
<1>3. /\ UNCHANGED <<chunks, json, hasReport, state, cfRows, order, uState>>
      /\ UNCHANGED <<pc, known, mem, base, tx, preLock, faults, damaged>>
  BY DEF ReportLockExpires, storage, rows, locals, history
<1>4. /\ reportLock' \in [Commits -> FinTasks \cup {None}]
      /\ \A c \in Commits : reportLock'[c] # None => CommitOf[reportLock'[c]] = c
  BY <1>1, <1>2 DEF TypeInv
<1>5. TypeInv'
  BY <1>1, <1>3, <1>4 DEF TypeInv
<1>6. LockInv'
  <2> SUFFICES ASSUME NEW g \in FinTasks, pc'[g] \in {"reading", "merged"} \cup Saving
               PROVE  reportLock'[CommitOf[g]] = g
    BY DEF LockInv
  <2>1. g # f /\ reportLock[CommitOf[g]] = g /\ CommitOf[g] \in Commits
    BY <1>1, <1>2, <1>3, TaskAssumption DEF LockInv, Saving, Tasks
  <2> QED
    BY <1>1, <1>2, <2>1 DEF TypeInv
<1>7. StateInv'
  <2>1. ~(pc[f] \in Saving) /\ pc'[f] \notin Saving /\ MemInv(f)'
    BY <1>2, <1>3 DEF MemInv, Saving
  <2>2. FinInv(f)
    BY <1>1 DEF StateInv
  <2>3. OrderAfter(f)' = OrderAfter(f)
    BY <1>3 DEF OrderAfter
  <2>4. FinInv(f)'
    BY <1>3, <2>2, <2>3 DEF FinInv, ReadInv, StayInv, TxInv
  <2> QED
    BY <1>1, <1>2, <1>3, <2>1, <2>4, FrameStep
<1> QED
  BY <1>5, <1>6, <1>7 DEF IInv

(* A finisher commits its row changes.                                     *)
FinCommits(f) ==
    /\ SaveCommitRow(f) /\ CommitUploads(f) /\ End(f) /\ UNCHANGED storage
    /\ pc[f] \in {"merged"} \cup Saving

(* Finishers that come to the commit, or to an exception on the way.       *)
LEMMA FinEndStep ==
    ASSUME IInv, NEW f \in FinTasks, FinCommit(f) \/ (FinError(f) /\ FinCommits(f)
                /\ damaged' = (damaged \/ pc[f] \in {"merged", "chunks"}))
    PROVE  IInv'
<1>1. TypeInv /\ LockInv /\ StateInv
  BY DEF IInv
<1>2. f \in Tasks /\ FinTasks \subseteq Tasks
  BY DEF Tasks
<1>3. /\ SaveCommitRow(f) /\ CommitUploads(f) /\ Leave(f, "done")
      /\ UNCHANGED <<chunks, json>>
      /\ pc[f] \in {"merged"} \cup Saving
  BY DEF FinCommit, FinCommits, End, storage, Saving
<1>4. /\ damaged' \in BOOLEAN /\ (~damaged' => ~damaged)
      /\ pc[f] # "json" => damaged' = TRUE
      /\ faults' \in 0 .. MaxFaults
  <2>1. faults \in 0 .. MaxFaults /\ damaged \in BOOLEAN /\ MaxFaults \in Nat
    BY <1>1, TaskAssumption DEF TypeInv
  <2>2. CASE FinCommit(f)
    BY <2>1, <2>2 DEF FinCommit, history
  <2>3. CASE ~FinCommit(f)
    <3>1. /\ faults < MaxFaults /\ faults' = faults + 1
          /\ damaged' = (damaged \/ pc[f] \in {"merged", "chunks"})
      BY <2>3 DEF FinError, Event
    <3>2. faults' \in 0 .. MaxFaults
      BY <2>1, <3>1
    <3>3. /\ damaged' \in BOOLEAN /\ (~damaged' => ~damaged)
          /\ pc[f] # "json" => damaged' = TRUE
      BY <1>3, <2>1, <3>1 DEF Saving
    <3> QED
      BY <3>2, <3>3
  <2> QED
    BY <2>2, <2>3
<1>5. /\ hasReport' \in [Commits -> BOOLEAN]
      /\ state' \in [Commits -> {"pending", "complete", "error"}]
      /\ pc[f] = "json" => hasReport' = [hasReport EXCEPT ![CommitOf[f]] = TRUE]
      /\ pc[f] # "json" => hasReport' = hasReport
  BY <1>1, <1>2, <1>3, CommitRow
<1>6. /\ cfRows' = cfRows \ tx[f].deleted /\ order' = OrderAfter(f)
      /\ cfRows' \in SUBSET CarriedRowSet
      /\ order' \in [Uploads -> Nat \cup {None}]
      /\ uState' \in [Uploads -> {"uploaded", "processed", "error"}]
      /\ tx' \in [FinTasks -> Txs] /\ tx'[f] = NoTx
      /\ \A g \in FinTasks : g # f => tx'[g] = tx[g]
      /\ \A u \in Uploads : u \notin Range(Batch[f]) => order'[u] = order[u]
      /\ \A w : w.commit # CommitOf[f] => (w \in cfRows' <=> w \in cfRows)
  BY <1>1, <1>3, CommittedRows
<1>7. TypeInv' /\ LockInv'
  BY <1>1, <1>2, <1>3, <1>4, <1>5, <1>6, LeaveTypes DEF TypeInv
<1>8. CASE pc[f] # "json"
  <2>1. StateInv'
    BY <1>3, <1>4, <1>5, <1>8, FinDamagedStep
  <2> QED
    BY <1>7, <2>1 DEF IInv
<1>9. CASE pc[f] = "json"
  <2>1. /\ pc'[f] = "done" /\ ~known'[f]
        /\ \A o \in Tasks : o # f => pc'[o] = pc[o] /\ mem'[o] = mem[o]
        /\ \A g \in FinTasks : g # f => known'[g] = known[g]
    BY <1>1, <1>2, <1>3, LeaveTypes
  <2>2. ASSUME ~damaged' PROVE Match(CommitOf[f], mem[f].sessions, cfRows', order')
    <3>1. ~damaged /\ (hasReport[CommitOf[f]] => known[f])
      BY <1>1, <1>2, <1>3, <1>4, <1>9, <2>2 DEF StateInv, SaveInv, Saving
    <3> QED
      BY <1>1, <1>3, <1>6, <3>1 DEF StateInv, FinInv, TxInv
  <2>3. \A u \in Uploads : u \notin Own(f) => order'[u] = order[u]
    BY <1>6 DEF Own
  <2>4. StateInv'
    BY <1>1, <1>2, <1>3, <1>4, <1>5, <1>6, <1>9, <2>1, <2>2, <2>3, CommitStep
  <2> QED
    BY <1>7, <2>4 DEF IInv
<1> QED
  BY <1>8, <1>9

-----------------------------------------------------------------------------
(* The invariant.                                                          *)

(* There is no report yet.                                                 *)
LEMMA InitIInv == Init => IInv
<1> SUFFICES ASSUME Init PROVE IInv
  OBVIOUS
<1>1. /\ InitTasks \subseteq Tasks /\ FinTasks \subseteq Tasks
      /\ \A f \in FinTasks : f \notin UpTasks /\ Range(Batch[f]) \subseteq Uploads
      /\ None \notin FinTasks /\ MaxFaults \in Nat
      /\ \A t \in Tasks : CommitOf[t] \in Commits
  BY TaskAssumption DEF Tasks, InitTasks, Range
<1>2. /\ pc \in [Tasks -> {"locked", "new"}]
      /\ \A f \in FinTasks : pc[f] = "new"
  BY <1>1 DEF Init
<1>3. /\ mem \in [Tasks -> Reports]
      /\ json \in [Commits -> [sessions : SessionMaps, files : BOOLEAN]]
      /\ tx \in [FinTasks -> Txs]
  <2>1. mem \in [Tasks -> Reports]
    BY EmptyReportIsWhole DEF Init
  <2>2. json \in [Commits -> [sessions : SessionMaps, files : BOOLEAN]]
    BY EmptyReportIsWhole DEF Init
  <2>3. NoTx \in Txs
    BY NoTxTyped
  <2>4. tx \in [FinTasks -> Txs]
    BY <2>3 DEF Init
  <2> QED
    BY <2>1, <2>2, <2>4
<1>4. TypeInv
  <2>1. /\ chunks \in [Commits -> SUBSET (Nat \X Uploads)]
        /\ hasReport \in [Commits -> BOOLEAN]
    BY DEF Init
  <2>2. /\ state \in [Commits -> {"pending", "complete", "error"}]
        /\ uState \in [Uploads -> {"uploaded", "processed", "error"}]
    BY DEF Init
  <2>3. cfRows \in SUBSET CarriedRowSet
    BY DEF Init
  <2>4. /\ order \in [Uploads -> Nat \cup {None}] /\ known \in [FinTasks -> BOOLEAN]
        /\ base \in [InitTasks -> Commits \cup {None}]
    BY DEF Init
  <2>5. /\ preLock \in [Commits -> PreTasks \cup {None}]
        /\ reportLock \in [Commits -> FinTasks \cup {None}]
        /\ \A c \in Commits : preLock[c] = None /\ reportLock[c] = None
    BY DEF Init
  <2>6. faults \in 0 .. MaxFaults /\ damaged \in BOOLEAN
    <3>1. faults = 0
      BY DEF Init
    <3>2. 0 \in 0 .. MaxFaults
      BY TaskAssumption
    <3>3. damaged \in BOOLEAN
      BY DEF Init
    <3> QED
      BY <3>1, <3>2, <3>3
  <2>7. /\ pc \in [Tasks -> InitPcs \cup FinPcs]
        /\ \A t \in InitTasks : pc[t] \in InitPcs /\ pc[t] # "reading"
        /\ \A f \in FinTasks : pc[f] \in FinPcs
    BY <1>1, <1>2 DEF InitPcs, FinPcs
  <2> QED
    BY <1>3, <2>1, <2>2, <2>3, <2>4, <2>5, <2>6, <2>7 DEF TypeInv
<1>5. LockInv
  BY <1>1, <1>2 DEF Init, LockInv, Saving
<1>6. StateInv
  <2>1. \A t \in Tasks : pc[t] \notin {"carrying", "merged"} \cup Saving
    BY <1>2 DEF Saving
  <2>2. \A t \in Tasks : SaveInv(t) /\ MemInv(t)
    BY <2>1 DEF SaveInv, MemInv
  <2>3. \A c \in Commits : StoreInv(c)
    BY DEF Init, StoreInv
  <2>4. ASSUME NEW f \in FinTasks PROVE FinInv(f)
    <3>1. known[f] = FALSE /\ tx[f] = NoTx /\ pc[f] = "new"
      BY <1>2 DEF Init
    <3>2. DOMAIN NoTx.order = {} /\ NoTx.deleted = {}
      BY DEF NoTx
    <3>3. \A u \in Range(Batch[f]) : order[u] = None
      BY <1>1 DEF Init
    <3> QED
      BY <3>1, <3>2, <3>3 DEF FinInv, ReadInv, StayInv, TxInv, Saving
  <2>5. RowInv
    BY <1>1 DEF Init, RowInv
  <2> QED
    BY <2>2, <2>3, <2>4, <2>5 DEF StateInv
<1> QED
  BY <1>4, <1>5, <1>6 DEF IInv

(* One step per kind of task.                                              *)
LEMMA IInvStep == IInv /\ [Next]_vars => IInv'
<1> SUFFICES ASSUME IInv, [Next]_vars PROVE IInv'
  OBVIOUS
<1>1. ASSUME NEW t \in InitTasks, InitStep(t) PROVE IInv'
  <2>1. t \in Tasks
    BY DEF Tasks
  <2> QED
    BY <1>1, <2>1, InitDoneStep, InitReadChunksStep, InitReadJsonStep, SaveReportStep,
       InitEndStep DEF InitStep
<1>2. ASSUME NEW t \in PreTasks,
             PreTestLock(t) \/ PreStep(t) \/ PreLockExpires(t)
      PROVE  IInv'
  <2>1. t \in InitTasks
    BY DEF InitTasks
  <2> QED
    BY <1>1, <1>2, <2>1, PreLockStep, InitDoneStep DEF PreStep
<1>3. ASSUME NEW t \in UpTasks, InitStep(t) PROVE IInv'
  BY <1>1, <1>3 DEF InitTasks
<1>4. ASSUME NEW t \in InitTasks, InitError(t) \/ InitKilled(t) PROVE IInv'
  BY <1>4, InitEndStep, InitKilledStep
<1>7. ASSUME NEW f \in FinTasks, FinError(f) PROVE IInv'
  <2>1. CASE LoseRows(f)
    <3>1. /\ Event("save_error") /\ Leave(f, "done") /\ UNCHANGED storage
          /\ pc[f] \in {"waiting", "reading", "merged"} \cup Saving
      BY <1>7 DEF FinError, End
    <3> QED
      BY <2>1, <3>1, FinLoseStep
  <2>2. CASE ~LoseRows(f)
    <3>1. FinCommits(f) /\ damaged' = (damaged \/ pc[f] \in {"merged", "chunks"})
      BY <1>7, <2>2 DEF FinError, FinCommits
    <3> QED
      BY <1>7, <3>1, FinEndStep
  <2> QED
    BY <2>1, <2>2
<1>8. ASSUME NEW f \in FinTasks, FinKilled(f) PROVE IInv'
  <2>1. /\ Event("kill") /\ LoseRows(f) /\ UNCHANGED storage
        /\ pc[f] \in {"waiting", "reading", "merged"} \cup Saving
    BY <1>8 DEF FinKilled
  <2> QED
    BY <1>8, <2>1, FinLoseStep
<1>9. ASSUME NEW f \in FinTasks, ReportLockExpires(f) PROVE IInv'
  BY <1>9, ReportLockExpiresStep
<1>5. ASSUME NEW f \in FinTasks, FinStep(f) PROVE IInv'
  <2>1. f \in Tasks
    BY DEF Tasks
  <2> QED
    BY <1>5, <2>1, FinWaitStep, FinAcquireLockStep, FinMergeStep, SaveReportStep, FinEndStep
       DEF FinStep
<1>6. CASE UNCHANGED vars
  <2>1. /\ UNCHANGED <<chunks, json, hasReport, state, cfRows, order, uState>>
        /\ UNCHANGED <<pc, known, mem, base, tx, preLock, reportLock, faults, damaged>>
    BY <1>6 DEF vars, storage, rows, locals, locks, history
  <2>2. TypeInv' /\ LockInv'
    BY <2>1 DEF IInv, TypeInv, LockInv
  <2>3. \A t \in Tasks : SaveInv(t)' /\ MemInv(t)'
    BY <2>1 DEF IInv, StateInv, SaveInv, MemInv
  <2>4. \A c \in Commits : StoreInv(c)'
    BY <2>1 DEF IInv, StateInv, StoreInv, NobodySaves
  <2>5. ASSUME NEW f \in FinTasks PROVE FinInv(f)'
    <3>1. OrderAfter(f)' = OrderAfter(f)
      BY <2>1 DEF OrderAfter
    <3> QED
      BY <2>1, <3>1 DEF IInv, StateInv, FinInv, ReadInv, StayInv, TxInv
  <2>6. RowInv'
    BY <2>1 DEF IInv, StateInv, RowInv
  <2> QED
    BY <2>2, <2>3, <2>4, <2>5, <2>6 DEF IInv, StateInv
<1> QED
  BY <1>2, <1>3, <1>4, <1>5, <1>6, <1>7, <1>8, <1>9 DEF Next

(* Save by save, while initialisers and finishers come in any order, every *)
(* task that may write the report of a commit keeps what it is about to    *)
(* write in step with what is stored, or the damage is on record.          *)
THEOREM SessionsInvariant == Spec => []IInv
<1>1. Init => IInv
  BY InitIInv
<1>2. IInv /\ [Next]_vars => IInv'
  BY IInvStep
<1> QED
  BY <1>1, <1>2, PTL DEF Spec

(* Every variable keeps its type: in particular session numbers stay       *)
(* natural numbers through merges, deletions and carryforward, and a lock  *)
(* is held by a task of its commit.                                        *)
THEOREM TypeCorrect == Spec => []TypeOK
<1>1. ASSUME IInv PROVE TypeOK
  <2>1. TypeInv
    BY <1>1 DEF IInv
  <2>2. ASSUME NEW c \in Commits
        PROVE  /\ chunks[c] \subseteq Nat \X Uploads
               /\ IsSessions(json[c].sessions) /\ json[c].files \in BOOLEAN
               /\ preLock[c] \in {t \in PreTasks : CommitOf[t] = c} \cup {None}
               /\ reportLock[c] \in {f \in FinTasks : CommitOf[f] = c} \cup {None}
    <3>1. /\ chunks[c] \in SUBSET (Nat \X Uploads)
          /\ json[c] \in [sessions : SessionMaps, files : BOOLEAN]
      BY <2>1 DEF TypeInv
    <3>2. IsSessions(json[c].sessions) /\ json[c].files \in BOOLEAN
      BY <3>1, SessionMapElements
    <3>3. /\ preLock[c] \in {t \in PreTasks : CommitOf[t] = c} \cup {None}
          /\ reportLock[c] \in {f \in FinTasks : CommitOf[f] = c} \cup {None}
      BY <2>1 DEF TypeInv
    <3> QED
      BY <3>1, <3>2, <3>3
  <2>3. \A t \in Tasks : IsSessions(mem[t].sessions)
    BY <2>1, SessionMapElements DEF TypeInv, Reports
  <2> QED
    BY <2>1, <2>2, <2>3 DEF TypeInv, TypeOK, CarriedRowSet
<1> QED
  BY <1>1, SessionsInvariant, PTL

(* No coverage without a session: chunks and json, written one after the   *)
(* other by several kinds of tasks, belong together whenever nobody is     *)
(* writing.                                                                *)
THEOREM LinesMatchSessionsHolds == Spec => []LinesMatchSessions
<1>1. ASSUME IInv PROVE LinesMatchSessions
  BY <1>1 DEF IInv, StateInv, StoreInv, LinesMatchSessions, Settled, NobodySaves
<1> QED
  BY <1>1, SessionsInvariant, PTL

(* clear_all_carryforward_sessions clears enough: no carried-forward       *)
(* session stays beside an uploaded one with the same carryforward flag,   *)
(* however many batches are merged, and in whatever order.                 *)
THEOREM CarriedForwardIsSupersededHolds == Spec => []CarriedForwardIsSuperseded
<1>1. ASSUME IInv PROVE CarriedForwardIsSuperseded
  BY <1>1 DEF IInv, StateInv, StoreInv, CarriedForwardIsSuperseded, Settled, NobodySaves,
              Superseded
<1> QED
  BY <1>1, SessionsInvariant, PTL

(* Database and storage agree: sessions and Upload rows correspond one to  *)
(* one by number, although next_session_number uses the numbers of cleared *)
(* sessions again.                                                         *)
THEOREM RowsMatchSessionsHolds == Spec => []RowsMatchSessions
<1>1. ASSUME IInv PROVE RowsMatchSessions
  BY <1>1 DEF IInv, StateInv, StoreInv, RowsMatchSessions, Settled, NobodySaves, Match,
              Uploaded
<1> QED
  BY <1>1, SessionsInvariant, PTL

(* A step that changes the json of a commit is a save, and a save keeps the*)
(* sessions it found, or supersedes them.                                  *)
LEMMA JsonStep ==
    ASSUME IInv, Next, NEW c \in Commits, json'[c] # json[c], ~damaged', hasReport[c]
    PROVE  Stays(json[c].sessions, json'[c].sessions)
<1>1. TypeInv /\ LockInv /\ StateInv
  BY DEF IInv
<1>2. PICK t \in Tasks : WriteJson(t)
  <2>1. ASSUME NEW t \in InitTasks, InitStep(t), ~WriteJson(t) PROVE FALSE
    BY <2>1 DEF InitStep, InitNothingToDo, InitReadChunks, InitReadJson, InitWriteChunks,
                WriteChunks, InitCommit, storage
  <2>2. ASSUME NEW t \in PreTasks, ~WriteJson(t),
               PreTestLock(t) \/ PreStep(t) \/ PreLockExpires(t)
        PROVE  FALSE
    BY <2>1, <2>2 DEF PreTestLock, PreStep, PreAcquireLock, PreNotReady, PreLockExpires,
                      storage, InitTasks
  <2>3. ASSUME NEW t \in InitTasks, InitError(t) \/ InitKilled(t) PROVE FALSE
    BY <2>3 DEF InitError, InitKilled, storage
  <2>4. ASSUME NEW f \in FinTasks, FinStep(f), ~WriteJson(f) PROVE FALSE
    BY <2>4 DEF FinStep, FinStart, FinAcquireLock, FinLockTimeout, FinMerge, FinWriteChunks,
                WriteChunks, FinCommit, storage
  <2>5. ASSUME NEW f \in FinTasks, FinError(f) \/ FinKilled(f) \/ ReportLockExpires(f)
        PROVE  FALSE
    BY <2>5 DEF FinError, FinKilled, ReportLockExpires, storage
  <2> QED
    BY <2>1, <2>2, <2>3, <2>4, <2>5 DEF Next, Tasks, InitTasks
<1>3. /\ json' = [json EXCEPT ![CommitOf[t]] =
                    [sessions |-> mem[t].sessions, files |-> mem[t].files]]
      /\ pc[t] = "chunks" /\ damaged' = damaged
  BY <1>2 DEF WriteJson, history
<1>4. c = CommitOf[t] /\ json'[c].sessions = mem[t].sessions
  <2>1. json \in [Commits -> [sessions : SessionMaps, files : BOOLEAN]]
    BY <1>1 DEF TypeInv
  <2> QED
    BY <1>3, <2>1
<1>5. t \in FinTasks /\ known[t]
  BY <1>1, <1>3, <1>4 DEF StateInv, SaveInv, Saving
<1> QED
  BY <1>1, <1>3, <1>4, <1>5 DEF StateInv, FinInv, StayInv

(* A merge never drops or renumbers an uploaded session, and drops a       *)
(* carried-forward one only for an upload with coverage for its flag.      *)
THEOREM SessionsStayHolds == Spec => SessionsStay
<1> DEFINE P == \A c \in Commits : \A n \in DOMAIN json[c].sessions :
                 LET s == json[c].sessions[n]
                     S == json'[c].sessions
                 IN  \/ n \in DOMAIN S /\ S[n] = s
                     \/ damaged'
                     \/ ~hasReport[c]
                     \/ s.cf /\ \E m \in DOMAIN S :
                         ~S[m].cf /\ FlagsOf[S[m].src] \cap FlagsOf[s.src] \cap CarryFlags # {}
<1>1. IInv /\ [Next]_vars => [P]_vars
  <2> SUFFICES ASSUME IInv, Next PROVE P
    OBVIOUS
  <2> SUFFICES ASSUME NEW c \in Commits, ~damaged', hasReport[c]
               PROVE  Stays(json[c].sessions, json'[c].sessions)
    BY DEF Stays
  <2>1. CASE json'[c] = json[c]
    BY <2>1 DEF Stays
  <2>2. CASE json'[c] # json[c]
    BY <2>2, JsonStep
  <2> QED
    BY <2>1, <2>2
<1> QED
  BY <1>1, SessionsInvariant, PTL DEF Spec, SessionsStay

=============================================================================
