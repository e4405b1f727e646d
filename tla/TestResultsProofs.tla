-------------------------- MODULE TestResultsProofs -------------------------
(***************************************************************************)
(* Proofs about TestResults, for any finite set of uploads, any commits and*)
(* workers, any limits and any selection of Events.                        *)
(***************************************************************************)
EXTENDS TestResults, RecursionLemmas, FiniteSetTheorems, TLAPS

-----------------------------------------------------------------------------
(* Flake rows.                                                             *)

(* What a transaction has in hand: no open row but the one it works on, and*)
(* an open row has not passed FLAKE_EXPIRY_COUNT times in a row.           *)
RowsInv(rs, k) ==
    \A i \in DOMAIN rs : rs[i].open =>
        /\ i = k
        /\ rs[i].recent < Expiry
        /\ rs[i].fails + rs[i].recent <= rs[i].count

Transactions ==
    {t \in [rows : Seq(FlakeRows), curr : Nat] :
        t.curr <= Len(t.rows) /\ RowsInv(t.rows, t.curr)}

(* update_flake keeps the row a row; it only adds a failure for a failure. *)
LEMMA UpdateFlakeRow ==
    ASSUME NEW f \in FlakeRows, NEW o \in {"pass", "fail"}
    PROVE  LET g == UpdateFlake(f, o) IN
           /\ g \in FlakeRows
           /\ g.fails = f.fails + (IF o = "fail" THEN 1 ELSE 0)
           /\ g.open => f.open
           /\ f.open /\ f.recent < Expiry /\ f.fails + f.recent <= f.count
                /\ g.open
              => g.recent < Expiry /\ g.fails + g.recent <= g.count
<1> DEFINE g == UpdateFlake(f, o)
<1>1. /\ f.open \in BOOLEAN /\ f.count \in Nat
      /\ f.fails \in Nat /\ f.recent \in Nat
  BY DEF FlakeRows
<1>2. CASE o = "fail"
  <2>1. g = [open |-> f.open, count |-> f.count + 1,
             fails |-> f.fails + 1, recent |-> 0]
    BY <1>2 DEF UpdateFlake, FlakeRows
  <2>2. /\ g \in FlakeRows
        /\ g.open = f.open /\ g.count = f.count + 1
        /\ g.fails = f.fails + 1 /\ g.recent = 0
    BY <1>1, <2>1 DEF FlakeRows
  <2> HIDE DEF g
  <2>3. Expiry \in Nat /\ Expiry > 0
    BY LimitsAssumption
  <2> QED
    BY <1>1, <1>2, <2>2, <2>3 DEF g
<1>3. CASE o = "pass"
  <2>1. g = [open |-> f.open /\ f.recent + 1 # Expiry, count |-> f.count + 1,
             fails |-> f.fails, recent |-> f.recent + 1]
    BY <1>3 DEF UpdateFlake, FlakeRows
  <2>2. /\ g \in FlakeRows
        /\ g.open = (f.open /\ f.recent + 1 # Expiry)
        /\ g.count = f.count + 1
        /\ g.fails = f.fails /\ g.recent = f.recent + 1
    BY <1>1, <2>1 DEF FlakeRows
  <2>3. g.open => f.open /\ f.recent + 1 # Expiry
    BY <2>2
  <2>4. Expiry \in Nat
    BY LimitsAssumption
  <2> HIDE DEF g
  <2> QED
    BY <1>1, <1>3, <2>2, <2>3, <2>4 DEF g
<1> QED
  BY <1>2, <1>3

(* fail_count summed up to row i.                                          *)
LEMMA TotalFailsSum ==
    ASSUME NEW rs \in Seq(FlakeRows)
    PROVE  \E s \in [0 .. Len(rs) -> Nat] :
             /\ s[0] = 0
             /\ \A i \in 1 .. Len(rs) : s[i] = s[i - 1] + rs[i].fails
             /\ TotalFails(rs) = s[Len(rs)]
<1> DEFINE N == Len(rs)
           Sum(f) == f = [i \in 0 .. N |-> IF i = 0 THEN 0 ELSE f[i - 1] + rs[i].fails]
           fails(i) == IF i \in 1 .. N THEN rs[i].fails ELSE 0
           step == [i \in Nat |-> [x \in Nat |-> x + fails(i)]]
           sum == CHOOSE f : Sum(f)
<1>1. N \in Nat /\ \A i \in Nat : fails(i) \in Nat
  <2>1. \A i \in 1 .. N : rs[i] \in FlakeRows
    OBVIOUS
  <2>2. \A i \in 1 .. N : rs[i].fails \in Nat
    BY <2>1 DEF FlakeRows
  <2> QED
    BY <2>2
<1>2. step \in Steps(Nat)
  BY <1>1 DEF Steps
<1>3. PICK f : IsRecursion(f, N, Nat, 0, step)
  <2>1. 0 \in Nat
    OBVIOUS
  <2> HIDE DEF step, N
  <2> QED
    BY <1>1, <1>2, <2>1, RecursionExists, Zenon
<1>4. /\ f \in [0 .. N -> Nat] /\ f[0] = 0
      /\ \A i \in 1 .. N : f[i] = f[i - 1] + rs[i].fails
  <2>1. /\ f \in [0 .. N -> Nat] /\ f[0] = 0
        /\ \A i \in 1 .. N : f[i] = step[i][f[i - 1]]
    BY <1>3 DEF IsRecursion
  <2>2. ASSUME NEW i \in 1 .. N PROVE step[i][f[i - 1]] = f[i - 1] + rs[i].fails
    <3>1. i \in Nat /\ f[i - 1] \in Nat
      BY <1>1, <2>1
    <3> QED
      BY <1>1, <3>1
  <2> QED
    BY <2>1, <2>2
<1>5. Sum(f)
  <2>1. \A i \in 0 .. N : i # 0 => i \in 1 .. N
    BY <1>1
  <2> QED
    BY <1>4, <2>1
<1>6. Sum(sum)
  BY <1>5
<1>7. TotalFails(rs) = sum[N]
  BY DEF TotalFails
<1> HIDE DEF sum
<1>8. \A i \in 0 .. N : sum[i] = IF i = 0 THEN 0 ELSE sum[i - 1] + rs[i].fails
  BY <1>6
<1> DEFINE T == {n \in Nat : n <= N => sum[n] \in Nat}
<1>9. 0 \in T
  BY <1>8
<1>10. ASSUME NEW n \in Nat, n \in T PROVE n + 1 \in T
  <2> SUFFICES ASSUME n + 1 <= N PROVE sum[n + 1] \in Nat
    OBVIOUS
  <2>1. n + 1 \in 0 .. N /\ n + 1 # 0 /\ (n + 1) - 1 = n /\ sum[n] \in Nat
    BY <1>1, <1>10
  <2>2. rs[n + 1].fails \in Nat
    BY <1>1, <2>1
  <2> QED
    BY <1>8, <2>1, <2>2
<1>11. Nat \subseteq T
  <2> HIDE DEF T
  <2> QED
    BY <1>9, <1>10, InductionOnSet
<1>12. \A i \in 0 .. N : sum[i] \in Nat
  BY <1>11
<1>13. sum \in [0 .. N -> Nat]
  BY <1>6, <1>12
<1> QED
  BY <1>7, <1>8, <1>13

(* Two sums that agree up to row n agree in what they add up to.           *)
LEMMA TotalFailsAppend ==
    ASSUME NEW rs \in Seq(FlakeRows), NEW f \in FlakeRows
    PROVE  TotalFails(Append(rs, f)) = TotalFails(rs) + f.fails
<1> DEFINE N == Len(rs)
           qs == Append(rs, f)
<1>1. /\ qs \in Seq(FlakeRows) /\ Len(qs) = N + 1 /\ N \in Nat
      /\ qs[N + 1] = f /\ \A i \in 1 .. N : qs[i] = rs[i]
  OBVIOUS
<1>2. PICK s \in [0 .. N -> Nat] :
        /\ s[0] = 0
        /\ \A i \in 1 .. N : s[i] = s[i - 1] + rs[i].fails
        /\ TotalFails(rs) = s[N]
  BY TotalFailsSum
<1>3. PICK z \in [0 .. Len(qs) -> Nat] :
        /\ z[0] = 0
        /\ \A i \in 1 .. Len(qs) : z[i] = z[i - 1] + qs[i].fails
        /\ TotalFails(qs) = z[Len(qs)]
  BY <1>1, TotalFailsSum
<1> HIDE DEF qs, N
<1> DEFINE T == {n \in Nat : n <= N => z[n] = s[n]}
<1>4. 0 \in T
  BY <1>2, <1>3
<1>5. ASSUME NEW n \in Nat, n \in T PROVE n + 1 \in T
  <2> SUFFICES ASSUME n + 1 <= N PROVE z[n + 1] = s[n + 1]
    OBVIOUS
  <2>1. /\ n + 1 \in 1 .. N /\ n + 1 \in 1 .. Len(qs) /\ (n + 1) - 1 = n
        /\ z[n] = s[n]
    BY <1>1, <1>5
  <2> QED
    BY <1>1, <1>2, <1>3, <2>1
<1>6. Nat \subseteq T
  <2> HIDE DEF T
  <2> QED
    BY <1>4, <1>5, InductionOnSet
<1>7. z[N] = s[N]
  BY <1>1, <1>6
<1>8. z[N + 1] = z[N] + f.fails
  BY <1>1, <1>3
<1> QED
  BY <1>1, <1>2, <1>3, <1>7, <1>8 DEF qs

(* A row that changes changes the sum by its own difference.               *)
LEMMA TotalFailsUpdate ==
    ASSUME NEW rs \in Seq(FlakeRows), NEW k \in 1 .. Len(rs),
           NEW g \in FlakeRows
    PROVE  TotalFails([rs EXCEPT ![k] = g])
                = (TotalFails(rs) - rs[k].fails) + g.fails
<1> DEFINE N == Len(rs)
           qs == [rs EXCEPT ![k] = g]
           d == g.fails - rs[k].fails
<1>1. /\ qs \in Seq(FlakeRows) /\ Len(qs) = N /\ N \in Nat /\ k \in 1 .. N
      /\ qs[k] = g /\ \A i \in 1 .. N : i # k => qs[i] = rs[i]
  OBVIOUS
<1>2. /\ g.fails \in Nat /\ d \in Int /\ rs[k].fails + d = g.fails
      /\ \A i \in 1 .. N : rs[i].fails \in Nat
  <2>1. \A i \in 1 .. N : rs[i] \in FlakeRows
    OBVIOUS
  <2>2. g.fails \in Nat /\ \A i \in 1 .. N : rs[i].fails \in Nat
    BY <2>1 DEF FlakeRows
  <2> QED
    BY <2>2
<1>3. PICK s \in [0 .. N -> Nat] :
        /\ s[0] = 0
        /\ \A i \in 1 .. N : s[i] = s[i - 1] + rs[i].fails
        /\ TotalFails(rs) = s[N]
  BY TotalFailsSum
<1>4. PICK z \in [0 .. Len(qs) -> Nat] :
        /\ z[0] = 0
        /\ \A i \in 1 .. Len(qs) : z[i] = z[i - 1] + qs[i].fails
        /\ TotalFails(qs) = z[Len(qs)]
  BY <1>1, TotalFailsSum
<1>5. d = g.fails - rs[k].fails
  OBVIOUS
<1> HIDE DEF qs, N, d
<1> DEFINE T == {n \in Nat : n <= N => z[n] = IF n < k THEN s[n] ELSE s[n] + d}
<1>6. 0 \in T
  BY <1>1, <1>3, <1>4
<1>7. ASSUME NEW n \in Nat, n \in T PROVE n + 1 \in T
  <2> SUFFICES ASSUME n + 1 <= N
               PROVE  z[n + 1] = IF n + 1 < k THEN s[n + 1] ELSE s[n + 1] + d
    OBVIOUS
  <2>1. /\ n + 1 \in 1 .. N /\ n \in 0 .. N /\ (n + 1) - 1 = n
        /\ z[n] = IF n < k THEN s[n] ELSE s[n] + d
    BY <1>1, <1>7
  <2>2. /\ z[n + 1] = z[n] + qs[n + 1].fails
        /\ s[n + 1] = s[n] + rs[n + 1].fails
        /\ s[n] \in Nat /\ rs[n + 1].fails \in Nat
    BY <1>1, <1>2, <1>3, <1>4, <2>1
  <2>3. k \in Nat
    BY <1>1
  <2>4. CASE n + 1 = k
    <3>1. n < k /\ ~(n + 1 < k)
      BY <2>3, <2>4
    <3>2. z[n + 1] = s[n] + g.fails /\ rs[n + 1].fails + d = g.fails
      <4>1. qs[n + 1] = g /\ rs[n + 1] = rs[k]
        BY <1>1, <2>4
      <4> QED
        BY <1>2, <2>1, <2>2, <3>1, <4>1
    <3>3. s[n + 1] + d = s[n] + g.fails
      BY <1>2, <2>2, <3>2
    <3> QED
      BY <3>1, <3>2, <3>3
  <2>5. CASE n + 1 # k
    <3>1. qs[n + 1] = rs[n + 1]
      BY <1>1, <2>1, <2>5
    <3>2. n < k <=> n + 1 < k
      BY <2>3, <2>5
    <3>3. CASE n < k
      BY <2>1, <2>2, <3>1, <3>2, <3>3
    <3>4. CASE ~(n < k)
      BY <1>2, <2>1, <2>2, <3>1, <3>2, <3>4
    <3> QED
      BY <3>3, <3>4
  <2> QED
    BY <2>4, <2>5
<1>8. Nat \subseteq T
  <2> HIDE DEF T
  <2> QED
    BY <1>6, <1>7, InductionOnSet
<1>9. z[N] = s[N] + d /\ s[N] \in Nat
  BY <1>1, <1>3, <1>8
<1>10. TotalFails(qs) = TotalFails(rs) + d /\ TotalFails(rs) \in Nat
  BY <1>1, <1>3, <1>4, <1>9
<1> QED
  BY <1>1, <1>2, <1>5, <1>10 DEF qs

-----------------------------------------------------------------------------
(* One TestInstance: the transaction stays sound, and the sum of the       *)
(* failures grows by one if the instance failed.                           *)
LEMMA InstanceStep ==
    ASSUME NEW t \in Transactions, NEW o \in {"pass", "fail"}
    PROVE  LET n == ProcessInstance(t, o) IN
           /\ n \in Transactions
           /\ TotalFails(n.rows) =
                TotalFails(t.rows) + (IF o = "fail" THEN 1 ELSE 0)
<1> DEFINE n == ProcessInstance(t, o)
           rs == t.rows
           k == t.curr
           one == IF o = "fail" THEN 1 ELSE 0
<1>1. /\ t = [rows |-> rs, curr |-> k]
      /\ rs \in Seq(FlakeRows) /\ k \in Nat /\ k <= Len(rs) /\ RowsInv(rs, k)
  BY DEF Transactions
<1>2. TotalFails(rs) \in Nat
  <2>1. PICK s \in [0 .. Len(rs) -> Nat] : TotalFails(rs) = s[Len(rs)]
    BY <1>1, TotalFailsSum
  <2> QED
    BY <1>1, <2>1
<1>3. CASE k # 0
  <2> DEFINE g == UpdateFlake(rs[k], o)
             qs == [rs EXCEPT ![k] = g]
  <2>1. k \in 1 .. Len(rs) /\ rs[k] \in FlakeRows
    BY <1>1, <1>3
  <2>2. /\ g \in FlakeRows
        /\ g.fails = rs[k].fails + one
        /\ g.open => rs[k].open
        /\ rs[k].open /\ rs[k].recent < Expiry
             /\ rs[k].fails + rs[k].recent <= rs[k].count /\ g.open
           => g.recent < Expiry /\ g.fails + g.recent <= g.count
    BY <2>1, UpdateFlakeRow
  <2>3. n = [rows |-> qs, curr |-> k]
    BY <1>1, <1>3 DEF ProcessInstance
  <2> HIDE DEF g
  <2>4. /\ qs \in Seq(FlakeRows) /\ Len(qs) = Len(rs)
        /\ DOMAIN qs = 1 .. Len(rs) /\ DOMAIN rs = 1 .. Len(rs)
        /\ qs[k] = g /\ \A i \in 1 .. Len(rs) : i # k => qs[i] = rs[i]
    BY <1>1, <2>1, <2>2
  <2>5. TotalFails(qs) = (TotalFails(rs) - rs[k].fails) + g.fails
    BY <1>1, <2>1, <2>2, TotalFailsUpdate
  <2>6. rs[k].fails \in Nat
    BY <2>1 DEF FlakeRows
  <2> HIDE DEF qs
  <2>7. RowsInv(qs, k)
    <3> SUFFICES ASSUME NEW i \in DOMAIN qs, qs[i].open
                 PROVE  /\ i = k
                        /\ qs[i].recent < Expiry
                        /\ qs[i].fails + qs[i].recent <= qs[i].count
      BY DEF RowsInv
    <3>1. CASE i = k
      BY <1>1, <2>1, <2>2, <2>4, <3>1 DEF RowsInv
    <3>2. CASE i # k
      BY <1>1, <2>4, <3>2 DEF RowsInv
    <3> QED
      BY <3>1, <3>2
  <2>8. n \in Transactions
    BY <1>1, <2>3, <2>4, <2>7 DEF Transactions
  <2>9. TotalFails(n.rows) = TotalFails(rs) + one
    BY <1>2, <2>2, <2>3, <2>5, <2>6
  <2> QED
    BY <2>8, <2>9
<1>4. CASE k = 0 /\ o = "fail"
  <2> DEFINE qs == Append(rs, NewFlake)
  <2>1. NewFlake \in FlakeRows /\ NewFlake.fails = 1 /\ NewFlake.recent = 0
        /\ NewFlake.count = 1
    BY DEF NewFlake, FlakeRows
  <2>2. n = [rows |-> qs, curr |-> Len(rs) + 1]
    BY <1>1, <1>4 DEF ProcessInstance
  <2>3. /\ qs \in Seq(FlakeRows) /\ Len(qs) = Len(rs) + 1 /\ Len(rs) \in Nat
        /\ DOMAIN qs = 1 .. (Len(rs) + 1) /\ DOMAIN rs = 1 .. Len(rs)
        /\ qs[Len(rs) + 1] = NewFlake
        /\ \A i \in 1 .. Len(rs) : qs[i] = rs[i]
    BY <1>1, <2>1
  <2>4. TotalFails(qs) = TotalFails(rs) + 1
    BY <1>1, <2>1, TotalFailsAppend
  <2> HIDE DEF qs
  <2>5. RowsInv(qs, Len(rs) + 1)
    <3> SUFFICES ASSUME NEW i \in DOMAIN qs, qs[i].open
                 PROVE  /\ i = Len(rs) + 1
                        /\ qs[i].recent < Expiry
                        /\ qs[i].fails + qs[i].recent <= qs[i].count
      BY DEF RowsInv
    <3>1. CASE i = Len(rs) + 1
      BY <2>1, <2>3, <3>1, LimitsAssumption
    <3>2. CASE i # Len(rs) + 1
      <4>1. i \in DOMAIN rs /\ qs[i] = rs[i] /\ i # 0
        BY <2>3, <3>2
      <4> QED
        BY <1>1, <1>4, <4>1 DEF RowsInv
    <3> QED
      BY <3>1, <3>2
  <2>6. n \in Transactions
    BY <2>2, <2>3, <2>5 DEF Transactions
  <2> QED
    BY <1>4, <2>2, <2>4, <2>6
<1>5. CASE k = 0 /\ o # "fail"
  <2>1. n = t
    BY <1>5 DEF ProcessInstance
  <2> QED
    BY <1>2, <1>5, <2>1
<1> QED
  BY <1>3, <1>4, <1>5

(* The sum is a number.                                                    *)
LEMMA TotalFailsType ==
    ASSUME NEW rs \in Seq(FlakeRows)
    PROVE  TotalFails(rs) \in Nat
<1>1. PICK s \in [0 .. Len(rs) -> Nat] : TotalFails(rs) = s[Len(rs)]
  BY TotalFailsSum
<1> QED
  BY <1>1

(* All the TestInstances of one upload.                                    *)
LEMMA UploadStep ==
    ASSUME NEW t \in Transactions, NEW u \in Uploads, NEW flaky \in BOOLEAN,
           outcome[u] \in {"pass", "fail"}, stored[u] \in Nat
    PROVE  LET n == ProcessUpload(t, u, flaky) IN
           /\ n \in Transactions
           /\ TotalFails(n.rows) = TotalFails(t.rows) +
                (IF outcome[u] = "fail" THEN stored[u] ELSE 0)
<1> DEFINE runs == TestInstances(u, flaky)
           N == Len(runs)
           After(f) == f = [i \in 0 .. N |->
                              IF i = 0 THEN t ELSE ProcessInstance(f[i - 1], runs[i])]
           step == [i \in Nat |-> [x \in Transactions |->
                                     ProcessInstance(x, outcome[u])]]
           after == CHOOSE f : After(f)
           one == IF outcome[u] = "fail" THEN 1 ELSE 0
<1>1. /\ N \in Nat /\ \A i \in 1 .. N : runs[i] = outcome[u]
      /\ outcome[u] = "fail" => N = stored[u]
  BY DEF TestInstances
<1>2. step \in Steps(Transactions)
  BY InstanceStep DEF Steps
<1>3. PICK f : IsRecursion(f, N, Transactions, t, step)
  <2> HIDE DEF step, N, Transactions
  <2> QED
    BY <1>1, <1>2, RecursionExists, Zenon
<1> HIDE DEF runs, N
<1>4. /\ f \in [0 .. N -> Transactions] /\ f[0] = t
      /\ \A i \in 1 .. N : f[i] = ProcessInstance(f[i - 1], runs[i])
  <2>1. /\ f \in [0 .. N -> Transactions] /\ f[0] = t
        /\ \A i \in 1 .. N : f[i] = step[i][f[i - 1]]
    BY <1>3 DEF IsRecursion
  <2>2. ASSUME NEW i \in 1 .. N
        PROVE  step[i][f[i - 1]] = ProcessInstance(f[i - 1], runs[i])
    <3>1. i \in Nat /\ f[i - 1] \in Transactions /\ runs[i] = outcome[u]
      BY <1>1, <2>1
    <3> QED
      BY <3>1
  <2> QED
    BY <2>1, <2>2
<1>5. After(f)
  <2>1. \A i \in 0 .. N : i # 0 => i \in 1 .. N
    BY <1>1
  <2> QED
    BY <1>4, <2>1
<1>6. After(after)
  BY <1>5
<1>7. ProcessUpload(t, u, flaky) = after[N]
  BY DEF ProcessUpload, runs, N
<1> HIDE DEF after
<1>8. after[0] = t /\ \A i \in 1 .. N : after[i] = ProcessInstance(after[i - 1], runs[i])
  BY <1>1, <1>6
<1> DEFINE T == {n \in Nat : n <= N =>
                   /\ after[n] \in Transactions
                   /\ TotalFails(after[n].rows) = TotalFails(t.rows) + n * one}
<1>9. TotalFails(t.rows) \in Nat
  BY TotalFailsType DEF Transactions
<1>10. 0 \in T
  BY <1>8, <1>9
<1>11. ASSUME NEW n \in Nat, n \in T PROVE n + 1 \in T
  <2> SUFFICES ASSUME n + 1 <= N
               PROVE  /\ after[n + 1] \in Transactions
                      /\ TotalFails(after[n + 1].rows)
                            = TotalFails(t.rows) + (n + 1) * one
    OBVIOUS
  <2>1. /\ n + 1 \in 1 .. N /\ (n + 1) - 1 = n
        /\ after[n] \in Transactions
        /\ TotalFails(after[n].rows) = TotalFails(t.rows) + n * one
    BY <1>1, <1>11
  <2>2. after[n + 1] = ProcessInstance(after[n], outcome[u])
    BY <1>1, <1>8, <2>1
  <2>3. /\ after[n + 1] \in Transactions
        /\ TotalFails(after[n + 1].rows) = TotalFails(after[n].rows) + one
    BY <2>1, <2>2, InstanceStep
  <2> QED
    BY <1>9, <2>1, <2>3
<1>12. Nat \subseteq T
  <2> HIDE DEF T
  <2> QED
    BY <1>10, <1>11, InductionOnSet
<1>13. /\ after[N] \in Transactions
       /\ TotalFails(after[N].rows) = TotalFails(t.rows) + N * one
  BY <1>1, <1>12
<1>14. N * one = IF outcome[u] = "fail" THEN stored[u] ELSE 0
  BY <1>1
<1> QED
  BY <1>7, <1>13, <1>14

(* Of the rows that a transaction leaves, at most one is open.             *)
GoodRows(rs) == rs \in Seq(FlakeRows) /\ \E k \in 0 .. Len(rs) : RowsInv(rs, k)

(* fetch_curr_flakes finds the open row of such rows.                      *)
LEMMA CurrFlakeRow ==
    ASSUME NEW rs, GoodRows(rs)
    PROVE  [rows |-> rs, curr |-> CurrFlake(rs)] \in Transactions
<1>1. PICK k \in 0 .. Len(rs) : RowsInv(rs, k)
  BY DEF GoodRows
<1>2. rs \in Seq(FlakeRows)
  BY DEF GoodRows
<1>3. CASE OpenRows(rs) = {}
  <2>1. CurrFlake(rs) = 0 /\ RowsInv(rs, 0)
    BY <1>3 DEF CurrFlake, RowsInv, OpenRows
  <2> QED
    BY <1>2, <2>1 DEF Transactions
<1>4. CASE OpenRows(rs) # {}
  <2>1. OpenRows(rs) = {k}
    BY <1>1, <1>4 DEF RowsInv, OpenRows
  <2>2. Max({k}) = k
    BY DEF Max
  <2>3. CurrFlake(rs) = k
    BY <1>4, <2>1, <2>2 DEF CurrFlake
  <2> QED
    BY <1>1, <1>2, <2>3 DEF Transactions
<1> QED
  BY <1>3, <1>4

(* The uploads that a transaction has read, in any order: at most one row  *)
(* is open, and where every upload was stored once the failures they hold  *)
(* are exactly what the fail_counts grow by.                               *)
LEMMA UploadsStep ==
    ASSUME NEW W \in SUBSET Uploads, NEW order \in SetToSeqs(W), GoodRows(rows),
           outcome \in [Uploads -> {"pass", "fail"}], stored \in [Uploads -> Nat]
    PROVE  /\ GoodRows(ProcessUploads(order))
           /\ (\A u \in W : stored[u] = 1) =>
                TotalFails(ProcessUploads(order)) = TotalFails(rows) +
                    Cardinality({u \in W : outcome[u] = "fail"})
<1> DEFINE N == Cardinality(W)
           curr == CurrFlake(rows)
           flaky == curr # 0
           t == [rows |-> rows, curr |-> curr]
           After(f) == f = [i \in 0 .. Len(order) |->
                              IF i = 0 THEN t
                              ELSE ProcessUpload(f[i - 1], order[i], flaky)]
           step == [i \in Nat |-> [x \in Transactions |->
                     IF i \in 1 .. N THEN ProcessUpload(x, order[i], flaky) ELSE x]]
           after == CHOOSE f : After(f)
<1>1. IsFiniteSet(W) /\ N \in Nat
  BY SourcesAssumption, FS_Subset, FS_CardinalityType
<1>2. /\ order \in [1 .. N -> W] /\ Len(order) = N /\ order \in Seq(W)
      /\ \A i, j \in 1 .. N : i # j => order[i] # order[j]
  BY <1>1 DEF SetToSeqs
<1>3. t \in Transactions
  BY CurrFlakeRow
<1>4. \A i \in 1 .. N : /\ order[i] \in Uploads /\ order[i] \in W
                        /\ outcome[order[i]] \in {"pass", "fail"}
                        /\ stored[order[i]] \in Nat
  BY <1>2
<1> HIDE DEF curr, t, N
<1>5. ASSUME NEW x \in Transactions, NEW i \in 1 .. N
      PROVE  /\ ProcessUpload(x, order[i], flaky) \in Transactions
             /\ TotalFails(ProcessUpload(x, order[i], flaky).rows) =
                   TotalFails(x.rows) +
                   (IF outcome[order[i]] = "fail" THEN stored[order[i]] ELSE 0)
  <2>1. flaky \in BOOLEAN
    OBVIOUS
  <2> QED
    BY <1>4, <2>1, UploadStep
<1>6. step \in Steps(Transactions)
  BY <1>5 DEF Steps
<1>7. PICK f : IsRecursion(f, N, Transactions, t, step)
  <2> HIDE DEF step, Transactions
  <2> QED
    BY <1>1, <1>3, <1>6, RecursionExists, Zenon
<1>8. /\ f \in [0 .. N -> Transactions] /\ f[0] = t
      /\ \A i \in 1 .. N : f[i] = ProcessUpload(f[i - 1], order[i], flaky)
  <2>1. /\ f \in [0 .. N -> Transactions] /\ f[0] = t
        /\ \A i \in 1 .. N : f[i] = step[i][f[i - 1]]
    BY <1>7 DEF IsRecursion
  <2>2. ASSUME NEW i \in 1 .. N
        PROVE  step[i][f[i - 1]] = ProcessUpload(f[i - 1], order[i], flaky)
    <3>1. i \in Nat /\ f[i - 1] \in Transactions
      BY <1>1, <2>1
    <3> QED
      BY <3>1
  <2> QED
    BY <2>1, <2>2
<1>9. After(f)
  <2>1. \A i \in 0 .. N : i # 0 => i \in 1 .. N
    BY <1>1
  <2> QED
    BY <1>2, <1>8, <2>1
<1>10. After(after)
  BY <1>9
<1>11. ProcessUploads(order) = after[Len(order)].rows
  BY DEF ProcessUploads, curr, t
<1> HIDE DEF after
<1>12. /\ after[0] = t
       /\ \A i \in 1 .. N : after[i] = ProcessUpload(after[i - 1], order[i], flaky)
  BY <1>1, <1>2, <1>10
<1> DEFINE T == {n \in Nat : n <= N => after[n] \in Transactions}
<1>13. 0 \in T
  BY <1>3, <1>12
<1>14. ASSUME NEW n \in Nat, n \in T PROVE n + 1 \in T
  <2> SUFFICES ASSUME n + 1 <= N PROVE after[n + 1] \in Transactions
    OBVIOUS
  <2>1. n + 1 \in 1 .. N /\ (n + 1) - 1 = n /\ after[n] \in Transactions
    BY <1>1, <1>14
  <2> QED
    BY <1>5, <1>12, <2>1
<1>15. Nat \subseteq T
  <2> HIDE DEF T
  <2> QED
    BY <1>13, <1>14, InductionOnSet
<1>16. \A n \in 0 .. N : after[n] \in Transactions
  BY <1>1, <1>15
<1>17. GoodRows(ProcessUploads(order))
  BY <1>1, <1>2, <1>11, <1>16 DEF Transactions, GoodRows
<1>18. ASSUME \A u \in W : stored[u] = 1
       PROVE  TotalFails(ProcessUploads(order)) = TotalFails(rows) +
                    Cardinality({u \in W : outcome[u] = "fail"})
  <2> DEFINE seen(n) == {order[j] : j \in 1 .. n}
             failed(n) == {u \in seen(n) : outcome[u] = "fail"}
             U == {n \in Nat : n <= N =>
                     /\ IsFiniteSet(failed(n))
                     /\ TotalFails(after[n].rows) =
                          TotalFails(rows) + Cardinality(failed(n))}
  <2>1. TotalFails(rows) \in Nat
    BY TotalFailsType DEF GoodRows
  <2>2. 0 \in U
    <3>1. failed(0) = {}
      OBVIOUS
    <3>2. after[0].rows = rows
      BY <1>12 DEF t
    <3>3. TotalFails(rows) + 0 = TotalFails(rows)
      BY <2>1
    <3> HIDE DEF failed
    <3> QED
      BY <3>1, <3>2, <3>3, FS_EmptySet
  <2>3. ASSUME NEW n \in Nat, n \in U PROVE n + 1 \in U
    <3> SUFFICES ASSUME n + 1 <= N
                 PROVE  /\ IsFiniteSet(failed(n + 1))
                        /\ TotalFails(after[n + 1].rows) =
                             TotalFails(rows) + Cardinality(failed(n + 1))
      OBVIOUS
    <3>1. /\ n + 1 \in 1 .. N /\ (n + 1) - 1 = n /\ n \in 0 .. N
          /\ IsFiniteSet(failed(n))
          /\ TotalFails(after[n].rows) = TotalFails(rows) + Cardinality(failed(n))
      BY <1>1, <2>3
    <3>2. after[n] \in Transactions /\ stored[order[n + 1]] = 1
      BY <1>4, <1>16, <1>18, <3>1
    <3>3. TotalFails(after[n + 1].rows) = TotalFails(after[n].rows) +
             (IF outcome[order[n + 1]] = "fail" THEN 1 ELSE 0)
      BY <1>5, <1>12, <3>1, <3>2
    <3>4. /\ order[n + 1] \notin seen(n)
          /\ seen(n + 1) = seen(n) \cup {order[n + 1]}
      <4>1. \A j \in 1 .. n : j \in 1 .. N /\ j # n + 1
        BY <1>1, <3>1
      <4>2. 1 .. (n + 1) = (1 .. n) \cup {n + 1}
        BY <3>1
      <4> QED
        BY <1>2, <3>1, <4>1, <4>2
    <3>5. Cardinality(failed(n)) \in Nat
      BY <3>1, FS_CardinalityType
    <3>6. CASE outcome[order[n + 1]] = "fail"
      <4>1. failed(n + 1) = failed(n) \cup {order[n + 1]} /\ order[n + 1] \notin failed(n)
        BY <3>4, <3>6
      <4> HIDE DEF failed
      <4>2. /\ IsFiniteSet(failed(n + 1))
            /\ Cardinality(failed(n + 1)) = Cardinality(failed(n)) + 1
        BY <3>1, <4>1, FS_AddElement
      <4> QED
        BY <2>1, <3>1, <3>3, <3>5, <3>6, <4>2
    <3>7. CASE outcome[order[n + 1]] # "fail"
      <4>1. failed(n + 1) = failed(n)
        BY <3>4, <3>7
      <4> HIDE DEF failed
      <4> QED
        BY <2>1, <3>1, <3>3, <3>5, <3>7, <4>1
    <3> QED
      BY <3>6, <3>7
  <2>4. Nat \subseteq U
    <3> HIDE DEF U
    <3> QED
      BY <2>2, <2>3, InductionOnSet
  <2>5. TotalFails(after[N].rows) = TotalFails(rows) + Cardinality(failed(N))
    <3> HIDE DEF failed
    <3>1. N \in U
      <4> HIDE DEF U
      <4> QED
        BY <1>1, <2>4
    <3> QED
      BY <1>1, <3>1
  <2>6. seen(N) = W
    <3>1. order \in Injection(1 .. N, W)
      BY <1>2 DEF Injection, IsInjective
    <3>2. Cardinality(1 .. N) = Cardinality(W)
      BY <1>1, FS_Interval DEF N
    <3>3. order \in Surjection(1 .. N, W)
      BY <1>1, <3>1, <3>2, FS_Injection
    <3> QED
      BY <3>3 DEF Surjection
  <2> QED
    BY <1>2, <1>11, <2>5, <2>6
<1> QED
  BY <1>17, <1>18

-----------------------------------------------------------------------------
(* The inductive invariant.                                                *)

(* A processor stores an upload once per try, before it is "processed"; one*)
(* that is never retried does not come back to an upload.                  *)
TriesInv(u) ==
    /\ proc[u] = "none" => state[u] = "none"
    /\ proc[u] \in {"none"} \cup InProc => fin[u] = "none"
    /\ stored[u] <= procTries[u] +
                    (IF proc[u] \in {"none", "queued"} THEN 0 ELSE 1)
    /\ \/ proc[u] \in {"saved", "committed"}
       \/ state[u] \in {"processed", "flake_processed"}
       => stored[u] > 0
    /\ procTries[u] = 0 /\ state[u] \in {"processed", "flake_processed"} =>
            proc[u] \in {"committed", "done", "failed"}

ProcInv == \A u \in Uploads : TriesInv(u)

(* One ProcessFlakesTask at a time has popped commits and read uploads, and*)
(* what it has read stays as it was.                                       *)
LockInv ==
    /\ \A w \in Workers : flake[w] # "idle" <=> flakeLock = w
    /\ \A w \in Workers : flake[w] \in {"processing", "reading"} <=>
                          todo[w] # <<>>
    /\ \A w \in Workers : flake[w] # "reading" => snap[w] = {}
    /\ \A w \in Workers : \A u \in snap[w] : state[u] = "processed"

(* Upload u is going to be looked at: its commit is in the list, or it is  *)
(* in the hands of a task whose transaction has not read past u.           *)
InList(u) == \E i \in DOMAIN list : list[i] = CommitOf[u]
InHand(u) ==
    \E w \in Workers : \E i \in DOMAIN todo[w] :
        /\ todo[w][i] = CommitOf[u]
        /\ flake[w] = "reading" /\ i = 1 => u \in snap[w]

DueInv ==
    ~broken => \A u \in due : state[u] = "processed" => InList(u) \/ InHand(u)

(* A list with commits in it has somebody to come and drain it.            *)
MessageInv ==
    /\ \A w \in Workers : flake[w] = "dead" => broken
    /\ ~broken /\ list # <<>> =>
        \/ messages > 0
        \/ \E w \in Workers : flake[w] \in {"popping", "processing", "reading"}
        \/ \E u \in Uploads : fin[u] = "pushed"

(* get_redis_val takes the head of the list, or finds it empty.            *)
Popped(w) ==
    \/ /\ list = <<>> /\ UNCHANGED <<list, todo>>
       /\ flake' = [flake EXCEPT ![w] = "drained"]
    \/ /\ todo' = [todo EXCEPT ![w] = todo'[w]]
       /\ todo'[w] \in Seq(Commits) /\ todo'[w] # <<>> /\ list' \in Seq(Commits)
       /\ flake' = [flake EXCEPT ![w] = "processing"]
       /\ \A i \in DOMAIN list :
            \/ i \in DOMAIN todo'[w] /\ todo'[w][i] = list[i]
            \/ \E j \in DOMAIN list' : list'[j] = list[i]

(* No commit leaves the list but into the hands of the task.               *)
LEMMA Popping ==
    ASSUME TypeOK, NEW w \in Workers, PopCommits(w)
    PROVE  Popped(w) /\ list' \in Seq(Commits) /\ todo' \in [Workers -> Seq(Commits)]
<1>1. list \in Seq(Commits) /\ todo \in [Workers -> Seq(Commits)] /\ PopCount \in Nat
      /\ PopCount > 0
  BY LimitsAssumption DEF TypeOK
<1>2. CASE list = <<>>
  BY <1>1, <1>2 DEF PopCommits, Popped, FlakeGoto
<1>3. CASE list # <<>>
  <2> DEFINE n == Min({PopCount, Len(list)})
             hd == SubSeq(list, 1, n)
             rest == SubSeq(list, n + 1, Len(list))
  <2>1. Len(list) \in Nat /\ Len(list) > 0
    BY <1>1, <1>3
  <2>2. n \in {PopCount, Len(list)} /\ n <= Len(list)
    <3>1. \E x \in {PopCount, Len(list)} :
            \A y \in {PopCount, Len(list)} : x =< y
      <4>1. CASE PopCount <= Len(list)
        BY <1>1, <2>1, <4>1
      <4>2. CASE Len(list) <= PopCount
        BY <1>1, <2>1, <4>2
      <4> QED
        BY <1>1, <2>1, <4>1, <4>2
    <3>2. /\ n \in {PopCount, Len(list)}
          /\ \A y \in {PopCount, Len(list)} : n =< y
      BY <3>1 DEF Min
    <3> QED
      BY <3>2
  <2>3. n \in 1 .. Len(list)
    BY <1>1, <2>1, <2>2
  <2>4. /\ todo' = [todo EXCEPT ![w] = hd]
        /\ list' = rest
        /\ flake' = [flake EXCEPT ![w] = "processing"]
    BY <1>3 DEF PopCommits, FlakeGoto
  <2> HIDE DEF n
  <2>5. hd \in Seq(Commits) /\ DOMAIN hd = 1 .. n /\ hd # <<>>
        /\ \A i \in 1 .. n : hd[i] = list[i]
    BY <1>1, <2>3
  <2>6. rest \in Seq(Commits) /\ DOMAIN rest = 1 .. (Len(list) - n)
        /\ \A i \in 1 .. (Len(list) - n) : rest[i] = list[i + n]
    <3> DEFINE r == [i \in 1 .. (Len(list) - n) |-> list[i + n]]
    <3>1. rest = r
      BY <1>1, <2>3 DEF SubSeq
    <3>2. Len(list) - n \in Nat /\ \A i \in 1 .. (Len(list) - n) : list[i + n] \in Commits
      BY <1>1, <2>1, <2>3
    <3>3. r \in Seq(Commits)
      BY <3>2
    <3> HIDE DEF rest
    <3> QED
      BY <3>1, <3>3
  <2> HIDE DEF hd, rest
  <2>7. todo'[w] = hd /\ todo' = [todo EXCEPT ![w] = todo'[w]]
        /\ todo' \in [Workers -> Seq(Commits)]
    BY <1>1, <2>4, <2>5
  <2>8. ASSUME NEW i \in DOMAIN list
        PROVE  \/ i \in DOMAIN hd /\ hd[i] = list[i]
               \/ \E j \in DOMAIN rest : rest[j] = list[i]
    <3>1. i \in 1 .. Len(list)
      BY <1>1
    <3>2. CASE i <= n
      BY <2>3, <2>5, <3>1, <3>2
    <3>3. CASE i > n
      <4>1. i - n \in 1 .. (Len(list) - n) /\ (i - n) + n = i
        BY <2>1, <2>3, <3>1, <3>3
      <4>2. rest[i - n] = list[i]
        BY <2>6, <4>1
      <4> QED
        BY <2>6, <4>1, <4>2
    <3> QED
      BY <2>3, <3>1, <3>2, <3>3
  <2> QED
    BY <2>4, <2>5, <2>6, <2>7, <2>8 DEF Popped
<1> QED
  BY <1>2, <1>3

(* One open row at most, whoever works on the rows.                        *)
LEMMA RowsStep ==
    ASSUME outcome \in [Uploads -> {"pass", "fail"}], stored \in [Uploads -> Nat],
           snap \in [Workers -> SUBSET Uploads], GoodRows(rows), [Next]_vars
    PROVE  GoodRows(rows')
<1> USE DEF procVars, finVars, flakeVars, AfterProc, OtherThanFin,
            OtherThanFlake, InProc
<1>1. CASE UNCHANGED vars
  BY <1>1 DEF vars
<1>2. ASSUME NEW u \in Uploads, SkipProcessed(u) PROVE GoodRows(rows')
  BY <1>2 DEF SkipProcessed, EndProc, ProcGoto
<1>3. ASSUME NEW u \in Uploads, SaveTestInstances(u) PROVE GoodRows(rows')
  BY <1>3 DEF SaveTestInstances, ProcGoto
<1>4. ASSUME NEW u \in Uploads, CommitProcessed(u) PROVE GoodRows(rows')
  BY <1>4 DEF CommitProcessed, ProcGoto
<1>5. ASSUME NEW u \in Uploads, RewriteArchive(u) PROVE GoodRows(rows')
  BY <1>5 DEF RewriteArchive, EndProc, ProcGoto
<1>6. ASSUME NEW u \in Uploads, PushCommit(u) PROVE GoodRows(rows')
  BY <1>6 DEF PushCommit
<1>7. ASSUME NEW u \in Uploads, SendProcessFlakes(u) PROVE GoodRows(rows')
  BY <1>7 DEF SendProcessFlakes
<1>8. ASSUME NEW u \in Uploads, ScheduleProcessing(u) PROVE GoodRows(rows')
  BY <1>8 DEF ScheduleProcessing, ProcGoto
<1>9. ASSUME NEW u \in Uploads, ParseError(u) PROVE GoodRows(rows')
  BY <1>9 DEF ParseError, EndProc, ProcGoto
<1>10. ASSUME NEW u \in Uploads, FinLockTimeout(u) PROVE GoodRows(rows')
  BY <1>10 DEF FinLockTimeout, EndFin
<1>11. ASSUME NEW u \in Uploads, ProcDbError(u) PROVE GoodRows(rows')
  BY <1>11 DEF ProcDbError, EndProc, ProcGoto
<1>12. ASSUME NEW u \in Uploads, ProcError(u) PROVE GoodRows(rows')
  BY <1>12 DEF ProcError, ProcGoto
<1>13. ASSUME NEW u \in Uploads, FinDbError(u) PROVE GoodRows(rows')
  BY <1>13 DEF FinDbError, EndFin
<1>14. ASSUME NEW u \in Uploads, FinError(u) PROVE GoodRows(rows')
  BY <1>14 DEF FinError, EndFin
<1>15. ASSUME NEW c \in Commits, MergePull(c) PROVE GoodRows(rows')
  BY <1>15 DEF MergePull
<1>16. ASSUME NEW w \in Workers, AcquireFlakeLock(w) PROVE GoodRows(rows')
  BY <1>16 DEF AcquireFlakeLock, FlakeGoto
<1>17. ASSUME NEW w \in Workers, PopCommits(w) PROVE GoodRows(rows')
  BY <1>17 DEF PopCommits, FlakeGoto
<1>18. ASSUME NEW w \in Workers, BeginTransaction(w) PROVE GoodRows(rows')
  BY <1>18 DEF BeginTransaction, FlakeGoto
<1>19. ASSUME NEW w \in Workers, CommitTransaction(w) PROVE GoodRows(rows')
  <2>1. snap[w] \in SUBSET Uploads
    OBVIOUS
  <2>2. PICK order \in SetToSeqs(snap[w]) : rows' = ProcessUploads(order)
    BY <1>19 DEF CommitTransaction
  <2> QED
    BY <2>1, <2>2, UploadsStep
<1>20. ASSUME NEW w \in Workers, ReleaseFlakeLock(w) PROVE GoodRows(rows')
  BY <1>20 DEF ReleaseFlakeLock, FlakeGoto
<1>21. ASSUME NEW w \in Workers, FlakeLockExpires(w) PROVE GoodRows(rows')
  BY <1>21 DEF FlakeLockExpires, FlakeGoto
<1>22. ASSUME NEW w \in Workers, FlakeLockTimeout(w) PROVE GoodRows(rows')
  BY <1>22 DEF FlakeLockTimeout
<1>23. ASSUME NEW w \in Workers, FlakeError(w) PROVE GoodRows(rows')
  BY <1>23 DEF FlakeError, FlakeGoto
<1>24. ASSUME NEW w \in Workers, FlakeKilled(w) PROVE GoodRows(rows')
  BY <1>24 DEF FlakeKilled, FlakeGoto
<1> QED
  BY <1>1, <1>2, <1>3, <1>4, <1>5, <1>6, <1>7, <1>8, <1>9, <1>10, <1>11,
     <1>12, <1>13, <1>14, <1>15, <1>16, <1>17, <1>18, <1>19, <1>20, <1>21,
     <1>22, <1>23, <1>24
     DEF Next, ProcStep, FinStep, FlakeStep, Environment, Failure

(* Faults are bounded.                                                     *)
LEMMA FaultStep ==
    ASSUME faults \in 0 .. MaxFaults, [Next]_vars
    PROVE  faults' \in 0 .. MaxFaults
  BY LimitsAssumption
     DEF Next, vars, ProcStep, FinStep, FlakeStep, Environment, Failure, NoFault, Fault

(* Every action keeps the types.                                           *)
LEMMA TypeStep ==
    ASSUME TypeOK, ProcInv, LockInv, [Next]_vars,
           rows' \in Seq(FlakeRows), faults' \in 0 .. MaxFaults
    PROVE  TypeOK'
<1> USE DEF procVars, finVars, flakeVars, AfterProc, OtherThanFin,
            OtherThanFlake, InProc
<1> USE SourcesAssumption, LimitsAssumption DEF TypeOK
<1>1. CASE UNCHANGED vars
  BY <1>1 DEF vars
<1>2. ASSUME NEW u \in Uploads, SkipProcessed(u) PROVE TypeOK'
  BY <1>2 DEF SkipProcessed, EndProc, ProcGoto
<1>3. ASSUME NEW u \in Uploads, SaveTestInstances(u) PROVE TypeOK'
  <2>1. stored[u] + 1 \in 0 .. DbRetries + 1
    BY <1>3 DEF SaveTestInstances, ProcInv, TriesInv
  <2> QED
    BY <1>3, <2>1 DEF SaveTestInstances, ProcGoto
<1>4. ASSUME NEW u \in Uploads, CommitProcessed(u) PROVE TypeOK'
  BY <1>4 DEF CommitProcessed, ProcGoto
<1>5. ASSUME NEW u \in Uploads, RewriteArchive(u) PROVE TypeOK'
  BY <1>5 DEF RewriteArchive, EndProc, ProcGoto
<1>6. ASSUME NEW u \in Uploads, PushCommit(u) PROVE TypeOK'
  <2>1. CommitOf[u] \in Commits
    OBVIOUS
  <2>2. <<CommitOf[u]>> \o list \in Seq(Commits)
    BY <2>1
  <2>3. list' \in Seq(Commits) /\ due' \subseteq Uploads
    BY <1>6, <2>2 DEF PushCommit
  <2> QED
    BY <1>6, <2>3 DEF PushCommit
<1>7. ASSUME NEW u \in Uploads, SendProcessFlakes(u) PROVE TypeOK'
  BY <1>7 DEF SendProcessFlakes
<1>8. ASSUME NEW u \in Uploads, ScheduleProcessing(u) PROVE TypeOK'
  BY <1>8 DEF ScheduleProcessing, ProcGoto
<1>9. ASSUME NEW u \in Uploads, ParseError(u) PROVE TypeOK'
  BY <1>9 DEF ParseError, EndProc, ProcGoto
<1>10. ASSUME NEW u \in Uploads, FinLockTimeout(u) PROVE TypeOK'
  <2>1. CASE finTries[u] < LockRetries
    <3>1. finTries' = [finTries EXCEPT ![u] = @ + 1] /\ fin' = fin
      BY <1>10, <2>1 DEF FinLockTimeout
    <3>2. finTries' \in [Uploads -> Nat]
      BY <3>1
    <3>3. ASSUME NEW v \in Uploads
          PROVE  finTries'[v] <= LockRetries \/ finTries'[v] <= DbRetries
      <4>1. CASE v = u
        <5>1. finTries'[v] = finTries[u] + 1 /\ finTries[u] \in Nat
          BY <3>1, <4>1
        <5> QED
          BY <2>1, <5>1
      <4>2. CASE v # u
        BY <3>1, <4>2
      <4> QED
        BY <4>1, <4>2
    <3> QED
      BY <1>10, <3>1, <3>2, <3>3 DEF FinLockTimeout
  <2>2. CASE ~(finTries[u] < LockRetries)
    <3>1. /\ fin' = [fin EXCEPT ![u] = "done"]
          /\ finTries' = [finTries EXCEPT ![u] = 0]
      BY <1>10, <2>2 DEF FinLockTimeout, EndFin
    <3>2. finTries' \in [Uploads -> Nat]
      BY <3>1
    <3>3. \A v \in Uploads :
             finTries'[v] <= LockRetries \/ finTries'[v] <= DbRetries
      BY <3>1
    <3> QED
      BY <1>10, <3>1, <3>2, <3>3 DEF FinLockTimeout
  <2> QED
    BY <2>1, <2>2
<1>11. ASSUME NEW u \in Uploads, ProcDbError(u) PROVE TypeOK'
  <2>1. CASE procTries[u] < DbRetries
    <3>1. procTries[u] + 1 \in 0 .. DbRetries
      BY <2>1
    <3>2. /\ proc' = [proc EXCEPT ![u] = "queued"] /\ fin' = fin
          /\ procTries' = [procTries EXCEPT ![u] = procTries[u] + 1]
      BY <1>11, <2>1 DEF ProcDbError, ProcGoto
    <3>3. procTries' \in [Uploads -> 0 .. DbRetries]
      BY <3>1, <3>2
    <3> QED
      BY <1>11, <3>2, <3>3 DEF ProcDbError
  <2>2. CASE ~(procTries[u] < DbRetries)
    BY <1>11, <2>2 DEF ProcDbError, EndProc, ProcGoto
  <2> QED
    BY <2>1, <2>2
<1>12. ASSUME NEW u \in Uploads, ProcError(u) PROVE TypeOK'
  BY <1>12 DEF ProcError, ProcGoto
<1>13. ASSUME NEW u \in Uploads, FinDbError(u) PROVE TypeOK'
  <2>1. broken' \in BOOLEAN
    BY <1>13 DEF FinDbError
  <2>2. CASE finTries[u] < DbRetries
    <3>1. /\ finTries' = [finTries EXCEPT ![u] = @ + 1]
          /\ fin' = [fin EXCEPT ![u] = "queued"]
      BY <1>13, <2>2 DEF FinDbError
    <3>2. finTries' \in [Uploads -> Nat]
      BY <3>1
    <3>3. ASSUME NEW v \in Uploads
          PROVE  finTries'[v] <= LockRetries \/ finTries'[v] <= DbRetries
      <4>1. CASE v = u
        <5>1. finTries'[v] = finTries[u] + 1 /\ finTries[u] \in Nat
          BY <3>1, <4>1
        <5> QED
          BY <2>2, <5>1
      <4>2. CASE v # u
        BY <3>1, <4>2
      <4> QED
        BY <4>1, <4>2
    <3> QED
      BY <1>13, <2>1, <3>1, <3>2, <3>3 DEF FinDbError
  <2>3. CASE ~(finTries[u] < DbRetries)
    <3>1. /\ fin' = [fin EXCEPT ![u] = "done"]
          /\ finTries' = [finTries EXCEPT ![u] = 0]
      BY <1>13, <2>3 DEF FinDbError, EndFin
    <3>2. finTries' \in [Uploads -> Nat]
      BY <3>1
    <3>3. \A v \in Uploads :
             finTries'[v] <= LockRetries \/ finTries'[v] <= DbRetries
      BY <3>1
    <3> QED
      BY <1>13, <2>1, <3>1, <3>2, <3>3 DEF FinDbError
  <2> QED
    BY <2>2, <2>3
<1>14. ASSUME NEW u \in Uploads, FinError(u) PROVE TypeOK'
  BY <1>14 DEF FinError, EndFin
<1>15. ASSUME NEW c \in Commits, MergePull(c) PROVE TypeOK'
  BY <1>15 DEF MergePull
<1>16. ASSUME NEW w \in Workers, AcquireFlakeLock(w) PROVE TypeOK'
  BY <1>16 DEF AcquireFlakeLock, FlakeGoto
<1>17. ASSUME NEW w \in Workers, PopCommits(w) PROVE TypeOK'
  <2>1. list' \in Seq(Commits) /\ todo' \in [Workers -> Seq(Commits)]
    BY <1>17, Popping DEF Popped
  <2> QED
    BY <1>17, <2>1 DEF PopCommits, FlakeGoto
<1>18. ASSUME NEW w \in Workers, BeginTransaction(w) PROVE TypeOK'
  BY <1>18 DEF BeginTransaction, FlakeGoto
<1>19. ASSUME NEW w \in Workers, CommitTransaction(w) PROVE TypeOK'
  <2>1. todo[w] # <<>>
    BY <1>19 DEF CommitTransaction, LockInv
  <2>2. Tail(todo[w]) \in Seq(Commits)
    BY <2>1
  <2> QED
    BY <1>19, <2>2 DEF CommitTransaction, FlakeGoto
<1>20. ASSUME NEW w \in Workers, ReleaseFlakeLock(w) PROVE TypeOK'
  BY <1>20 DEF ReleaseFlakeLock, FlakeGoto
<1>21. ASSUME NEW w \in Workers, FlakeLockExpires(w) PROVE TypeOK'
  BY <1>21 DEF FlakeLockExpires, FlakeGoto
<1>22. ASSUME NEW w \in Workers, FlakeLockTimeout(w) PROVE TypeOK'
  BY <1>22 DEF FlakeLockTimeout
<1>23. ASSUME NEW w \in Workers, FlakeError(w) PROVE TypeOK'
  BY <1>23 DEF FlakeError, FlakeGoto
<1>24. ASSUME NEW w \in Workers, FlakeKilled(w) PROVE TypeOK'
  BY <1>24 DEF FlakeKilled, FlakeGoto
<1> QED
  BY <1>1, <1>2, <1>3, <1>4, <1>5, <1>6, <1>7, <1>8, <1>9, <1>10, <1>11,
     <1>12, <1>13, <1>14, <1>15, <1>16, <1>17, <1>18, <1>19, <1>20, <1>21,
     <1>22, <1>23, <1>24
     DEF Next, ProcStep, FinStep, FlakeStep, Environment, Failure

(* A processor stores at most once per try.                                *)
LEMMA ProcInvStep ==
    ASSUME TypeOK, ProcInv, LockInv, [Next]_vars
    PROVE  ProcInv'
<1> USE DEF procVars, finVars, flakeVars, AfterProc, OtherThanFin,
            OtherThanFlake, InProc
<1> USE DEF TypeOK, ProcInv, TriesInv, LockInv
<1>1. CASE UNCHANGED vars
  BY <1>1 DEF vars
<1>2. ASSUME NEW u \in Uploads, SkipProcessed(u) PROVE ProcInv'
  BY <1>2 DEF SkipProcessed, EndProc, ProcGoto
<1>3. ASSUME NEW u \in Uploads, SaveTestInstances(u) PROVE ProcInv'
  BY <1>3 DEF SaveTestInstances, ProcGoto
<1>4. ASSUME NEW u \in Uploads, CommitProcessed(u) PROVE ProcInv'
  BY <1>4 DEF CommitProcessed, ProcGoto
<1>5. ASSUME NEW u \in Uploads, RewriteArchive(u) PROVE ProcInv'
  BY <1>5 DEF RewriteArchive, EndProc, ProcGoto
<1>6. ASSUME NEW u \in Uploads, PushCommit(u) PROVE ProcInv'
  BY <1>6 DEF PushCommit
<1>7. ASSUME NEW u \in Uploads, SendProcessFlakes(u) PROVE ProcInv'
  BY <1>7 DEF SendProcessFlakes
<1>8. ASSUME NEW u \in Uploads, ScheduleProcessing(u) PROVE ProcInv'
  BY <1>8 DEF ScheduleProcessing, ProcGoto
<1>9. ASSUME NEW u \in Uploads, ParseError(u) PROVE ProcInv'
  BY <1>9 DEF ParseError, EndProc, ProcGoto
<1>10. ASSUME NEW u \in Uploads, FinLockTimeout(u) PROVE ProcInv'
  BY <1>10 DEF FinLockTimeout, EndFin
<1>11. ASSUME NEW u \in Uploads, ProcDbError(u) PROVE ProcInv'
  <2>1. state' = state /\ stored' = stored /\ proc[u] \in InProc
    BY <1>11 DEF ProcDbError
  <2>2. CASE procTries[u] < DbRetries
    <3>1. /\ proc' = [proc EXCEPT ![u] = "queued"] /\ fin' = fin
          /\ procTries' = [procTries EXCEPT ![u] = procTries[u] + 1]
      BY <1>11, <2>2 DEF ProcDbError, ProcGoto
    <3>2. /\ proc'[u] = "queued" /\ procTries'[u] = procTries[u] + 1
          /\ procTries[u] \in Nat /\ stored[u] \in Nat
      BY <3>1
    <3>3. \A v \in Uploads : v # u => proc'[v] = proc[v] /\ procTries'[v] = procTries[v]
      BY <3>1
    <3>4. stored[u] <= procTries[u] + 1 /\ procTries[u] + 1 # 0
      BY <3>2
    <3> QED
      <4>1. TriesInv(u)'
        BY <2>1, <3>1, <3>2, <3>4
      <4>2. \A v \in Uploads : v # u => TriesInv(v)'
        BY <2>1, <3>1, <3>3
      <4> HIDE DEF TriesInv
      <4>3. \A v \in Uploads : TriesInv(v)'
        BY <4>1, <4>2
      <4> QED
        BY <4>3
  <2>3. CASE ~(procTries[u] < DbRetries)
    <3>1. /\ proc' = [proc EXCEPT ![u] = "done"] /\ procTries' = procTries
          /\ fin' = [fin EXCEPT ![u] = "queued"]
      BY <1>11, <2>3 DEF ProcDbError, EndProc, ProcGoto
    <3>2. proc'[u] = "done" /\ procTries[u] \in Nat /\ stored[u] \in Nat
      BY <3>1
    <3>3. \A v \in Uploads : v # u => proc'[v] = proc[v]
      BY <3>1
    <3> QED
      BY <2>1, <3>1, <3>2, <3>3
  <2> QED
    BY <2>2, <2>3
<1>12. ASSUME NEW u \in Uploads, ProcError(u) PROVE ProcInv'
  BY <1>12 DEF ProcError, ProcGoto
<1>13. ASSUME NEW u \in Uploads, FinDbError(u) PROVE ProcInv'
  BY <1>13 DEF FinDbError, EndFin
<1>14. ASSUME NEW u \in Uploads, FinError(u) PROVE ProcInv'
  BY <1>14 DEF FinError, EndFin
<1>15. ASSUME NEW c \in Commits, MergePull(c) PROVE ProcInv'
  BY <1>15 DEF MergePull
<1>16. ASSUME NEW w \in Workers, AcquireFlakeLock(w) PROVE ProcInv'
  BY <1>16 DEF AcquireFlakeLock, FlakeGoto
<1>17. ASSUME NEW w \in Workers, PopCommits(w) PROVE ProcInv'
  BY <1>17 DEF PopCommits, FlakeGoto
<1>18. ASSUME NEW w \in Workers, BeginTransaction(w) PROVE ProcInv'
  BY <1>18 DEF BeginTransaction, FlakeGoto
<1>19. ASSUME NEW w \in Workers, CommitTransaction(w) PROVE ProcInv'
  BY <1>19 DEF CommitTransaction, FlakeGoto
<1>20. ASSUME NEW w \in Workers, ReleaseFlakeLock(w) PROVE ProcInv'
  BY <1>20 DEF ReleaseFlakeLock, FlakeGoto
<1>21. ASSUME NEW w \in Workers, FlakeLockExpires(w) PROVE ProcInv'
  BY <1>21 DEF FlakeLockExpires, FlakeGoto
<1>22. ASSUME NEW w \in Workers, FlakeLockTimeout(w) PROVE ProcInv'
  BY <1>22 DEF FlakeLockTimeout
<1>23. ASSUME NEW w \in Workers, FlakeError(w) PROVE ProcInv'
  BY <1>23 DEF FlakeError, FlakeGoto
<1>24. ASSUME NEW w \in Workers, FlakeKilled(w) PROVE ProcInv'
  BY <1>24 DEF FlakeKilled, FlakeGoto
<1> QED
  BY <1>1, <1>2, <1>3, <1>4, <1>5, <1>6, <1>7, <1>8, <1>9, <1>10, <1>11,
     <1>12, <1>13, <1>14, <1>15, <1>16, <1>17, <1>18, <1>19, <1>20, <1>21,
     <1>22, <1>23, <1>24
     DEF Next, ProcStep, FinStep, FlakeStep, Environment, Failure

(* The lock excludes.                                                      *)
LEMMA LockStep ==
    ASSUME TypeOK, ProcInv, LockInv, [Next]_vars
    PROVE  LockInv'
<1> USE DEF procVars, finVars, flakeVars, AfterProc, OtherThanFin,
            OtherThanFlake, InProc
<1> USE SourcesAssumption DEF TypeOK, LockInv
<1>1. CASE UNCHANGED vars
  BY <1>1 DEF vars
<1>2. ASSUME NEW u \in Uploads, SkipProcessed(u) PROVE LockInv'
  BY <1>2 DEF SkipProcessed, EndProc, ProcGoto
<1>3. ASSUME NEW u \in Uploads, SaveTestInstances(u) PROVE LockInv'
  BY <1>3 DEF SaveTestInstances, ProcGoto
<1>4. ASSUME NEW u \in Uploads, CommitProcessed(u) PROVE LockInv'
  BY <1>4 DEF CommitProcessed, ProcGoto
<1>5. ASSUME NEW u \in Uploads, RewriteArchive(u) PROVE LockInv'
  BY <1>5 DEF RewriteArchive, EndProc, ProcGoto
<1>6. ASSUME NEW u \in Uploads, PushCommit(u) PROVE LockInv'
  BY <1>6 DEF PushCommit
<1>7. ASSUME NEW u \in Uploads, SendProcessFlakes(u) PROVE LockInv'
  BY <1>7 DEF SendProcessFlakes
<1>8. ASSUME NEW u \in Uploads, ScheduleProcessing(u) PROVE LockInv'
  BY <1>8 DEF ScheduleProcessing, ProcGoto, ProcInv, TriesInv
<1>9. ASSUME NEW u \in Uploads, ParseError(u) PROVE LockInv'
  BY <1>9 DEF ParseError, EndProc, ProcGoto
<1>10. ASSUME NEW u \in Uploads, FinLockTimeout(u) PROVE LockInv'
  BY <1>10 DEF FinLockTimeout, EndFin
<1>11. ASSUME NEW u \in Uploads, ProcDbError(u) PROVE LockInv'
  BY <1>11 DEF ProcDbError, EndProc, ProcGoto
<1>12. ASSUME NEW u \in Uploads, ProcError(u) PROVE LockInv'
  BY <1>12 DEF ProcError, ProcGoto
<1>13. ASSUME NEW u \in Uploads, FinDbError(u) PROVE LockInv'
  BY <1>13 DEF FinDbError, EndFin
<1>14. ASSUME NEW u \in Uploads, FinError(u) PROVE LockInv'
  BY <1>14 DEF FinError, EndFin
<1>15. ASSUME NEW c \in Commits, MergePull(c) PROVE LockInv'
  BY <1>15 DEF MergePull
<1>16. ASSUME NEW w \in Workers, AcquireFlakeLock(w) PROVE LockInv'
  BY <1>16 DEF AcquireFlakeLock, FlakeGoto
<1>17. ASSUME NEW w \in Workers, PopCommits(w) PROVE LockInv'
  <2>1. Popped(w)
    BY <1>17, Popping
  <2>2. flake[w] = "popping" /\ UNCHANGED <<state, snap, flakeLock>>
    BY <1>17 DEF PopCommits
  <2>3. CASE /\ todo' = todo
             /\ flake' = [flake EXCEPT ![w] = "drained"]
    BY <2>2, <2>3
  <2>4. CASE /\ todo' = [todo EXCEPT ![w] = todo'[w]] /\ todo'[w] # <<>>
             /\ flake' = [flake EXCEPT ![w] = "processing"]
    <3>1. /\ \A v \in Workers : v # w => todo'[v] = todo[v] /\ flake'[v] = flake[v]
          /\ flake'[w] = "processing"
      BY <2>4
    <3> QED
      BY <2>2, <2>4, <3>1
  <2> QED
    BY <2>1, <2>3, <2>4 DEF Popped
<1>18. ASSUME NEW w \in Workers, BeginTransaction(w) PROVE LockInv'
  BY <1>18 DEF BeginTransaction, FlakeGoto
<1>19. ASSUME NEW w \in Workers, CommitTransaction(w) PROVE LockInv'
  <2>1. flake[w] = "reading" /\ todo[w] # <<>> /\ flakeLock = w
    BY <1>19 DEF CommitTransaction
  <2>2. Tail(todo[w]) = <<>> <=> Len(todo[w]) = 1
    <3>1. todo[w] \in Seq(Commits) /\ Len(todo[w]) \in Nat /\ Len(todo[w]) > 0
      BY <2>1
    <3>2. Tail(todo[w]) \in Seq(Commits) /\ Len(Tail(todo[w])) = Len(todo[w]) - 1
      BY <2>1, <3>1
    <3>3. \A q \in Seq(Commits) : q = <<>> <=> Len(q) = 0
      OBVIOUS
    <3>4. Tail(todo[w]) = <<>> <=> Len(Tail(todo[w])) = 0
      BY <3>2, <3>3, Zenon
    <3>5. Len(Tail(todo[w])) = 0 <=> Len(todo[w]) = 1
      BY <3>1, <3>2
    <3> QED
      BY <3>4, <3>5, Zenon
  <2>3. /\ flake' = [flake EXCEPT ![w] =
                       IF Len(todo[w]) = 1 THEN "popping" ELSE "processing"]
        /\ todo' = [todo EXCEPT ![w] = Tail(@)]
        /\ snap' = [snap EXCEPT ![w] = {}]
        /\ flakeLock' = flakeLock
    BY <1>19 DEF CommitTransaction, FlakeGoto
  <2>4. \A v \in Workers : v # w => snap'[v] = {} /\ flake[v] = "idle"
    BY <2>1, <2>3
  <2>5. \A v \in Workers : flake'[v] # "idle" <=> flakeLock' = v
    BY <2>1, <2>3
  <2>6. \A v \in Workers : flake'[v] \in {"processing", "reading"} <=>
                             todo'[v] # <<>>
    BY <2>1, <2>2, <2>3
  <2>7. \A v \in Workers : snap'[v] = {}
    BY <2>3, <2>4
  <2> QED
    BY <2>5, <2>6, <2>7
<1>20. ASSUME NEW w \in Workers, ReleaseFlakeLock(w) PROVE LockInv'
  BY <1>20 DEF ReleaseFlakeLock, FlakeGoto
<1>21. ASSUME NEW w \in Workers, FlakeLockExpires(w) PROVE LockInv'
  BY <1>21 DEF FlakeLockExpires, FlakeGoto
<1>22. ASSUME NEW w \in Workers, FlakeLockTimeout(w) PROVE LockInv'
  BY <1>22 DEF FlakeLockTimeout
<1>23. ASSUME NEW w \in Workers, FlakeError(w) PROVE LockInv'
  BY <1>23 DEF FlakeError, FlakeGoto
<1>24. ASSUME NEW w \in Workers, FlakeKilled(w) PROVE LockInv'
  BY <1>24 DEF FlakeKilled, FlakeGoto
<1> QED
  BY <1>1, <1>2, <1>3, <1>4, <1>5, <1>6, <1>7, <1>8, <1>9, <1>10, <1>11,
     <1>12, <1>13, <1>14, <1>15, <1>16, <1>17, <1>18, <1>19, <1>20, <1>21,
     <1>22, <1>23, <1>24
     DEF Next, ProcStep, FinStep, FlakeStep, Environment, Failure

(* No upload that is due gets lost between the list and a transaction.     *)
LEMMA DueStep ==
    ASSUME TypeOK, LockInv, DueInv, [Next]_vars
    PROVE  DueInv'
<1> USE DEF procVars, finVars, flakeVars, AfterProc, OtherThanFin,
            OtherThanFlake, InProc
<1> USE DEF DueInv, InList, InHand
<1>1. CASE UNCHANGED vars
  BY <1>1 DEF vars
<1>2. ASSUME NEW u \in Uploads, SkipProcessed(u) PROVE DueInv'
  BY <1>2 DEF SkipProcessed, EndProc, ProcGoto
<1>3. ASSUME NEW u \in Uploads, SaveTestInstances(u) PROVE DueInv'
  BY <1>3 DEF SaveTestInstances, ProcGoto
<1>4. ASSUME NEW u \in Uploads, CommitProcessed(u) PROVE DueInv'
  BY <1>4 DEF CommitProcessed, ProcGoto
<1>5. ASSUME NEW u \in Uploads, RewriteArchive(u) PROVE DueInv'
  BY <1>5 DEF RewriteArchive, EndProc, ProcGoto
<1>6. ASSUME NEW u \in Uploads, PushCommit(u) PROVE DueInv'
  <2>1. /\ UNCHANGED <<procVars, flakeVars, broken>>
    BY <1>6 DEF PushCommit
  <2>2. CASE ~DoesFlakeDetection(CommitOf[u])
    <3>1. list' = list /\ due' = due
      BY <1>6, <2>2 DEF PushCommit
    <3> QED
      BY <2>1, <3>1
  <2>3. CASE DoesFlakeDetection(CommitOf[u])
    <3>1. /\ list' = <<CommitOf[u]>> \o list
          /\ due' = due \cup {v \in Uploads : CommitOf[v] = CommitOf[u]
                                                /\ state[v] = "processed"}
      BY <1>6, <2>3 DEF PushCommit
    <3>2. list \in Seq(Commits) /\ CommitOf[u] \in Commits /\ Len(list) \in Nat
      BY SourcesAssumption DEF TypeOK
    <3>3. /\ DOMAIN list' = 1 .. (Len(list) + 1) /\ DOMAIN list = 1 .. Len(list)
          /\ list'[1] = CommitOf[u]
          /\ \A i \in 1 .. Len(list) : list'[i + 1] = list[i]
      BY <3>1, <3>2
    <3>4. \A v \in Uploads : CommitOf[v] = CommitOf[u] => InList(v)'
      BY <3>2, <3>3
    <3>5. ASSUME NEW v \in Uploads, InList(v) PROVE InList(v)'
      <4>1. PICK i \in 1 .. Len(list) : list[i] = CommitOf[v]
        BY <3>3, <3>5
      <4>2. i + 1 \in DOMAIN list' /\ list'[i + 1] = CommitOf[v]
        BY <3>2, <3>3, <4>1
      <4> QED
        BY <4>2
    <3>6. \A v \in Uploads : InHand(v) => InHand(v)'
      BY <2>1
    <3>7. due \subseteq Uploads
      BY DEF TypeOK
    <3> HIDE DEF InList, InHand
    <3> QED
      BY <2>1, <3>1, <3>4, <3>5, <3>6, <3>7
  <2> QED
    BY <2>2, <2>3
<1>7. ASSUME NEW u \in Uploads, SendProcessFlakes(u) PROVE DueInv'
  BY <1>7 DEF SendProcessFlakes
<1>8. ASSUME NEW u \in Uploads, ScheduleProcessing(u) PROVE DueInv'
  BY <1>8 DEF ScheduleProcessing, ProcGoto
<1>9. ASSUME NEW u \in Uploads, ParseError(u) PROVE DueInv'
  BY <1>9 DEF ParseError, EndProc, ProcGoto
<1>10. ASSUME NEW u \in Uploads, FinLockTimeout(u) PROVE DueInv'
  BY <1>10 DEF FinLockTimeout, EndFin
<1>11. ASSUME NEW u \in Uploads, ProcDbError(u) PROVE DueInv'
  BY <1>11 DEF ProcDbError, EndProc, ProcGoto
<1>12. ASSUME NEW u \in Uploads, ProcError(u) PROVE DueInv'
  BY <1>12 DEF ProcError, ProcGoto
<1>13. ASSUME NEW u \in Uploads, FinDbError(u) PROVE DueInv'
  <2>1. /\ UNCHANGED <<procVars, flakeVars, list, due>>
        /\ ~broken' => ~broken
    BY <1>13 DEF FinDbError
  <2> QED
    BY <2>1
<1>14. ASSUME NEW u \in Uploads, FinError(u) PROVE DueInv'
  <2>1. /\ UNCHANGED <<procVars, flakeVars, list, due>>
        /\ ~broken' => ~broken
    BY <1>14 DEF FinError
  <2> QED
    BY <2>1
<1>15. ASSUME NEW c \in Commits, MergePull(c) PROVE DueInv'
  BY <1>15 DEF MergePull
<1>16. ASSUME NEW w \in Workers, AcquireFlakeLock(w) PROVE DueInv'
  BY <1>16 DEF AcquireFlakeLock, FlakeGoto
<1>17. ASSUME NEW w \in Workers, PopCommits(w) PROVE DueInv'
  <2>1. /\ UNCHANGED <<state, snap, due, broken>> /\ flake[w] = "popping"
        /\ Popped(w)
    BY <1>17, Popping DEF PopCommits
  <2>2. CASE UNCHANGED <<list, todo>> /\ flake' = [flake EXCEPT ![w] = "drained"]
    <3>1. \A v \in Uploads : InHand(v) => InHand(v)'
      BY <2>1, <2>2 DEF TypeOK
    <3>2. \A v \in Uploads : InList(v) => InList(v)'
      BY <2>2
    <3>3. due \subseteq Uploads
      BY DEF TypeOK
    <3> HIDE DEF InList, InHand
    <3> QED
      BY <2>1, <3>1, <3>2, <3>3
  <2>3. CASE /\ todo' = [todo EXCEPT ![w] = todo'[w]]
             /\ flake' = [flake EXCEPT ![w] = "processing"]
             /\ \A i \in DOMAIN list :
                   \/ i \in DOMAIN todo'[w] /\ todo'[w][i] = list[i]
                   \/ \E j \in DOMAIN list' : list'[j] = list[i]
    <3>1. todo[w] = <<>> /\ flake'[w] = "processing"
      <4>1. todo[w] = <<>>
        BY <2>1 DEF LockInv
      <4>2. flake'[w] = "processing"
        BY <2>3 DEF TypeOK
      <4> QED
        BY <4>1, <4>2
    <3>2. \A x \in Workers : x # w => todo'[x] = todo[x] /\ flake'[x] = flake[x]
      BY <2>3 DEF TypeOK
    <3>3. ASSUME NEW v \in Uploads, InHand(v) PROVE InHand(v)'
      <4>1. PICK x \in Workers : \E i \in DOMAIN todo[x] :
              /\ todo[x][i] = CommitOf[v]
              /\ flake[x] = "reading" /\ i = 1 => v \in snap[x]
        BY <3>3
      <4>2. x # w
        BY <3>1, <4>1
      <4> QED
        BY <2>1, <3>2, <4>1, <4>2
    <3>4. ASSUME NEW v \in Uploads, InList(v) PROVE (InList(v) \/ InHand(v))'
      <4>1. PICK i \in DOMAIN list : list[i] = CommitOf[v]
        BY <3>4
      <4>2. CASE i \in DOMAIN todo'[w] /\ todo'[w][i] = list[i]
        BY <3>1, <4>1, <4>2
      <4>3. CASE \E j \in DOMAIN list' : list'[j] = list[i]
        BY <4>1, <4>3
      <4> QED
        BY <2>3, <4>2, <4>3
    <3>5. due \subseteq Uploads
      BY DEF TypeOK
    <3> HIDE DEF InList, InHand
    <3> QED
      BY <2>1, <3>3, <3>4, <3>5
  <2> QED
    BY <2>1, <2>2, <2>3 DEF Popped
<1>18. ASSUME NEW w \in Workers, BeginTransaction(w) PROVE DueInv'
  <2>1. /\ UNCHANGED <<state, list, todo, due, broken>>
        /\ flake' = [flake EXCEPT ![w] = "reading"]
        /\ snap' = [snap EXCEPT ![w] = {u \in Uploads :
                       CommitOf[u] = Head(todo[w]) /\ state[u] = "processed"}]
    BY <1>18 DEF BeginTransaction, FlakeGoto
  <2>2. todo[w] \in Seq(Commits) /\ due \subseteq Uploads
    BY DEF TypeOK
  <2>3. Head(todo[w]) = todo[w][1]
    BY <2>2
  <2>4. /\ snap'[w] = {u \in Uploads :
                         CommitOf[u] = todo[w][1] /\ state[u] = "processed"}
        /\ \A x \in Workers : x # w => snap'[x] = snap[x] /\ flake'[x] = flake[x]
    BY <2>1, <2>3 DEF TypeOK
  <2>5. ASSUME NEW v \in Uploads, state[v] = "processed", InHand(v)
        PROVE  InHand(v)'
    <3>0. PICK x \in Workers : \E i \in DOMAIN todo[x] :
            /\ todo[x][i] = CommitOf[v]
            /\ flake[x] = "reading" /\ i = 1 => v \in snap[x]
      BY <2>5
    <3>1. PICK i \in DOMAIN todo[x] :
            /\ todo[x][i] = CommitOf[v]
            /\ flake[x] = "reading" /\ i = 1 => v \in snap[x]
      BY <3>0
    <3>2. CASE x = w
      BY <2>1, <2>4, <2>5, <3>1, <3>2
    <3>3. CASE x # w
      BY <2>1, <2>4, <3>1, <3>3
    <3> QED
      BY <3>2, <3>3
  <2>6. \A v \in Uploads : InList(v) => InList(v)'
    BY <2>1
  <2> HIDE DEF InList, InHand
  <2> QED
    BY <2>1, <2>2, <2>5, <2>6
<1>19. ASSUME NEW w \in Workers, CommitTransaction(w) PROVE DueInv'
  <2>1. /\ UNCHANGED <<list, due, broken>> /\ flake[w] = "reading"
        /\ state' = [u \in Uploads |-> IF u \in snap[w] THEN "flake_processed"
                                                         ELSE state[u]]
        /\ flake' = [flake EXCEPT ![w] =
                        IF Len(todo[w]) = 1 THEN "popping" ELSE "processing"]
        /\ todo' = [todo EXCEPT ![w] = Tail(@)]
        /\ snap' = [snap EXCEPT ![w] = {}]
    BY <1>19 DEF CommitTransaction, FlakeGoto
  <2>2. todo[w] \in Seq(Commits) /\ todo[w] # <<>> /\ due \subseteq Uploads
    BY <2>1 DEF TypeOK, LockInv
  <2>3. /\ todo'[w] = Tail(todo[w]) /\ flake'[w] # "reading"
        /\ \A x \in Workers : x # w => /\ todo'[x] = todo[x] /\ snap'[x] = snap[x]
                                       /\ flake'[x] = flake[x]
    BY <2>1 DEF TypeOK
  <2>4. ASSUME NEW v \in Uploads, state'[v] = "processed", InHand(v)
        PROVE  InHand(v)'
    <3>0. PICK x \in Workers : \E i \in DOMAIN todo[x] :
            /\ todo[x][i] = CommitOf[v]
            /\ flake[x] = "reading" /\ i = 1 => v \in snap[x]
      BY <2>4
    <3>1. PICK i \in DOMAIN todo[x] :
            /\ todo[x][i] = CommitOf[v]
            /\ flake[x] = "reading" /\ i = 1 => v \in snap[x]
      BY <3>0
    <3>2. CASE x = w
      <4>1. v \notin snap[w]
        BY <2>1, <2>4
      <4>2. i \in 1 .. Len(todo[w]) /\ i # 1 /\ Len(todo[w]) \in Nat
        BY <2>1, <2>2, <3>1, <3>2, <4>1
      <4>3. i - 1 \in DOMAIN Tail(todo[w]) /\ Tail(todo[w])[i - 1] = todo[w][i]
        BY <2>2, <4>2
      <4>4. /\ i - 1 \in DOMAIN todo'[w] /\ todo'[w][i - 1] = CommitOf[v]
            /\ ~(flake'[w] = "reading")
        BY <2>3, <3>1, <3>2, <4>3
      <4> QED
        BY <4>4
    <3>3. CASE x # w
      BY <2>3, <3>1, <3>3
    <3> QED
      BY <3>2, <3>3
  <2>5. \A v \in Uploads : /\ InList(v) => InList(v)'
                           /\ state'[v] = "processed" => state[v] = "processed"
    BY <2>1
  <2> HIDE DEF InList, InHand
  <2> QED
    BY <2>1, <2>2, <2>4, <2>5
<1>20. ASSUME NEW w \in Workers, ReleaseFlakeLock(w) PROVE DueInv'
  BY <1>20 DEF ReleaseFlakeLock, FlakeGoto
<1>21. ASSUME NEW w \in Workers, FlakeLockExpires(w) PROVE DueInv'
  BY <1>21 DEF FlakeLockExpires, FlakeGoto
<1>22. ASSUME NEW w \in Workers, FlakeLockTimeout(w) PROVE DueInv'
  BY <1>22 DEF FlakeLockTimeout
<1>23. ASSUME NEW w \in Workers, FlakeError(w) PROVE DueInv'
  BY <1>23 DEF FlakeError, FlakeGoto
<1>24. ASSUME NEW w \in Workers, FlakeKilled(w) PROVE DueInv'
  BY <1>24 DEF FlakeKilled, FlakeGoto
<1> QED
  BY <1>1, <1>2, <1>3, <1>4, <1>5, <1>6, <1>7, <1>8, <1>9, <1>10, <1>11,
     <1>12, <1>13, <1>14, <1>15, <1>16, <1>17, <1>18, <1>19, <1>20, <1>21,
     <1>22, <1>23, <1>24
     DEF Next, ProcStep, FinStep, FlakeStep, Environment, Failure

(* Tasks that cannot get the lock leave their commits to its holder.       *)
LEMMA MessageStep ==
    ASSUME TypeOK, ProcInv, LockInv, MessageInv, [Next]_vars
    PROVE  MessageInv'
<1> USE DEF procVars, finVars, flakeVars, AfterProc, OtherThanFin,
            OtherThanFlake, InProc
<1> USE DEF TypeOK, ProcInv, TriesInv, LockInv, MessageInv
<1>1. CASE UNCHANGED vars
  BY <1>1 DEF vars
<1>2. ASSUME NEW u \in Uploads, SkipProcessed(u) PROVE MessageInv'
  BY <1>2 DEF SkipProcessed, EndProc, ProcGoto
<1>3. ASSUME NEW u \in Uploads, SaveTestInstances(u) PROVE MessageInv'
  BY <1>3 DEF SaveTestInstances, ProcGoto
<1>4. ASSUME NEW u \in Uploads, CommitProcessed(u) PROVE MessageInv'
  BY <1>4 DEF CommitProcessed, ProcGoto
<1>5. ASSUME NEW u \in Uploads, RewriteArchive(u) PROVE MessageInv'
  BY <1>5 DEF RewriteArchive, EndProc, ProcGoto
<1>6. ASSUME NEW u \in Uploads, PushCommit(u) PROVE MessageInv'
  BY <1>6 DEF PushCommit
<1>7. ASSUME NEW u \in Uploads, SendProcessFlakes(u) PROVE MessageInv'
  BY <1>7 DEF SendProcessFlakes
<1>8. ASSUME NEW u \in Uploads, ScheduleProcessing(u) PROVE MessageInv'
  BY <1>8 DEF ScheduleProcessing, ProcGoto
<1>9. ASSUME NEW u \in Uploads, ParseError(u) PROVE MessageInv'
  BY <1>9 DEF ParseError, EndProc, ProcGoto
<1>10. ASSUME NEW u \in Uploads, FinLockTimeout(u) PROVE MessageInv'
  BY <1>10 DEF FinLockTimeout, EndFin
<1>11. ASSUME NEW u \in Uploads, ProcDbError(u) PROVE MessageInv'
  BY <1>11 DEF ProcDbError, EndProc, ProcGoto
<1>12. ASSUME NEW u \in Uploads, ProcError(u) PROVE MessageInv'
  BY <1>12 DEF ProcError, ProcGoto
<1>13. ASSUME NEW u \in Uploads, FinDbError(u) PROVE MessageInv'
  <2>1. /\ \A v \in Uploads : v # u => fin'[v] = fin[v]
        /\ broken' = (broken \/ fin[u] = "pushed")
        /\ UNCHANGED <<flake, list, messages>>
    BY <1>13 DEF FinDbError, EndFin
  <2>2. ~broken' => \A v \in Uploads : fin[v] = "pushed" => fin'[v] = "pushed"
    BY <2>1
  <2> QED
    BY <2>1, <2>2
<1>14. ASSUME NEW u \in Uploads, FinError(u) PROVE MessageInv'
  <2>1. /\ \A v \in Uploads : v # u => fin'[v] = fin[v]
        /\ broken' = (broken \/ fin[u] = "pushed")
        /\ UNCHANGED <<flake, list, messages>>
    BY <1>14 DEF FinError, EndFin
  <2>2. ~broken' => \A v \in Uploads : fin[v] = "pushed" => fin'[v] = "pushed"
    BY <2>1
  <2> QED
    BY <2>1, <2>2
<1>15. ASSUME NEW c \in Commits, MergePull(c) PROVE MessageInv'
  BY <1>15 DEF MergePull
<1>16. ASSUME NEW w \in Workers, AcquireFlakeLock(w) PROVE MessageInv'
  BY <1>16 DEF AcquireFlakeLock, FlakeGoto
<1>17. ASSUME NEW w \in Workers, PopCommits(w) PROVE MessageInv'
  BY <1>17 DEF PopCommits, FlakeGoto
<1>18. ASSUME NEW w \in Workers, BeginTransaction(w) PROVE MessageInv'
  BY <1>18 DEF BeginTransaction, FlakeGoto
<1>19. ASSUME NEW w \in Workers, CommitTransaction(w) PROVE MessageInv'
  BY <1>19 DEF CommitTransaction, FlakeGoto
<1>20. ASSUME NEW w \in Workers, ReleaseFlakeLock(w) PROVE MessageInv'
  BY <1>20 DEF ReleaseFlakeLock, FlakeGoto
<1>21. ASSUME NEW w \in Workers, FlakeLockExpires(w) PROVE MessageInv'
  BY <1>21 DEF FlakeLockExpires, FlakeGoto
<1>22. ASSUME NEW w \in Workers, FlakeLockTimeout(w) PROVE MessageInv'
  BY <1>22 DEF FlakeLockTimeout
<1>23. ASSUME NEW w \in Workers, FlakeError(w) PROVE MessageInv'
  BY <1>23 DEF FlakeError, FlakeGoto
<1>24. ASSUME NEW w \in Workers, FlakeKilled(w) PROVE MessageInv'
  BY <1>24 DEF FlakeKilled, FlakeGoto
<1> QED
  BY <1>1, <1>2, <1>3, <1>4, <1>5, <1>6, <1>7, <1>8, <1>9, <1>10, <1>11,
     <1>12, <1>13, <1>14, <1>15, <1>16, <1>17, <1>18, <1>19, <1>20, <1>21,
     <1>22, <1>23, <1>24
     DEF Next, ProcStep, FinStep, FlakeStep, Environment, Failure

(* Uploads that failed and are counted.                                    *)
Counted == {u \in Uploads : state[u] = "flake_processed" /\ outcome[u] = "fail"}

(* Nothing but a transaction touches the rows or what they count.          *)
LEMMA CountedStep ==
    ASSUME TypeOK, ProcInv, [Next]_vars, \A u \in Uploads : procTries'[u] = 0
    PROVE  /\ \A u \in Uploads : procTries[u] = 0
           /\ \/ rows' = rows /\ Counted' = Counted
              \/ \E w \in Workers : CommitTransaction(w)
<1> USE DEF procVars, finVars, flakeVars, AfterProc, OtherThanFin,
            OtherThanFlake, InProc
<1> USE DEF TypeOK, ProcInv, TriesInv, Counted
<1> DEFINE Goal == /\ \A v \in Uploads : procTries[v] = 0
                   /\ \/ rows' = rows /\ Counted' = Counted
                      \/ \E x \in Workers : CommitTransaction(x)
<1>1. CASE UNCHANGED vars
  BY <1>1 DEF vars
<1>2. ASSUME NEW u \in Uploads, SkipProcessed(u) PROVE Goal
  BY <1>2 DEF SkipProcessed, EndProc, ProcGoto
<1>3. ASSUME NEW u \in Uploads, SaveTestInstances(u) PROVE Goal
  BY <1>3 DEF SaveTestInstances, ProcGoto
<1>4. ASSUME NEW u \in Uploads, CommitProcessed(u) PROVE Goal
  BY <1>4 DEF CommitProcessed, ProcGoto
<1>5. ASSUME NEW u \in Uploads, RewriteArchive(u) PROVE Goal
  BY <1>5 DEF RewriteArchive, EndProc, ProcGoto
<1>6. ASSUME NEW u \in Uploads, PushCommit(u) PROVE Goal
  BY <1>6 DEF PushCommit
<1>7. ASSUME NEW u \in Uploads, SendProcessFlakes(u) PROVE Goal
  BY <1>7 DEF SendProcessFlakes
<1>8. ASSUME NEW u \in Uploads, ScheduleProcessing(u) PROVE Goal
  <2>1. PICK o \in {"pass", "fail"} : outcome' = [outcome EXCEPT ![u] = o]
    BY <1>8 DEF ScheduleProcessing
  <2>2. /\ state' = [state EXCEPT ![u] = "uploaded"] /\ state[u] = "none"
        /\ rows' = rows /\ procTries' = procTries
    BY <1>8 DEF ScheduleProcessing
  <2>3. Counted' = Counted
    BY <2>1, <2>2
  <2> QED
    BY <2>2, <2>3
<1>9. ASSUME NEW u \in Uploads, ParseError(u) PROVE Goal
  BY <1>9 DEF ParseError, EndProc, ProcGoto
<1>10. ASSUME NEW u \in Uploads, FinLockTimeout(u) PROVE Goal
  BY <1>10 DEF FinLockTimeout, EndFin
<1>11. ASSUME NEW u \in Uploads, ProcDbError(u) PROVE Goal
  BY <1>11 DEF ProcDbError, EndProc, ProcGoto
<1>12. ASSUME NEW u \in Uploads, ProcError(u) PROVE Goal
  BY <1>12 DEF ProcError, ProcGoto
<1>13. ASSUME NEW u \in Uploads, FinDbError(u) PROVE Goal
  BY <1>13 DEF FinDbError, EndFin
<1>14. ASSUME NEW u \in Uploads, FinError(u) PROVE Goal
  BY <1>14 DEF FinError, EndFin
<1>15. ASSUME NEW c \in Commits, MergePull(c) PROVE Goal
  BY <1>15 DEF MergePull
<1>16. ASSUME NEW w \in Workers, AcquireFlakeLock(w) PROVE Goal
  BY <1>16 DEF AcquireFlakeLock, FlakeGoto
<1>17. ASSUME NEW w \in Workers, PopCommits(w) PROVE Goal
  BY <1>17 DEF PopCommits, FlakeGoto
<1>18. ASSUME NEW w \in Workers, BeginTransaction(w) PROVE Goal
  BY <1>18 DEF BeginTransaction, FlakeGoto
<1>19. ASSUME NEW w \in Workers, CommitTransaction(w) PROVE Goal
  BY <1>19 DEF CommitTransaction, FlakeGoto
<1>20. ASSUME NEW w \in Workers, ReleaseFlakeLock(w) PROVE Goal
  BY <1>20 DEF ReleaseFlakeLock, FlakeGoto
<1>21. ASSUME NEW w \in Workers, FlakeLockExpires(w) PROVE Goal
  BY <1>21 DEF FlakeLockExpires, FlakeGoto
<1>22. ASSUME NEW w \in Workers, FlakeLockTimeout(w) PROVE Goal
  BY <1>22 DEF FlakeLockTimeout
<1>23. ASSUME NEW w \in Workers, FlakeError(w) PROVE Goal
  BY <1>23 DEF FlakeError, FlakeGoto
<1>24. ASSUME NEW w \in Workers, FlakeKilled(w) PROVE Goal
  BY <1>24 DEF FlakeKilled, FlakeGoto
<1> QED
  BY <1>1, <1>2, <1>3, <1>4, <1>5, <1>6, <1>7, <1>8, <1>9, <1>10, <1>11,
     <1>12, <1>13, <1>14, <1>15, <1>16, <1>17, <1>18, <1>19, <1>20, <1>21,
     <1>22, <1>23, <1>24
     DEF Next, ProcStep, FinStep, FlakeStep, Environment, Failure

(* A transaction adds to the rows what it adds to the uploads that are     *)
(* counted.                                                                *)
LEMMA ExactStep ==
    ASSUME TypeOK, ProcInv, LockInv, GoodRows(rows), FlakesAreExact, [Next]_vars
    PROVE  FlakesAreExact'
<1> SUFFICES ASSUME \A u \in Uploads : procTries'[u] = 0
             PROVE  TotalFails(rows') = Cardinality(Counted')
  BY DEF FlakesAreExact, Counted
<1>1. /\ \A u \in Uploads : procTries[u] = 0
      /\ \/ rows' = rows /\ Counted' = Counted
         \/ \E w \in Workers : CommitTransaction(w)
  BY CountedStep
<1>2. TotalFails(rows) = Cardinality(Counted)
  BY <1>1 DEF FlakesAreExact, Counted
<1>3. CASE rows' = rows /\ Counted' = Counted
  BY <1>2, <1>3
<1>4. ASSUME NEW w \in Workers, CommitTransaction(w)
      PROVE  TotalFails(rows') = Cardinality(Counted')
  <2> DEFINE New == {u \in snap[w] : outcome[u] = "fail"}
  <2>1. snap[w] \in SUBSET Uploads /\ \A u \in snap[w] : state[u] = "processed"
    BY DEF TypeOK, LockInv
  <2>2. \A u \in snap[w] : stored[u] = 1
    <3> SUFFICES ASSUME NEW u \in snap[w] PROVE stored[u] = 1
      OBVIOUS
    <3>1. u \in Uploads /\ state[u] = "processed" /\ procTries[u] = 0 /\ TriesInv(u)
      BY <1>1, <2>1 DEF ProcInv
    <3>2. stored[u] \in Nat
      BY <3>1, LimitsAssumption DEF TypeOK
    <3>3. stored[u] > 0 /\ stored[u] <= 1
      BY <3>1, <3>2 DEF TriesInv
    <3> QED
      BY <3>2, <3>3
  <2>3. PICK order \in SetToSeqs(snap[w]) : rows' = ProcessUploads(order)
    BY <1>4 DEF CommitTransaction
  <2>4. /\ outcome \in [Uploads -> {"pass", "fail"}]
        /\ stored \in [Uploads -> Nat]
    BY LimitsAssumption DEF TypeOK
  <2>5. TotalFails(rows') = TotalFails(rows) + Cardinality(New)
    BY <2>1, <2>2, <2>3, <2>4, UploadsStep
  <2>6. Counted' = Counted \cup New /\ Counted \cap New = {}
    <3>1. /\ outcome' = outcome
          /\ \A u \in Uploads : state'[u] = IF u \in snap[w] THEN "flake_processed"
                                                             ELSE state[u]
      BY <1>4 DEF CommitTransaction, OtherThanFlake
    <3> QED
      BY <2>1, <3>1 DEF Counted
  <2>7. IsFiniteSet(Counted) /\ IsFiniteSet(New)
    <3>1. Counted \in SUBSET Uploads /\ New \in SUBSET Uploads
      BY <2>1 DEF Counted
    <3> HIDE DEF New
    <3> QED
      BY <3>1, SourcesAssumption, FS_Subset
  <2> HIDE DEF New
  <2>8. Cardinality(Counted \cup New) = Cardinality(Counted) + Cardinality(New)
    <3>1. Cardinality(Counted \cup New) =
            Cardinality(Counted) + Cardinality(New) - Cardinality({})
      BY <2>6, <2>7, FS_Union
    <3>2. Cardinality(Counted) \in Nat /\ Cardinality(New) \in Nat
      BY <2>7, FS_CardinalityType
    <3> QED
      BY <3>1, <3>2, FS_EmptySet
  <2> QED
    BY <1>2, <2>5, <2>6, <2>8
<1> QED
  BY <1>1, <1>3, <1>4

IInv ==
    /\ TypeOK
    /\ ProcInv
    /\ LockInv
    /\ DueInv
    /\ MessageInv
    /\ GoodRows(rows)
    /\ FlakesAreExact

(* Nothing has been uploaded, and there are no rows.                       *)
LEMMA InitIInv == Init => IInv
<1> SUFFICES ASSUME Init PROVE IInv
  OBVIOUS
<1> USE DEF Init
<1>1. TypeOK
  <2>1. /\ stored \in [Uploads -> 0 .. DbRetries + 1]
        /\ procTries \in [Uploads -> 0 .. DbRetries]
        /\ finTries \in [Uploads -> Nat]
        /\ \A u \in Uploads : finTries[u] <= LockRetries
        /\ messages \in Nat /\ faults \in 0 .. MaxFaults
    BY LimitsAssumption
  <2>2. /\ list \in Seq(Commits) /\ rows \in Seq(FlakeRows)
        /\ todo \in [Workers -> Seq(Commits)]
    OBVIOUS
  <2> QED
    BY <2>1, <2>2 DEF TypeOK, InProc
<1>2. ProcInv
  BY DEF ProcInv, TriesInv, InProc
<1>3. LockInv
  BY SourcesAssumption DEF LockInv
<1>4. DueInv /\ MessageInv
  BY DEF DueInv, MessageInv
<1>5. rows \in Seq(FlakeRows) /\ Len(rows) = 0
  OBVIOUS
<1>6. GoodRows(rows)
  BY <1>5 DEF GoodRows, RowsInv
<1>7. TotalFails(rows) = 0
  BY <1>5, TotalFailsSum
<1>8. {u \in Uploads : state[u] = "flake_processed" /\ outcome[u] = "fail"} = {}
  OBVIOUS
<1>9. FlakesAreExact
  BY <1>7, <1>8, FS_EmptySet DEF FlakesAreExact
<1> QED
  BY <1>1, <1>2, <1>3, <1>4, <1>6, <1>9 DEF IInv

(* Every step keeps the invariant.                                         *)
LEMMA IInvStep == IInv /\ [Next]_vars => IInv'
<1> SUFFICES ASSUME IInv, [Next]_vars PROVE IInv'
  OBVIOUS
<1>1. /\ TypeOK /\ ProcInv /\ LockInv /\ DueInv /\ MessageInv
      /\ GoodRows(rows) /\ FlakesAreExact
  BY DEF IInv
<1>2. /\ outcome \in [Uploads -> {"pass", "fail"}] /\ stored \in [Uploads -> Nat]
      /\ snap \in [Workers -> SUBSET Uploads] /\ faults \in 0 .. MaxFaults
  BY <1>1, LimitsAssumption DEF TypeOK
<1>3. GoodRows(rows')
  BY <1>1, <1>2, RowsStep
<1>4. rows' \in Seq(FlakeRows)
  BY <1>3 DEF GoodRows
<1>5. faults' \in 0 .. MaxFaults
  BY <1>2, FaultStep
<1>6. TypeOK'
  BY <1>1, <1>4, <1>5, TypeStep
<1>7. ProcInv'
  BY <1>1, ProcInvStep
<1>8. LockInv'
  BY <1>1, LockStep
<1>9. DueInv'
  BY <1>1, DueStep
<1>10. MessageInv'
  BY <1>1, MessageStep
<1>11. FlakesAreExact'
  BY <1>1, ExactStep
<1>12. GoodRows(rows)'
  BY <1>3
<1> QED
  BY <1>6, <1>7, <1>8, <1>9, <1>10, <1>11, <1>12 DEF IInv

-----------------------------------------------------------------------------
(* Theorems.                                                               *)

(* The invariant: lock, list, messages, retries and rows agree in every    *)
(* reachable state.                                                        *)
THEOREM FlakesInvariant == Spec => []IInv
BY InitIInv, IInvStep, PTL DEF Spec

(* Every variable has its type, and no processor or finisher is retried    *)
(* more often than its limit.                                              *)
THEOREM TypeCorrect == Spec => []TypeOK
<1>1. IInv => TypeOK
  BY DEF IInv
<1> QED
  BY <1>1, FlakesInvariant, PTL

(* "The locking scheme is set up such that no upload will be unprocessed": *)
(* tasks that end because of the lock leave nothing behind in the list.    *)
THEOREM NoUploadUnprocessedHolds == Spec => []NoUploadUnprocessed
<1>1. IInv => NoUploadUnprocessed
  <2> SUFFICES ASSUME IInv, FlakesQuiet, ~broken, NEW u \in due,
                      state[u] = "processed"
               PROVE  FALSE
    BY DEF NoUploadUnprocessed
  <2>1. /\ messages = 0 /\ \A w \in Workers : flake[w] = "idle"
        /\ \A v \in Uploads : fin[v] # "pushed"
    BY DEF FlakesQuiet
  <2>2. list = <<>>
    BY <2>1 DEF IInv, MessageInv
  <2>3. ~InList(u)
    BY <2>2 DEF InList
  <2>4. ~InHand(u)
    <3>1. \A w \in Workers : todo[w] = <<>>
      BY <2>1 DEF IInv, LockInv
    <3> QED
      BY <3>1 DEF InHand
  <2> QED
    BY <2>3, <2>4 DEF IInv, DueInv
<1> QED
  BY <1>1, FlakesInvariant, PTL

(* Unless a processor was retried, the rows count every failed upload that *)
(* was looked at exactly once, whatever tasks compete for a commit.        *)
THEOREM FlakesAreExactHolds == Spec => []FlakesAreExact
<1>1. IInv => FlakesAreExact
  BY DEF IInv
<1> QED
  BY <1>1, FlakesInvariant, PTL

(* Transactions never open a second Flake, nor leave one open that has     *)
(* passed FLAKE_EXPIRY_COUNT times.                                        *)
THEOREM OneOpenFlakeHolds == Spec => []OneOpenFlake
<1>1. IInv => OneOpenFlake
  <2> SUFFICES ASSUME IInv PROVE OneOpenFlake
    OBVIOUS
  <2>1. PICK k \in 0 .. Len(rows) : RowsInv(rows, k)
    BY DEF IInv, GoodRows
  <2>2. \A i \in OpenRows(rows) :
          /\ i = k /\ rows[i].recent < Expiry
          /\ rows[i].fails + rows[i].recent <= rows[i].count
    BY <2>1 DEF RowsInv, OpenRows
  <2>3. OpenRows(rows) = {} \/ OpenRows(rows) = {k}
    BY <2>2
  <2>4. Cardinality(OpenRows(rows)) <= 1
    BY <2>3, FS_EmptySet, FS_Singleton
  <2> QED
    BY <2>2, <2>4 DEF OneOpenFlake
<1> QED
  BY <1>1, FlakesInvariant, PTL

=============================================================================
