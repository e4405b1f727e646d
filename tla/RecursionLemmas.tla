--------------------------- MODULE RecursionLemmas --------------------------
(***************************************************************************)
(* What the proofs about loops need: loops of the code are functions that  *)
(* are defined by recursion on the number of the round.                    *)
(***************************************************************************)
EXTENDS Integers, WellFoundedInduction, TLAPS

(* Induction on the naturals, over a set of numbers.                       *)
LEMMA InductionOnSet ==
    ASSUME NEW S, 0 \in S, \A n \in Nat : n \in S => n + 1 \in S
    PROVE  Nat \subseteq S
<1> SUFFICES ASSUME Nat \ S # {} PROVE FALSE
  OBVIOUS
<1>1. PICK m \in Nat \ S :
        \A k \in Nat \ S : ~(<<k, m>> \in OpToRel(<, Nat))
  BY WFMin, NatLessThanWellFounded
<1>2. \A k \in Nat \ S : ~(k < m)
  BY <1>1 DEF OpToRel
<1>3. m # 0 /\ m - 1 \in Nat /\ m - 1 < m
  OBVIOUS
<1>4. m - 1 \in S
  BY <1>2, <1>3
<1> QED
  BY <1>3, <1>4

(* f is the recursion from 0 to N that starts with s and applies a function*)
(* of the index to the value before.                                       *)
IsRecursion(f, N, S, s, step) ==
    /\ f \in [0 .. N -> S]
    /\ f[0] = s
    /\ \A i \in 1 .. N : f[i] = step[i][f[i - 1]]

Steps(S) == [Nat -> [S -> S]]

(* Such a recursion has a result.                                          *)
LEMMA RecursionExists ==
    ASSUME NEW N \in Nat, NEW S, NEW s \in S, NEW step \in Steps(S)
    PROVE  \E f : IsRecursion(f, N, S, s, step)
<1> DEFINE T == {n \in Nat : \E f : IsRecursion(f, n, S, s, step)}
<1>1. 0 \in T
  <2> DEFINE f == [i \in 0 .. 0 |-> s]
  <2>1. IsRecursion(f, 0, S, s, step)
    BY DEF IsRecursion
  <2> QED
    BY <2>1
<1>2. ASSUME NEW n \in Nat, n \in T PROVE n + 1 \in T
  <2>1. PICK f : IsRecursion(f, n, S, s, step)
    BY <1>2
  <2>2. /\ f \in [0 .. n -> S] /\ f[0] = s
        /\ \A i \in 1 .. n : f[i] = step[i][f[i - 1]]
    BY <2>1 DEF IsRecursion
  <2> DEFINE last == step[n + 1][f[n]]
             g == [i \in 0 .. (n + 1) |-> IF i = n + 1 THEN last ELSE f[i]]
  <2>3. last \in S
    BY <2>2 DEF Steps
  <2>4. \A i \in 0 .. n : g[i] = f[i] /\ f[i] \in S
    BY <2>2
  <2>5. g \in [0 .. (n + 1) -> S]
    <3>1. ASSUME NEW i \in 0 .. (n + 1), i # n + 1 PROVE i \in 0 .. n
      BY <3>1
    <3> HIDE DEF last
    <3> QED
      BY <2>2, <2>3, <3>1
  <2>6. g[n + 1] = step[n + 1][g[n]]
    BY <2>4
  <2> HIDE DEF g, last
  <2>7. g[0] = s
    BY <2>2, <2>4
  <2>8. ASSUME NEW i \in 1 .. (n + 1) PROVE g[i] = step[i][g[i - 1]]
    <3>1. CASE i = n + 1
      BY <3>1, <2>6
    <3>2. CASE i \in 1 .. n
      <4>1. i - 1 \in 0 .. n /\ i \in 0 .. n
        BY <3>2
      <4> QED
        BY <3>2, <4>1, <2>2, <2>4
    <3> QED
      BY <3>1, <3>2
  <2>9. IsRecursion(g, n + 1, S, s, step)
    BY <2>5, <2>7, <2>8 DEF IsRecursion
  <2> QED
    BY <2>9
<1> HIDE DEF T
<1>3. Nat \subseteq T
  BY <1>1, <1>2, InductionOnSet
<1> QED
  BY <1>3 DEF T

=============================================================================
