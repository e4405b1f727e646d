------------------------- MODULE UploadIntakeProofs -------------------------
(***************************************************************************)
(* Proofs about UploadIntake, for any number of uploads, any number of     *)
(* elements per lpop, any retry limit, and with every fault allowed.       *)
(***************************************************************************)
EXTENDS UploadIntake, TLAPS

(* The redis list only holds uploads whose task has yet to run its course: *)
(* the strengthening of NoTaskEndsEarly that is inductive.  "drained" is   *)
(* there because ScheduleTask ends the task without looking at the list    *)
(* again.                                                                  *)
QueueInv ==
    \A u \in ToSet(queue) : task[u] \notin {"none", "drained", "done"}

(* Only the holder of the upload lock is inside it: no two tasks drain the *)
(* list and schedule chords at the same time.                              *)
UploadLockInv ==
    \A t \in Uploads : task[t] \in InLock => uploadLock = t

IInv == TypeOK /\ QueueInv /\ UploadLockInv

(* What some run has popped and not yet handed on.                         *)
Held == UNION {ToSet(taken[t]) : t \in Uploads}

(* An upload has arrived when its task has left "none"; a run has popped   *)
(* uploads only from the first lpop until it schedules them.               *)
ArrivalInv ==
    /\ IsInjective(arrivals)
    /\ \A u \in Uploads : u \in ToSet(arrivals) <=> task[u] # "none"
    /\ \A t \in Uploads : taken[t] # <<>> => task[t] \in {"draining", "drained"}

(* Scheduled uploads, popped uploads and the list form one pipeline: what  *)
(* arrived before an upload is ahead of it in its own stage, in a later    *)
(* stage, or lost.  The strengthening of NoOvertaking that is inductive.   *)
PipelineInv ==
    /\ NoOvertaking
    /\ \A t \in Uploads : \A v \in ToSet(taken[t]) :
        Earlier(arrivals, v) \subseteq lost \cup ToSet(scheduled)
                                         \cup Earlier(taken[t], v)
    /\ \A v \in ToSet(queue) :
        Earlier(arrivals, v) \subseteq lost \cup ToSet(scheduled) \cup Held
                                         \cup Earlier(queue, v)

PInv == ArrivalInv /\ EachUploadOnce /\ PipelineInv

-----------------------------------------------------------------------------
(* What the list operations do to the elements of a list.                  *)

(* rpush adds one element.                                                 *)
LEMMA AppendElements ==
    ASSUME NEW S, NEW s \in Seq(S), NEW e \in S
    PROVE  /\ Append(s, e) \in Seq(S)
           /\ ToSet(Append(s, e)) = ToSet(s) \cup {e}
<1>1. Append(s, e) \in Seq(S)
  OBVIOUS
<1>2. ToSet(Append(s, e)) \subseteq ToSet(s) \cup {e}
  BY DEF ToSet
<1>3. \A i \in DOMAIN s : s[i] \in ToSet(Append(s, e))
  <2> TAKE i \in DOMAIN s
  <2>1. i \in DOMAIN Append(s, e) /\ Append(s, e)[i] = s[i]
    OBVIOUS
  <2> QED BY <2>1 DEF ToSet
<1>4. e \in ToSet(Append(s, e))
  <2>1. Len(s) + 1 \in DOMAIN Append(s, e) /\ Append(s, e)[Len(s) + 1] = e
    OBVIOUS
  <2> QED BY <2>1 DEF ToSet
<1> QED BY <1>1, <1>2, <1>3, <1>4 DEF ToSet

(* lpop splits the list into two, neither of which has a new element.      *)
LEMMA SplitElements ==
    ASSUME NEW S, NEW s \in Seq(S), NEW n \in 0 .. Len(s)
    PROVE  /\ SubSeq(s, 1, n) \in Seq(S)
           /\ SubSeq(s, n + 1, Len(s)) \in Seq(S)
           /\ ToSet(SubSeq(s, n + 1, Len(s))) \subseteq ToSet(s)
<1>1. SubSeq(s, 1, n) \in Seq(S) /\ SubSeq(s, n + 1, Len(s)) \in Seq(S)
  OBVIOUS
<1>2. ASSUME NEW i \in DOMAIN SubSeq(s, n + 1, Len(s))
      PROVE  SubSeq(s, n + 1, Len(s))[i] \in ToSet(s)
  <2>1. i + n \in DOMAIN s /\ SubSeq(s, n + 1, Len(s))[i] = s[i + n]
    OBVIOUS
  <2> QED BY <2>1 DEF ToSet
<1> QED BY <1>1, <1>2 DEF ToSet

(* Concatenation keeps elements, multiplicity and order.                   *)
LEMMA ConcatElements ==
    ASSUME NEW S, NEW s \in Seq(S), NEW r \in Seq(S)
    PROVE  /\ ToSet(s \o r) = ToSet(s) \cup ToSet(r)
           /\ IsInjective(s) /\ IsInjective(r) /\ ToSet(s) \cap ToSet(r) = {}
                => IsInjective(s \o r)
           /\ \A v : v \notin ToSet(r) => Earlier(s \o r, v) = Earlier(s, v)
           /\ \A v : v \in ToSet(r) \ ToSet(s) =>
                Earlier(s \o r, v) = ToSet(s) \cup Earlier(r, v)
<1> DEFINE sr == s \o r
<1>1. /\ sr \in Seq(S) /\ DOMAIN sr = 1 .. (Len(s) + Len(r))
      /\ DOMAIN s = 1 .. Len(s) /\ DOMAIN r = 1 .. Len(r)
      /\ Len(s) \in Nat /\ Len(r) \in Nat
      /\ \A i \in 1 .. Len(s) : sr[i] = s[i]
      /\ \A i \in (Len(s) + 1) .. (Len(s) + Len(r)) : sr[i] = r[i - Len(s)]
  OBVIOUS
<1>2. \A i \in 1 .. Len(r) : /\ i + Len(s) \in DOMAIN sr
                              /\ sr[i + Len(s)] = r[i]
  BY <1>1
<1> HIDE DEF sr
<1>3. ToSet(sr) \subseteq ToSet(s) \cup ToSet(r)
  <2> SUFFICES ASSUME NEW i \in DOMAIN sr PROVE sr[i] \in ToSet(s) \cup ToSet(r)
    BY DEF ToSet
  <2>1. CASE i <= Len(s)
    BY <1>1, <2>1 DEF ToSet
  <2>2. CASE i > Len(s)
    <3>1. i - Len(s) \in DOMAIN r /\ sr[i] = r[i - Len(s)]
      BY <1>1, <2>2
    <3> QED BY <3>1 DEF ToSet
  <2> QED BY <1>1, <2>1, <2>2
<1>4. ToSet(s) \subseteq ToSet(sr)
  <2> SUFFICES ASSUME NEW i \in DOMAIN s PROVE s[i] \in ToSet(sr)
    BY DEF ToSet
  <2>1. i \in DOMAIN sr /\ sr[i] = s[i]
    BY <1>1
  <2> QED BY <2>1 DEF ToSet
<1>5. ToSet(r) \subseteq ToSet(sr)
  <2> SUFFICES ASSUME NEW i \in DOMAIN r PROVE r[i] \in ToSet(sr)
    BY DEF ToSet
  <2> QED BY <1>1, <1>2 DEF ToSet
<1>6. ASSUME IsInjective(s), IsInjective(r), ToSet(s) \cap ToSet(r) = {}
      PROVE  IsInjective(sr)
  <2> SUFFICES ASSUME NEW i \in DOMAIN sr, NEW j \in DOMAIN sr, sr[i] = sr[j]
               PROVE  i = j
    BY DEF IsInjective
  <2>1. \A k \in DOMAIN sr : IF k <= Len(s) THEN sr[k] \in ToSet(s)
                                            ELSE sr[k] \in ToSet(r)
    <3> TAKE k \in DOMAIN sr
    <3>1. CASE k <= Len(s)
      BY <1>1, <3>1 DEF ToSet
    <3>2. CASE k > Len(s)
      <4>1. k - Len(s) \in DOMAIN r /\ sr[k] = r[k - Len(s)]
        BY <1>1, <3>2
      <4> QED BY <1>1, <3>2, <4>1 DEF ToSet
    <3> QED BY <1>1, <3>1, <3>2
  <2>2. (i <= Len(s)) <=> (j <= Len(s))
    BY <1>6, <2>1
  <2>3. CASE i <= Len(s)
    BY <1>1, <1>6, <2>2, <2>3 DEF IsInjective
  <2>4. CASE i > Len(s)
    <3>1. /\ i - Len(s) \in DOMAIN r /\ sr[i] = r[i - Len(s)]
          /\ j - Len(s) \in DOMAIN r /\ sr[j] = r[j - Len(s)]
      BY <1>1, <2>2, <2>4
    <3>2. i - Len(s) = j - Len(s)
      BY <1>6, <3>1 DEF IsInjective
    <3> QED BY <1>1, <3>2
  <2> QED BY <1>1, <2>3, <2>4
<1>7. ASSUME NEW v, v \notin ToSet(r) PROVE Earlier(sr, v) = Earlier(s, v)
  <2>1. \A j \in DOMAIN sr : sr[j] = v => j \in DOMAIN s /\ s[j] = v
    <3> SUFFICES ASSUME NEW j \in DOMAIN sr, sr[j] = v, j > Len(s) PROVE FALSE
      BY <1>1
    <3>1. j - Len(s) \in DOMAIN r /\ sr[j] = r[j - Len(s)]
      BY <1>1
    <3> QED BY <1>7, <3>1 DEF ToSet
  <2>2. \A j \in DOMAIN s : j \in DOMAIN sr /\ sr[j] = s[j]
    BY <1>1
  <2>3. \A k \in DOMAIN sr, j \in DOMAIN s : k < j => k \in DOMAIN s
    BY <1>1
  <2> QED BY <2>1, <2>2, <2>3 DEF Earlier
<1>8. ASSUME NEW v, v \in ToSet(r), v \notin ToSet(s)
      PROVE  Earlier(sr, v) = ToSet(s) \cup Earlier(r, v)
  <2>1. ASSUME NEW x \in Earlier(sr, v) PROVE x \in ToSet(s) \cup Earlier(r, v)
    <3>1. PICK k \in DOMAIN sr, j \in DOMAIN sr :
                x = sr[k] /\ k < j /\ sr[j] = v
      BY <2>1 DEF Earlier
    <3>2. CASE k <= Len(s)
      BY <1>1, <3>1, <3>2 DEF ToSet
    <3>3. CASE k > Len(s)
      <4>1. /\ k - Len(s) \in DOMAIN r /\ r[k - Len(s)] = x
            /\ j - Len(s) \in DOMAIN r /\ r[j - Len(s)] = v
            /\ k - Len(s) < j - Len(s)
        BY <1>1, <3>1, <3>3
      <4> QED BY <4>1 DEF Earlier
    <3> QED BY <1>1, <3>2, <3>3
  <2>2. PICK j0 \in DOMAIN r : r[j0] = v
    BY <1>8 DEF ToSet
  <2>3. ASSUME NEW k \in DOMAIN s PROVE s[k] \in Earlier(sr, v)
    <3>1. /\ k \in DOMAIN sr /\ sr[k] = s[k]
          /\ j0 + Len(s) \in DOMAIN sr /\ sr[j0 + Len(s)] = v
          /\ k < j0 + Len(s)
      BY <1>1, <1>2, <2>2
    <3> QED BY <3>1 DEF Earlier
  <2>4. ASSUME NEW x \in Earlier(r, v) PROVE x \in Earlier(sr, v)
    <3>1. PICK k \in DOMAIN r, j \in DOMAIN r : x = r[k] /\ k < j /\ r[j] = v
      BY <2>4 DEF Earlier
    <3>2. /\ k + Len(s) \in DOMAIN sr /\ sr[k + Len(s)] = x
          /\ j + Len(s) \in DOMAIN sr /\ sr[j + Len(s)] = v
          /\ k + Len(s) < j + Len(s)
      BY <1>1, <1>2, <3>1
    <3> QED BY <3>2 DEF Earlier
  <2> QED BY <2>1, <2>3, <2>4 DEF ToSet
<1> QED BY <1>3, <1>4, <1>5, <1>6, <1>7, <1>8 DEF sr

(* A list without repetition splits into two disjoint ones.                *)
LEMMA SplitInjective ==
    ASSUME NEW S, NEW s \in Seq(S), NEW n \in 0 .. Len(s), IsInjective(s)
    PROVE  LET a == SubSeq(s, 1, n)
               b == SubSeq(s, n + 1, Len(s))
           IN  /\ a \in Seq(S) /\ b \in Seq(S) /\ s = a \o b
               /\ IsInjective(a) /\ IsInjective(b)
               /\ ToSet(a) \cap ToSet(b) = {}
<1> DEFINE a == SubSeq(s, 1, n)
           b == SubSeq(s, n + 1, Len(s))
<1>1. /\ a \in Seq(S) /\ b \in Seq(S)
      /\ Len(a) = n /\ Len(b) = Len(s) - n
      /\ \A i \in 1 .. n : a[i] = s[i]
      /\ \A i \in 1 .. (Len(s) - n) : b[i] = s[n + i]
  OBVIOUS
<1> HIDE DEF a, b
<1>2. s = a \o b
  <2> DEFINE c == a \o b
  <2>1. /\ c \in Seq(S) /\ Len(c) = Len(s)
        /\ \A i \in 1 .. Len(a) : c[i] = a[i]
        /\ \A i \in (Len(a) + 1) .. Len(s) : c[i] = b[i - Len(a)]
    BY <1>1
  <2> HIDE DEF c
  <2>2. \A i \in 1 .. Len(s) : c[i] = s[i]
    <3> TAKE i \in 1 .. Len(s)
    <3>1. CASE i <= n
      BY <1>1, <2>1, <3>1
    <3>2. CASE i > n
      <4>1. i - n \in 1 .. (Len(s) - n) /\ n + (i - n) = i
        BY <3>2
      <4> QED BY <1>1, <2>1, <3>2, <4>1
    <3> QED BY <3>1, <3>2
  <2>3. s = c
    BY <2>1, <2>2
  <2> QED BY <2>3 DEF c
<1>3. \A i \in DOMAIN a : i \in DOMAIN s /\ a[i] = s[i] /\ i <= n
  BY <1>1
<1>4. \A i \in DOMAIN b : n + i \in DOMAIN s /\ b[i] = s[n + i] /\ i > 0
  BY <1>1
<1>5. IsInjective(a)
  BY <1>3 DEF IsInjective
<1>6. IsInjective(b)
  <2> SUFFICES ASSUME NEW i \in DOMAIN b, NEW j \in DOMAIN b, b[i] = b[j]
               PROVE  i = j
    BY DEF IsInjective
  <2>1. n + i = n + j
    BY <1>4 DEF IsInjective
  <2> QED BY <1>1, <2>1
<1>7. ToSet(a) \cap ToSet(b) = {}
  <2> SUFFICES ASSUME NEW i \in DOMAIN a, NEW j \in DOMAIN b, a[i] = b[j]
               PROVE  FALSE
    BY DEF ToSet
  <2>1. i = n + j
    BY <1>3, <1>4 DEF IsInjective
  <2> QED BY <1>1, <1>3, <1>4, <2>1
<1> QED BY <1>1, <1>2, <1>5, <1>6, <1>7 DEF a, b

(* rpush keeps order and multiplicity.                                     *)
LEMMA AppendOrder ==
    ASSUME NEW S, NEW s \in Seq(S), NEW e \in S, e \notin ToSet(s)
    PROVE  /\ IsInjective(s) => IsInjective(Append(s, e))
           /\ \A v : v \in ToSet(s) => Earlier(Append(s, e), v) = Earlier(s, v)
           /\ Earlier(Append(s, e), e) = ToSet(s)
<1>1. Append(s, e) = s \o <<e>> /\ <<e>> \in Seq(S)
  OBVIOUS
<1>2. ToSet(<<e>>) = {e} /\ IsInjective(<<e>>) /\ Earlier(<<e>>, e) = {}
  BY DEF ToSet, IsInjective, Earlier
<1> DEFINE r == <<e>>
<1>3. /\ IsInjective(s) /\ IsInjective(r) /\ ToSet(s) \cap ToSet(r) = {}
            => IsInjective(s \o r)
      /\ \A v : v \notin ToSet(r) => Earlier(s \o r, v) = Earlier(s, v)
      /\ \A v : v \in ToSet(r) \ ToSet(s) =>
            Earlier(s \o r, v) = ToSet(s) \cup Earlier(r, v)
  <2>1. r \in Seq(S)
    BY <1>1
  <2> HIDE DEF r
  <2> QED BY <2>1, ConcatElements
<1>4. /\ Append(s, e) = s \o r /\ ToSet(r) = {e} /\ IsInjective(r)
      /\ Earlier(r, e) = {}
  BY <1>1, <1>2
<1> HIDE DEF r
<1> QED BY <1>3, <1>4

LEMMA ElementsTyped ==
    ASSUME NEW S, NEW s \in Seq(S)
    PROVE  ToSet(s) \subseteq S
BY DEF ToSet

LEMMA EmptyElements == ToSet(<<>>) = {}
BY DEF ToSet

-----------------------------------------------------------------------------
LEMMA InitIInv == Init => IInv
<1> SUFFICES ASSUME Init PROVE IInv
  OBVIOUS
<1>1. /\ <<>> \in Seq(Uploads) /\ 0 \in 0 .. MaxRetries
      /\ "none" \in TaskStates /\ "none" \notin InLock
  BY LimitAssumption DEF TaskStates, InLock
<1>2. TypeOK
  BY <1>1 DEF Init, TypeOK
<1>3. QueueInv /\ UploadLockInv
  BY <1>1, EmptyElements DEF Init, QueueInv, UploadLockInv
<1> QED BY <1>2, <1>3 DEF IInv

(* task.retry counts up to its limit and moves the task.                   *)
LEMMA RetryTyped ==
    ASSUME TypeOK, NEW t \in Uploads, NEW s \in TaskStates, Retry(t, s)
    PROVE  /\ task' \in [Uploads -> TaskStates]
           /\ retries' \in [Uploads -> 0 .. MaxRetries]
<1>1. CASE retries[t] < MaxRetries
  <2>1. retries[t] + 1 \in 0 .. MaxRetries
    BY <1>1, LimitAssumption DEF TypeOK
  <2> QED BY <1>1, <2>1 DEF TypeOK, Retry, Goto
<1>2. CASE ~(retries[t] < MaxRetries)
  BY <1>2 DEF TypeOK, Retry, Goto, TaskStates
<1> QED BY <1>1, <1>2

(* Type correctness: one step per action, the list operations by the       *)
(* lemmas above.                                                           *)
LEMMA TypeStep == TypeOK /\ [Next]_vars => TypeOK'
<1> SUFFICES ASSUME TypeOK, [Next]_vars PROVE TypeOK'
  OBVIOUS
<1> USE NoUploadAssumption, LimitAssumption, DebounceAssumption, PopAssumption
<1> USE DEF TypeOK, TaskStates, Goto, InLock
<1>1. ASSUME NEW t \in Uploads, Push(t) PROVE TypeOK'
  BY <1>1, AppendElements DEF Push
<1>2. ASSUME NEW t \in Uploads, SendTask(t) PROVE TypeOK'
  BY <1>2 DEF SendTask
<1>3. ASSUME NEW t \in Uploads, ApiCrash(t) PROVE TypeOK'
  BY <1>3 DEF ApiCrash
<1>4. ASSUME NEW t \in Uploads, Deliver(t) PROVE TypeOK'
  BY <1>4 DEF Deliver
<1>5. ASSUME NEW t \in Uploads, CheckPending(t) PROVE TypeOK'
  BY <1>5 DEF CheckPending
<1>6. ASSUME NEW t \in Uploads, AcquireUploadLock(t) PROVE TypeOK'
  BY <1>6 DEF AcquireUploadLock
<1>7. ASSUME NEW t \in Uploads, RecheckPending(t) PROVE TypeOK'
  BY <1>7 DEF RecheckPending
<1>8. ASSUME NEW t \in Uploads, InitializeReport(t) PROVE TypeOK'
  BY <1>8 DEF InitializeReport
<1>9. ASSUME NEW t \in Uploads, DrainEnds(t) PROVE TypeOK'
  BY <1>9 DEF DrainEnds
<1>10. ASSUME NEW t \in Uploads, UploadLockExpires(t) PROVE TypeOK'
  BY <1>10 DEF UploadLockExpires
<1>11. ASSUME NEW t \in Uploads, CheckProcessing(t) PROVE TypeOK'
  <2>1. /\ task' \in [Uploads -> TaskStates]
        /\ retries' \in [Uploads -> 0 .. MaxRetries]
    BY <1>11, RetryTyped DEF CheckProcessing
  <2> QED BY <1>11, <2>1 DEF CheckProcessing
<1>12. ASSUME NEW t \in Uploads, CheckDebounce(t) PROVE TypeOK'
  <2>1. /\ task' \in [Uploads -> TaskStates]
        /\ retries' \in [Uploads -> 0 .. MaxRetries]
    BY <1>12, RetryTyped DEF CheckDebounce
  <2> QED BY <1>12, <2>1 DEF CheckDebounce
<1>13. ASSUME NEW t \in Uploads, UploadLockTimeout(t) PROVE TypeOK'
  <2>1. /\ task' \in [Uploads -> TaskStates]
        /\ retries' \in [Uploads -> 0 .. MaxRetries]
    BY <1>13, RetryTyped DEF UploadLockTimeout
  <2> QED BY <1>13, <2>1 DEF UploadLockTimeout
<1>14. ASSUME NEW t \in Uploads, NotReady(t) PROVE TypeOK'
  <2>1. /\ task' \in [Uploads -> TaskStates]
        /\ retries' \in [Uploads -> 0 .. MaxRetries]
    BY <1>14, RetryTyped DEF NotReady
  <2> QED BY <1>14, <2>1 DEF NotReady
<1>15. ASSUME NEW t \in Uploads, Drain(t) PROVE TypeOK'
  <2> DEFINE k == IF Len(queue) < PopCount THEN Len(queue) ELSE PopCount
  <2>1. k \in 0 .. Len(queue)
    OBVIOUS
  <2>2. /\ SubSeq(queue, 1, k) \in Seq(Uploads)
        /\ SubSeq(queue, k + 1, Len(queue)) \in Seq(Uploads)
    BY <2>1, SplitElements
  <2>3. taken[t] \o SubSeq(queue, 1, k) \in Seq(Uploads)
    BY <2>2
  <2> QED BY <1>15, <2>2, <2>3 DEF Drain
<1>16. ASSUME NEW t \in Uploads, ScheduleTask(t) PROVE TypeOK'
  <2>1. scheduled \o taken[t] \in Seq(Uploads)
    OBVIOUS
  <2> QED BY <1>16, <2>1 DEF ScheduleTask
<1>17. ASSUME NEW t \in Uploads, Abort(t) PROVE TypeOK'
  <2>1. /\ task' \in [Uploads -> TaskStates]
        /\ retries' \in [Uploads -> 0 .. MaxRetries]
    BY <1>17, RetryTyped DEF Abort
  <2>2. taken' \in [Uploads -> Seq(Uploads)]
    BY <1>17 DEF Abort, DropTaken
  <2>3. lost' \subseteq Uploads
    BY <1>17, ElementsTyped DEF Abort, DropTaken
  <2> QED BY <1>17, <2>1, <2>2, <2>3 DEF Abort
<1>18. ASSUME NEW t \in Uploads, TaskError(t) PROVE TypeOK'
  BY <1>18, ElementsTyped DEF TaskError, DropTaken
<1>19. ASSUME NEW t \in Uploads, TaskKilled(t) PROVE TypeOK'
  BY <1>19, ElementsTyped DEF TaskKilled, DropTaken
<1>20. CASE LatestAges
  BY <1>20 DEF LatestAges
<1>21. CASE ReportLockToggles
  BY <1>21 DEF ReportLockToggles
<1>22. CASE QueueExpires
  <2>1. lost' = lost \cup ToSet(queue) /\ queue' = <<>>
    BY <1>22 DEF QueueExpires
  <2>2. lost' \subseteq Uploads
    BY <2>1, ElementsTyped
  <2> QED BY <1>22, <2>2 DEF QueueExpires
<1>23. CASE UNCHANGED vars
  BY <1>23 DEF vars
<1> QED
  BY <1>1, <1>2, <1>3, <1>4, <1>5, <1>6, <1>7, <1>8, <1>9,
       <1>10, <1>11, <1>12, <1>13, <1>14, <1>15, <1>16, <1>17,
       <1>18, <1>19, <1>20, <1>21, <1>22, <1>23
  DEF Next, TaskStep, TaskFault

(* The list and the lock.  Tasks become "done" or "drained" only when the  *)
(* list is empty or when they leave the state "drained"; only Push extends *)
(* the list, by an upload whose task it moves out of "none".               *)
LEMMA QueueStep == IInv /\ [Next]_vars => (QueueInv /\ UploadLockInv)'
<1> SUFFICES ASSUME IInv, [Next]_vars PROVE (QueueInv /\ UploadLockInv)'
  OBVIOUS
<1> USE NoUploadAssumption
<1> USE DEF IInv, TypeOK, QueueInv, UploadLockInv, InLock, Goto
<1>1. ASSUME NEW t \in Uploads, Push(t)
      PROVE  (QueueInv /\ UploadLockInv)'
  <2>1. queue \in Seq(Uploads) /\ queue' = Append(queue, t)
    BY <1>1 DEF Push
  <2>2. ToSet(queue') = ToSet(queue) \cup {t}
    BY <2>1, AppendElements
  <2>3. ToSet(queue) \subseteq Uploads
    BY ElementsTyped
  <2> QED BY <1>1, <2>2, <2>3 DEF Push
<1>2. ASSUME NEW t \in Uploads, SendTask(t)
      PROVE  (QueueInv /\ UploadLockInv)'
  BY <1>2, ElementsTyped, EmptyElements DEF SendTask
<1>3. ASSUME NEW t \in Uploads, ApiCrash(t)
      PROVE  (QueueInv /\ UploadLockInv)'
  BY <1>3, ElementsTyped, EmptyElements DEF ApiCrash
<1>4. ASSUME NEW t \in Uploads, Deliver(t)
      PROVE  (QueueInv /\ UploadLockInv)'
  BY <1>4, ElementsTyped, EmptyElements DEF Deliver
<1>5. ASSUME NEW t \in Uploads, CheckPending(t)
      PROVE  (QueueInv /\ UploadLockInv)'
  BY <1>5, ElementsTyped, EmptyElements DEF CheckPending
<1>6. ASSUME NEW t \in Uploads, AcquireUploadLock(t)
      PROVE  (QueueInv /\ UploadLockInv)'
  BY <1>6, ElementsTyped, EmptyElements DEF AcquireUploadLock
<1>7. ASSUME NEW t \in Uploads, RecheckPending(t)
      PROVE  (QueueInv /\ UploadLockInv)'
  BY <1>7, ElementsTyped, EmptyElements DEF RecheckPending
<1>8. ASSUME NEW t \in Uploads, InitializeReport(t)
      PROVE  (QueueInv /\ UploadLockInv)'
  BY <1>8, ElementsTyped, EmptyElements DEF InitializeReport
<1>9. ASSUME NEW t \in Uploads, DrainEnds(t)
      PROVE  (QueueInv /\ UploadLockInv)'
  BY <1>9, ElementsTyped, EmptyElements DEF DrainEnds
<1>10. ASSUME NEW t \in Uploads, UploadLockExpires(t)
      PROVE  (QueueInv /\ UploadLockInv)'
  BY <1>10, ElementsTyped, EmptyElements DEF UploadLockExpires
<1>11. ASSUME NEW t \in Uploads, CheckProcessing(t)
      PROVE  (QueueInv /\ UploadLockInv)'
  BY <1>11, ElementsTyped, EmptyElements DEF CheckProcessing, Retry
<1>12. ASSUME NEW t \in Uploads, CheckDebounce(t)
      PROVE  (QueueInv /\ UploadLockInv)'
  BY <1>12, ElementsTyped, EmptyElements DEF CheckDebounce, Retry
<1>13. ASSUME NEW t \in Uploads, UploadLockTimeout(t)
      PROVE  (QueueInv /\ UploadLockInv)'
  <2>1. /\ task[t] = "locking" /\ UNCHANGED <<queue, uploadLock>>
        /\ \/ queue = <<>> /\ task' = [task EXCEPT ![t] = "done"]
           \/ task' = [task EXCEPT ![t] = "gaveup"]
           \/ task' = [task EXCEPT ![t] = "queued"]
    BY <1>13 DEF UploadLockTimeout, Retry
  <2> QED BY <2>1, ElementsTyped, EmptyElements
<1>14. ASSUME NEW t \in Uploads, NotReady(t)
      PROVE  (QueueInv /\ UploadLockInv)'
  <2>1. /\ task[t] = "initializing" /\ UNCHANGED queue
        /\ uploadLock' = NoUpload
        /\ \/ task' = [task EXCEPT ![t] = "gaveup"]
           \/ task' = [task EXCEPT ![t] = "queued"]
    BY <1>14 DEF NotReady, Retry
  <2>2. QueueInv'
    BY <2>1, ElementsTyped
  <2>3. UploadLockInv'
    BY <2>1
  <2> QED BY <2>2, <2>3
<1>15. ASSUME NEW t \in Uploads, Drain(t)
      PROVE  (QueueInv /\ UploadLockInv)'
  <2> DEFINE k == IF Len(queue) < PopCount THEN Len(queue) ELSE PopCount
  <2>1. k \in 0 .. Len(queue)
    BY PopAssumption
  <2>2. ToSet(SubSeq(queue, k + 1, Len(queue))) \subseteq ToSet(queue)
    BY <2>1, SplitElements
  <2>3. queue' = SubSeq(queue, k + 1, Len(queue)) /\ UNCHANGED <<task, uploadLock>>
    BY <1>15 DEF Drain
  <2> HIDE DEF k
  <2>4. ToSet(queue') \subseteq ToSet(queue)
    BY <2>2, <2>3
  <2> QED BY <2>3, <2>4
<1>16. ASSUME NEW t \in Uploads, ScheduleTask(t)
      PROVE  (QueueInv /\ UploadLockInv)'
  BY <1>16, ElementsTyped, EmptyElements DEF ScheduleTask
<1>17. ASSUME NEW t \in Uploads, Abort(t)
      PROVE  (QueueInv /\ UploadLockInv)'
  <2>1. /\ task[t] \in InLock /\ UNCHANGED queue
        /\ uploadLock' = NoUpload
        /\ \/ task' = [task EXCEPT ![t] = "gaveup"]
           \/ task' = [task EXCEPT ![t] = "queued"]
    BY <1>17 DEF Abort, Retry
  <2>2. QueueInv'
    BY <2>1, ElementsTyped
  <2>3. UploadLockInv'
    BY <2>1
  <2> QED BY <2>2, <2>3
<1>18. ASSUME NEW t \in Uploads, TaskError(t)
      PROVE  (QueueInv /\ UploadLockInv)'
  BY <1>18, ElementsTyped, EmptyElements DEF TaskError
<1>19. ASSUME NEW t \in Uploads, TaskKilled(t)
      PROVE  (QueueInv /\ UploadLockInv)'
  BY <1>19, ElementsTyped, EmptyElements DEF TaskKilled
<1>20. CASE LatestAges
  BY <1>20 DEF LatestAges
<1>21. CASE ReportLockToggles
  BY <1>21 DEF ReportLockToggles
<1>22. CASE QueueExpires
  BY <1>22, EmptyElements DEF QueueExpires
<1>23. CASE UNCHANGED vars
  BY <1>23 DEF vars
<1> QED
  BY <1>1, <1>2, <1>3, <1>4, <1>5, <1>6, <1>7, <1>8, <1>9,
       <1>10, <1>11, <1>12, <1>13, <1>14, <1>15, <1>16, <1>17,
       <1>18, <1>19, <1>20, <1>21, <1>22, <1>23
  DEF Next, TaskStep, TaskFault

-----------------------------------------------------------------------------
(* Where the uploads are, and in which order.                              *)

LEMMA InitPInv == Init => PInv
<1> SUFFICES ASSUME Init PROVE PInv
  OBVIOUS
<1>1. /\ queue = <<>> /\ arrivals = <<>> /\ scheduled = <<>> /\ lost = {}
      /\ \A t \in Uploads : taken[t] = <<>> /\ task[t] = "none"
  BY DEF Init
<1>2. IsInjective(<<>>)
  BY DEF IsInjective
<1>3. Held = {}
  BY <1>1, EmptyElements DEF Held
<1>4. ArrivalInv
  BY <1>1, <1>2, EmptyElements DEF ArrivalInv
<1>5. EachUploadOnce
  BY <1>1, <1>2, <1>3, EmptyElements DEF EachUploadOnce, Held
<1>6. PipelineInv
  BY <1>1, EmptyElements DEF PipelineInv, NoOvertaking
<1> QED BY <1>4, <1>5, <1>6 DEF PInv

(* A step that moves no upload, and takes no task that holds some out of   *)
(* the loop.                                                               *)
LEMMA StayingPut ==
    ASSUME IInv, PInv, UNCHANGED <<queue, arrivals, taken, scheduled, lost>>,
           \A u \in Uploads : task'[u] = "none" <=> task[u] = "none",
           \A t \in Uploads : taken[t] # <<>> =>
                task'[t] \in {"draining", "drained"}
    PROVE  PInv'
<1>1. ArrivalInv'
  BY DEF PInv, ArrivalInv
<1>2. EachUploadOnce'
  BY <1>1 DEF PInv, ArrivalInv, EachUploadOnce, InLock
<1>3. PipelineInv'
  BY DEF PInv, PipelineInv, NoOvertaking, Held
<1> QED BY <1>1, <1>2, <1>3 DEF PInv

(* Inside the lock, nobody else holds uploads.                             *)
LEMMA OneHolder ==
    ASSUME IInv, PInv, NEW t \in Uploads, task[t] \in InLock
    PROVE  /\ \A o \in Uploads \ {t} : taken[o] = <<>>
           /\ Held = ToSet(taken[t])
<1>1. \A o \in Uploads \ {t} : taken[o] = <<>>
  <2> SUFFICES ASSUME NEW o \in Uploads \ {t}, taken[o] # <<>> PROVE FALSE
    OBVIOUS
  <2>1. task[o] \in InLock
    BY DEF PInv, ArrivalInv, InLock
  <2> QED BY <2>1 DEF IInv, UploadLockInv
<1> QED BY <1>1, EmptyElements DEF Held

(* A run that ends by force loses what it has popped.                      *)
LEMMA Dropping ==
    ASSUME IInv, PInv, NEW t \in Uploads, DropTaken(t),
           UNCHANGED <<queue, arrivals, scheduled>>,
           task[t] \in InLock \cup {"pending", "idle", "locking"},
           NEW x \in TaskStates \ {"none"}, task' = [task EXCEPT ![t] = x]
    PROVE  PInv'
<1> USE DEF TypeOK
<1>1. /\ lost' = lost \cup ToSet(taken[t])
      /\ taken' = [taken EXCEPT ![t] = <<>>]
      /\ taken \in [Uploads -> Seq(Uploads)] /\ task \in [Uploads -> TaskStates]
      /\ task[t] # "none"
  BY DEF DropTaken, IInv, InLock
<1>2. \A o \in Uploads : taken'[o] = IF o = t THEN <<>> ELSE taken[o]
  BY <1>1
<1>3. \A o \in Uploads \ {t} : task'[o] = task[o] /\ taken'[o] = taken[o]
  BY <1>1
<1>4. ArrivalInv'
  BY <1>1, <1>2 DEF PInv, ArrivalInv
<1>5. /\ ToSet(taken[t]) \subseteq Held
      /\ Held' = Held \ ToSet(taken[t])
  BY <1>2, EmptyElements DEF PInv, EachUploadOnce, Held
<1>6. /\ ToSet(queue) \cap (Held \cup ToSet(scheduled) \cup lost) = {}
      /\ Held \cap (ToSet(scheduled) \cup lost) = {}
      /\ ToSet(scheduled) \cap lost = {}
      /\ ToSet(arrivals) = ToSet(queue) \cup Held \cup ToSet(scheduled) \cup lost
  BY DEF PInv, EachUploadOnce, Held
<1>7. EachUploadOnce'
  <2>1. /\ ToSet(queue) \cap (Held' \cup ToSet(scheduled) \cup lost') = {}
        /\ Held' \cap (ToSet(scheduled) \cup lost') = {}
        /\ ToSet(scheduled) \cap lost' = {}
        /\ ToSet(arrivals) = ToSet(queue) \cup Held' \cup ToSet(scheduled) \cup lost'
    BY <1>1, <1>5, <1>6
  <2>2. \A o \in Uploads :
            /\ IsInjective(taken'[o])
            /\ taken'[o] # <<>> => task'[o] \in InLock
            /\ \A r \in Uploads \ {o} : ToSet(taken'[o]) \cap ToSet(taken'[r]) = {}
    <3>1. IsInjective(<<>>)
      BY DEF IsInjective
    <3> QED BY <1>2, <1>3, <3>1, EmptyElements DEF PInv, EachUploadOnce
  <2> QED BY <2>1, <2>2 DEF PInv, EachUploadOnce, Held
<1>8. PipelineInv'
  BY <1>1, <1>2, <1>5, EmptyElements DEF PInv, PipelineInv, NoOvertaking
<1> QED BY <1>4, <1>7, <1>8 DEF PInv

(* An upload arrives behind all others.                                    *)
LEMMA PushPlaces ==
    ASSUME IInv, PInv, NEW u \in Uploads, Push(u)
    PROVE  PInv'
<1>1. /\ queue' = Append(queue, u) /\ arrivals' = Append(arrivals, u)
      /\ task[u] = "none" /\ task' = [task EXCEPT ![u] = "unsent"]
      /\ UNCHANGED <<taken, scheduled, lost>>
      /\ queue \in Seq(Uploads) /\ arrivals \in Seq(Uploads)
      /\ task \in [Uploads -> TaskStates]
  BY DEF Push, IInv, TypeOK
<1>2. u \notin ToSet(arrivals) /\ Held' = Held
  BY <1>1 DEF PInv, ArrivalInv, Held
<1>3. /\ ToSet(queue) \cap (Held \cup ToSet(scheduled) \cup lost) = {}
      /\ Held \cap (ToSet(scheduled) \cup lost) = {}
      /\ ToSet(scheduled) \cap lost = {}
      /\ ToSet(arrivals) = ToSet(queue) \cup Held \cup ToSet(scheduled) \cup lost
  BY DEF PInv, EachUploadOnce, Held
<1>4. u \notin ToSet(queue) \cup Held \cup ToSet(scheduled) \cup lost
  BY <1>2, <1>3
<1>5. /\ ToSet(queue') = ToSet(queue) \cup {u}
      /\ ToSet(arrivals') = ToSet(arrivals) \cup {u}
      /\ IsInjective(queue') /\ IsInjective(arrivals')
  BY <1>1, <1>2, <1>4, AppendElements, AppendOrder
  DEF PInv, ArrivalInv, EachUploadOnce
<1>6. /\ \A v \in ToSet(queue) : Earlier(queue', v) = Earlier(queue, v)
      /\ \A v \in ToSet(arrivals) : Earlier(arrivals', v) = Earlier(arrivals, v)
      /\ Earlier(queue', u) = ToSet(queue)
      /\ Earlier(arrivals', u) = ToSet(arrivals)
  BY <1>1, <1>2, <1>4, AppendOrder
<1>7. ArrivalInv'
  BY <1>1, <1>5 DEF PInv, ArrivalInv
<1>8. EachUploadOnce'
  <2>1. /\ ToSet(queue') \cap (Held \cup ToSet(scheduled) \cup lost) = {}
        /\ ToSet(arrivals') = ToSet(queue') \cup Held \cup ToSet(scheduled) \cup lost
    BY <1>3, <1>4, <1>5
  <2>2. \A t \in Uploads : taken[t] # <<>> => task'[t] \in InLock
    BY <1>1, <1>7 DEF ArrivalInv, InLock
  <2>3. UNCHANGED <<taken, scheduled, lost>> /\ IsInjective(queue')
    BY <1>1, <1>5
  <2>4. /\ IsInjective(scheduled)
        /\ \A t \in Uploads :
            /\ IsInjective(taken[t])
            /\ \A o \in Uploads \ {t} : ToSet(taken[t]) \cap ToSet(taken[o]) = {}
    BY DEF PInv, EachUploadOnce
  <2> QED BY <1>3, <2>1, <2>2, <2>3, <2>4 DEF EachUploadOnce, Held
<1>9. PipelineInv'
  <2>1. NoOvertaking'
    BY <1>1, <1>3, <1>6 DEF PInv, PipelineInv, NoOvertaking
  <2>2. \A t \in Uploads : ToSet(taken[t]) \subseteq ToSet(arrivals)
    BY <1>3 DEF Held
  <2>3. \A t \in Uploads : \A v \in ToSet(taken'[t]) :
            Earlier(arrivals', v) \subseteq lost' \cup ToSet(scheduled')
                                             \cup Earlier(taken'[t], v)
    BY <1>1, <1>6, <2>2 DEF PInv, PipelineInv
  <2>4. \A v \in ToSet(queue') :
            Earlier(arrivals', v) \subseteq lost \cup ToSet(scheduled) \cup Held
                                             \cup Earlier(queue', v)
    BY <1>3, <1>5, <1>6 DEF PInv, PipelineInv
  <2> QED BY <1>1, <1>2, <2>1, <2>3, <2>4 DEF PipelineInv
<1> QED BY <1>7, <1>8, <1>9 DEF PInv

(* lpop moves the front of the list behind what the run already holds.     *)
LEMMA DrainPlaces ==
    ASSUME IInv, PInv, NEW t \in Uploads, Drain(t)
    PROVE  PInv'
<1> DEFINE k == IF Len(queue) < PopCount THEN Len(queue) ELSE PopCount
           a == SubSeq(queue, 1, k)
           b == SubSeq(queue, k + 1, Len(queue))
           h == taken[t]
<1>1. /\ queue \in Seq(Uploads) /\ k \in 0 .. Len(queue)
      /\ IsInjective(queue) /\ h \in Seq(Uploads) /\ IsInjective(h)
  BY PopAssumption DEF IInv, TypeOK, PInv, EachUploadOnce
<1>2. /\ queue' = b /\ taken' = [taken EXCEPT ![t] = h \o a]
      /\ task[t] = "draining" /\ UNCHANGED <<arrivals, task, scheduled, lost>>
      /\ taken \in [Uploads -> Seq(Uploads)]
  BY DEF Drain, IInv, TypeOK
<1> HIDE DEF k
<1>3. /\ a \in Seq(Uploads) /\ b \in Seq(Uploads) /\ queue = a \o b
      /\ IsInjective(a) /\ IsInjective(b) /\ ToSet(a) \cap ToSet(b) = {}
  BY <1>1, SplitInjective
<1> HIDE DEF a, b, h
<1>4. /\ \A o \in Uploads \ {t} : taken[o] = <<>>
      /\ Held = ToSet(h)
  BY <1>2, OneHolder DEF InLock, h
<1>5. /\ ToSet(queue) \cap (Held \cup ToSet(scheduled) \cup lost) = {}
      /\ Held \cap (ToSet(scheduled) \cup lost) = {}
      /\ ToSet(scheduled) \cap lost = {}
      /\ ToSet(arrivals) = ToSet(queue) \cup Held \cup ToSet(scheduled) \cup lost
  BY DEF PInv, EachUploadOnce, Held
<1>6. /\ ToSet(queue) = ToSet(a) \cup ToSet(b)
      /\ \A v \in ToSet(a) : Earlier(queue, v) = Earlier(a, v)
      /\ \A v \in ToSet(b) : Earlier(queue, v) = ToSet(a) \cup Earlier(b, v)
  BY <1>3, ConcatElements
<1>7. /\ ToSet(h \o a) = ToSet(h) \cup ToSet(a) /\ IsInjective(h \o a)
      /\ \A v \in ToSet(h) : Earlier(h \o a, v) = Earlier(h, v)
      /\ \A v \in ToSet(a) : Earlier(h \o a, v) = ToSet(h) \cup Earlier(a, v)
  <2>1. ToSet(h) \cap ToSet(a) = {}
    BY <1>4, <1>5, <1>6
  <2> QED BY <1>1, <1>3, <2>1, ConcatElements
<1>8. \A o \in Uploads : taken'[o] = IF o = t THEN h \o a ELSE <<>>
  BY <1>2, <1>4
<1>9. Held' = ToSet(h) \cup ToSet(a)
  BY <1>7, <1>8, EmptyElements DEF Held
<1>10. ArrivalInv'
  BY <1>2, <1>8 DEF PInv, ArrivalInv
<1>11. EachUploadOnce'
  <2>1. /\ ToSet(queue') \cap (Held' \cup ToSet(scheduled) \cup lost) = {}
        /\ Held' \cap (ToSet(scheduled) \cup lost) = {}
        /\ ToSet(arrivals) = ToSet(queue') \cup Held' \cup ToSet(scheduled) \cup lost
    BY <1>2, <1>3, <1>4, <1>5, <1>6, <1>9
  <2>2. \A o \in Uploads :
            /\ IsInjective(taken'[o])
            /\ taken'[o] # <<>> => task'[o] \in InLock
            /\ \A r \in Uploads \ {o} : ToSet(taken'[o]) \cap ToSet(taken'[r]) = {}
    <3>1. IsInjective(<<>>)
      BY DEF IsInjective
    <3> QED BY <1>2, <1>7, <1>8, <3>1, EmptyElements DEF InLock
  <2> QED BY <1>2, <1>3, <1>5, <2>1, <2>2 DEF PInv, EachUploadOnce, Held
<1>12. PipelineInv'
  <2>1. NoOvertaking'
    BY <1>2 DEF PInv, PipelineInv, NoOvertaking
  <2>2. /\ \A v \in ToSet(h) :
            Earlier(arrivals, v) \subseteq lost \cup ToSet(scheduled) \cup Earlier(h, v)
        /\ \A v \in ToSet(queue) :
            Earlier(arrivals, v) \subseteq lost \cup ToSet(scheduled) \cup ToSet(h)
                                             \cup Earlier(queue, v)
    BY <1>4 DEF PInv, PipelineInv, h
  <2>3. \A v \in ToSet(h \o a) :
            Earlier(arrivals, v) \subseteq lost \cup ToSet(scheduled)
                                             \cup Earlier(h \o a, v)
    BY <1>6, <1>7, <2>2
  <2>4. \A o \in Uploads : \A v \in ToSet(taken'[o]) :
            Earlier(arrivals', v) \subseteq lost' \cup ToSet(scheduled')
                                             \cup Earlier(taken'[o], v)
    BY <1>2, <1>8, <2>3, EmptyElements
  <2>5. \A v \in ToSet(b) :
            Earlier(arrivals, v) \subseteq lost \cup ToSet(scheduled) \cup Held'
                                             \cup Earlier(b, v)
    BY <1>6, <1>9, <2>2
  <2> QED BY <1>2, <2>1, <2>4, <2>5 DEF PipelineInv
<1> QED BY <1>10, <1>11, <1>12 DEF PInv

(* schedule_task hands over what the run holds, behind what others have    *)
(* scheduled.                                                              *)
LEMMA SchedulePlaces ==
    ASSUME IInv, PInv, NEW t \in Uploads, ScheduleTask(t)
    PROVE  PInv'
<1> DEFINE h == taken[t]
<1>1. /\ scheduled \in Seq(Uploads) /\ h \in Seq(Uploads)
      /\ IsInjective(scheduled) /\ IsInjective(h)
  BY DEF IInv, TypeOK, PInv, EachUploadOnce
<1>2. /\ scheduled' = scheduled \o h /\ taken' = [taken EXCEPT ![t] = <<>>]
      /\ task[t] = "drained" /\ task' = [task EXCEPT ![t] = "done"]
      /\ UNCHANGED <<arrivals, queue, lost>>
      /\ taken \in [Uploads -> Seq(Uploads)] /\ task \in [Uploads -> TaskStates]
  BY DEF ScheduleTask, Goto, IInv, TypeOK
<1>3. /\ \A o \in Uploads \ {t} : taken[o] = <<>>
      /\ Held = ToSet(h)
  BY <1>2, OneHolder DEF InLock
<1> HIDE DEF h
<1>4. /\ ToSet(queue) \cap (Held \cup ToSet(scheduled) \cup lost) = {}
      /\ Held \cap (ToSet(scheduled) \cup lost) = {}
      /\ ToSet(scheduled) \cap lost = {}
      /\ ToSet(arrivals) = ToSet(queue) \cup Held \cup ToSet(scheduled) \cup lost
  BY DEF PInv, EachUploadOnce, Held
<1>5. /\ ToSet(scheduled') = ToSet(scheduled) \cup ToSet(h)
      /\ IsInjective(scheduled')
      /\ \A v \in ToSet(scheduled) : Earlier(scheduled', v) = Earlier(scheduled, v)
      /\ \A v \in ToSet(h) :
            Earlier(scheduled', v) = ToSet(scheduled) \cup Earlier(h, v)
  BY <1>1, <1>2, <1>3, <1>4, ConcatElements
<1>6. \A o \in Uploads : taken'[o] = <<>>
  BY <1>2, <1>3
<1>7. Held' = {}
  BY <1>6, EmptyElements DEF Held
<1>8. ArrivalInv'
  BY <1>2, <1>6 DEF PInv, ArrivalInv
<1>9. EachUploadOnce'
  <2>1. /\ ToSet(queue) \cap (Held' \cup ToSet(scheduled') \cup lost) = {}
        /\ ToSet(scheduled') \cap lost = {}
        /\ ToSet(arrivals) = ToSet(queue) \cup Held' \cup ToSet(scheduled') \cup lost
    BY <1>3, <1>4, <1>5, <1>7
  <2>2. IsInjective(<<>>)
    BY DEF IsInjective
  <2> QED BY <1>2, <1>5, <1>6, <1>7, <2>1, <2>2, EmptyElements
          DEF PInv, EachUploadOnce, Held
<1>10. PipelineInv'
  <2>1. NoOvertaking'
    BY <1>2, <1>5 DEF PInv, PipelineInv, NoOvertaking, h
  <2>2. \A v \in ToSet(queue) :
            Earlier(arrivals, v) \subseteq lost \cup ToSet(scheduled') \cup Held'
                                             \cup Earlier(queue, v)
    BY <1>3, <1>5 DEF PInv, PipelineInv
  <2> QED BY <1>2, <1>6, <2>1, <2>2, EmptyElements DEF PipelineInv
<1> QED BY <1>8, <1>9, <1>10 DEF PInv

(* The list is lost as a whole.                                            *)
LEMMA ExpiryPlaces ==
    ASSUME IInv, PInv, QueueExpires
    PROVE  PInv'
<1>1. /\ queue' = <<>> /\ lost' = lost \cup ToSet(queue)
      /\ UNCHANGED <<arrivals, task, taken, scheduled>>
  BY DEF QueueExpires
<1>2. Held' = Held
  BY <1>1 DEF Held
<1>3. ArrivalInv'
  BY <1>1 DEF PInv, ArrivalInv
<1>4. EachUploadOnce'
  <2>1. /\ ToSet(queue) \cap (Held \cup ToSet(scheduled) \cup lost) = {}
        /\ Held \cap (ToSet(scheduled) \cup lost) = {}
        /\ ToSet(scheduled) \cap lost = {}
        /\ ToSet(arrivals) = ToSet(queue) \cup Held \cup ToSet(scheduled) \cup lost
    BY DEF PInv, EachUploadOnce, Held
  <2>2. /\ ToSet(queue') = {} /\ IsInjective(queue')
        /\ Held \cap (ToSet(scheduled) \cup lost') = {}
        /\ ToSet(scheduled) \cap lost' = {}
        /\ ToSet(arrivals) = Held \cup ToSet(scheduled) \cup lost'
    BY <1>1, <2>1, EmptyElements DEF IsInjective
  <2> QED BY <1>1, <2>2 DEF PInv, EachUploadOnce, Held
<1>5. PipelineInv'
  BY <1>1, <1>2, EmptyElements DEF PInv, PipelineInv, NoOvertaking
<1> QED BY <1>3, <1>4, <1>5 DEF PInv

(* One step per action; most of them move no upload.                       *)
LEMMA PlaceStep == IInv /\ PInv /\ [Next]_vars => PInv'
<1> SUFFICES ASSUME IInv, PInv, [Next]_vars PROVE PInv'
  OBVIOUS
<1>0. /\ task \in [Uploads -> TaskStates]
      /\ \A t \in Uploads : taken[t] # <<>> => task[t] \in {"draining", "drained"}
  BY DEF IInv, TypeOK, PInv, ArrivalInv
<1> USE <1>0, StayingPut DEF Goto, TaskStates
<1>1. ASSUME NEW t \in Uploads, SendTask(t) PROVE PInv'
  BY <1>1 DEF SendTask
<1>2. ASSUME NEW t \in Uploads, ApiCrash(t) PROVE PInv'
  BY <1>2 DEF ApiCrash
<1>3. ASSUME NEW t \in Uploads, Deliver(t) PROVE PInv'
  BY <1>3 DEF Deliver
<1>4. ASSUME NEW t \in Uploads, CheckPending(t) PROVE PInv'
  BY <1>4 DEF CheckPending
<1>5. ASSUME NEW t \in Uploads, AcquireUploadLock(t) PROVE PInv'
  BY <1>5 DEF AcquireUploadLock
<1>6. ASSUME NEW t \in Uploads, InitializeReport(t) PROVE PInv'
  BY <1>6 DEF InitializeReport
<1>7. ASSUME NEW t \in Uploads, DrainEnds(t) PROVE PInv'
  BY <1>7 DEF DrainEnds
<1>8. ASSUME NEW t \in Uploads, UploadLockExpires(t) PROVE PInv'
  BY <1>8 DEF UploadLockExpires
<1>9. ASSUME NEW t \in Uploads, RecheckPending(t) PROVE PInv'
  BY <1>9 DEF RecheckPending
<1>10. ASSUME NEW t \in Uploads, CheckProcessing(t) PROVE PInv'
  <2>1. /\ task[t] = "pending" /\ UNCHANGED <<queue, arrivals, taken, scheduled, lost>>
        /\ \E x \in TaskStates \ {"none"} : task' = [task EXCEPT ![t] = x]
    BY <1>10 DEF CheckProcessing, Retry
  <2> QED BY <2>1
<1>11. ASSUME NEW t \in Uploads, CheckDebounce(t) PROVE PInv'
  <2>1. /\ task[t] = "idle" /\ UNCHANGED <<queue, arrivals, taken, scheduled, lost>>
        /\ \E x \in TaskStates \ {"none"} : task' = [task EXCEPT ![t] = x]
    BY <1>11 DEF CheckDebounce, Retry
  <2> QED BY <2>1
<1>12. ASSUME NEW t \in Uploads, UploadLockTimeout(t) PROVE PInv'
  <2>1. /\ task[t] = "locking" /\ UNCHANGED <<queue, arrivals, taken, scheduled, lost>>
        /\ \E x \in TaskStates \ {"none"} : task' = [task EXCEPT ![t] = x]
    BY <1>12 DEF UploadLockTimeout, Retry
  <2> QED BY <2>1
<1>13. ASSUME NEW t \in Uploads, NotReady(t) PROVE PInv'
  <2>1. /\ task[t] = "initializing" /\ UNCHANGED <<queue, arrivals, taken, scheduled, lost>>
        /\ \E x \in TaskStates \ {"none"} : task' = [task EXCEPT ![t] = x]
    BY <1>13 DEF NotReady, Retry
  <2> QED BY <2>1
<1>14. ASSUME NEW t \in Uploads, Abort(t) PROVE PInv'
  <2>1. /\ task[t] \in InLock \cup {"pending", "idle", "locking"} /\ DropTaken(t)
        /\ UNCHANGED <<queue, arrivals, scheduled>>
        /\ \E x \in TaskStates \ {"none"} : task' = [task EXCEPT ![t] = x]
    BY <1>14 DEF Abort, Retry
  <2> QED BY <2>1, Dropping
<1>15. ASSUME NEW t \in Uploads, TaskError(t) PROVE PInv'
  <2>1. /\ task[t] \in InLock \cup {"pending", "idle", "locking"} /\ DropTaken(t)
        /\ UNCHANGED <<queue, arrivals, scheduled>>
        /\ \E x \in TaskStates \ {"none"} : task' = [task EXCEPT ![t] = x]
    BY <1>15 DEF TaskError, Retry
  <2> QED BY <2>1, Dropping
<1>16. ASSUME NEW t \in Uploads, TaskKilled(t) PROVE PInv'
  <2>1. /\ task[t] \in InLock \cup {"pending", "idle", "locking"} /\ DropTaken(t)
        /\ UNCHANGED <<queue, arrivals, scheduled>>
        /\ \E x \in TaskStates \ {"none"} : task' = [task EXCEPT ![t] = x]
    BY <1>16 DEF TaskKilled, Retry
  <2> QED BY <2>1, Dropping
<1>17. ASSUME NEW t \in Uploads, Push(t) PROVE PInv'
  BY <1>17, PushPlaces
<1>18. ASSUME NEW t \in Uploads, Drain(t) PROVE PInv'
  BY <1>18, DrainPlaces
<1>19. ASSUME NEW t \in Uploads, ScheduleTask(t) PROVE PInv'
  BY <1>19, SchedulePlaces
<1>20. CASE LatestAges
  BY <1>20 DEF LatestAges
<1>21. CASE ReportLockToggles
  BY <1>21 DEF ReportLockToggles
<1>22. CASE QueueExpires
  BY <1>22, ExpiryPlaces
<1>23. CASE UNCHANGED vars
  BY <1>23 DEF vars
<1> QED
  BY <1>1, <1>2, <1>3, <1>4, <1>5, <1>6, <1>7, <1>8,
       <1>9, <1>10, <1>11, <1>12, <1>13, <1>14, <1>15, <1>16,
       <1>17, <1>18, <1>19, <1>20, <1>21, <1>22, <1>23
  DEF Next, TaskStep, TaskFault

-----------------------------------------------------------------------------
(* The inductive invariant holds in every reachable state.                 *)
THEOREM IntakeInvariant == Spec => []IInv
<1>1. Init => IInv
  BY InitIInv
<1>2. IInv /\ [Next]_vars => IInv'
  BY TypeStep, QueueStep DEF IInv
<1> QED BY <1>1, <1>2, PTL DEF Spec

(* Types are right, and request.retries never exceeds max_retries, however *)
(* the causes of a retry mix.                                              *)
THEOREM IntakeTypeCorrect == Spec => []TypeOK
<1>1. IInv => TypeOK
  BY DEF IInv
<1> QED BY <1>1, IntakeInvariant, PTL

(* No UploadTask ends normally while its upload is still in the redis list:*)
(* for any number of uploads and tasks and with all faults.                *)
THEOREM NoTaskEndsEarlyHolds == Spec => []NoTaskEndsEarly
<1>1. IInv => NoTaskEndsEarly
  BY DEF IInv, QueueInv, NoTaskEndsEarly
<1> QED BY <1>1, IntakeInvariant, PTL

(* Uploads are where they should be and in order, in every reachable state.*)
THEOREM PlacesInvariant == Spec => [](IInv /\ PInv)
<1>1. Init => IInv /\ PInv
  BY InitIInv, InitPInv
<1>2. (IInv /\ PInv) /\ [Next]_vars => (IInv /\ PInv)'
  BY TypeStep, QueueStep, PlaceStep DEF IInv
<1> QED BY <1>1, <1>2, PTL DEF Spec

(* Each upload that arrived is in one place once, whatever tasks compete   *)
(* for the list and wherever they are cut off.                             *)
THEOREM EachUploadOnceHolds == Spec => []EachUploadOnce
<1>1. PInv => EachUploadOnce
  BY DEF PInv
<1> QED BY <1>1, PlacesInvariant, PTL

(* No task overtakes another one between lpop and schedule_task.           *)
THEOREM NoOvertakingHolds == Spec => []NoOvertaking
<1>1. PInv => NoOvertaking
  BY DEF PInv, PipelineInv
<1> QED BY <1>1, PlacesInvariant, PTL

=============================================================================
