------------------------- MODULE SideEffectQueueProofs -------------------------
(***************************************************************************)
(* What SideEffectQueue guarantees for any number of drainers, keys and    *)
(* items, any lease, backoff and breaker durations, and any handler times. *)
(*                                                                         *)
(* Inv is the inductive invariant.  NothingLost is not inductive by        *)
(* itself: what makes a removal safe is that the drain about to remove the *)
(* row has seen its handler succeed, which is OkayIsExecuted.              *)
(***************************************************************************)
EXTENDS SideEffectQueue, TLAPS

\* A drain that is about to settle a success really ran the current row.
OkayIsExecuted ==
    \A d \in Drainers, i \in 1..enqueued :
      phase[d] = "settle" /\ okay[d] /\ IsCurrent(d, i) => i \in executed

Inv == TypeOK /\ UniqueKeys /\ NothingLost /\ OkayIsExecuted /\ BreakerHasCause

-----------------------------------------------------------------------------
(* Helpers                                                                  *)

\* What is left of a duration never exceeds it.
LEMMA LeftRange ==
    ASSUME NEW n \in Nat, NEW d \in Drainers, age[d] \in Nat
    PROVE  Left(n, d) \in 0..n
BY DEF Left, Larger

\* A second later, no more is left of a duration.
LEMMA LessRange == \A n \in Nat : \A x \in 0..n : Less(x) \in 0..n
BY DEF Less, Larger

\* Every retry is at most MaxBackoff away.
LEMMA BackoffRange ==
    ASSUME NEW n \in Nat
    PROVE  Backoff(n) \in 0..MaxBackoff
<1> DEFINE e == Smaller(MaxExponent, n)
<1>1. e \in 0..MaxExponent
  BY BoundsAssumption DEF Smaller
<1>2. 2^e \in Nat
  BY <1>1, PowerAssumption
<1> HIDE DEF e
<1>3. Smaller(MaxBackoff, 2^e) \in 0..MaxBackoff
  BY <1>2, BoundsAssumption DEF Smaller
<1> QED BY <1>3 DEF Backoff, e

\* Settling a row removes it or puts it back well-typed under the same key;
\* the other rows stay as they are.
LEMMA SettledRowsShape ==
    ASSUME TypeOK, NEW d \in Drainers, NEW i \in 1..enqueued
    PROVE  /\ DOMAIN SettledRows(d, i) \subseteq Queued
           /\ Queued \ DOMAIN SettledRows(d, i) \subseteq {i}
           /\ ~(okay[d] /\ Holds(d, i)) => DOMAIN SettledRows(d, i) = Queued
           /\ SettledRows(d, i) \in [DOMAIN SettledRows(d, i) -> Row]
           /\ \A j \in DOMAIN SettledRows(d, i) :
                /\ SettledRows(d, i)[j].key = rows[j].key
                /\ j # i \/ ~Holds(d, i) => SettledRows(d, i)[j] = rows[j]
<1> DEFINE tries == rows[i].attempts + 1
           back == [key |-> rows[i].key,
                    attempts |-> Smaller(MaxExponent, tries),
                    retryIn |-> Left(Backoff(tries), d),
                    leaseIn |-> 0,
                    holder |-> Nobody]
<1>1. CASE ~Holds(d, i)
  BY <1>1 DEF SettledRows, TypeOK
<1>2. CASE Holds(d, i) /\ okay[d]
  BY <1>2 DEF SettledRows, Without, Holds, TypeOK, Queued
<1>3. CASE Holds(d, i) /\ ~okay[d]
  <2>1. i \in Queued /\ rows[i] \in Row
    BY <1>3 DEF Holds, TypeOK
  <2>2. tries \in Nat
    BY <2>1, BoundsAssumption DEF Row
  <2>3. Backoff(tries) \in 0..MaxBackoff
    BY <2>2, BackoffRange
  <2>4. Left(Backoff(tries), d) \in 0..MaxBackoff
    <3>1. age[d] \in Nat
      BY BoundsAssumption DEF TypeOK, MaxAge, Larger
    <3> QED BY <3>1, <2>3, LeftRange, BoundsAssumption
  <2>5. Smaller(MaxExponent, tries) \in 0..MaxExponent
    BY <2>2, BoundsAssumption DEF Smaller
  <2>6. back \in Row /\ back.key = rows[i].key
    <3> HIDE DEF tries
    <3> QED BY <2>1, <2>4, <2>5, BoundsAssumption DEF Row
  <2>7. SettledRows(d, i) = [rows EXCEPT ![i] = back]
    BY <1>3 DEF SettledRows
  <2> HIDE DEF back
  <2> QED BY <1>3, <2>1, <2>6, <2>7 DEF TypeOK, Queued
<1> QED BY <1>1, <1>2, <1>3

-----------------------------------------------------------------------------
(* Type correctness                                                         *)

LEMMA InitInv == Init => Inv
<1> SUFFICES ASSUME Init PROVE Inv
  OBVIOUS
<1> USE DEF Init, Queued
<1>1. TypeOK
  BY BoundsAssumption DEF TypeOK, MaxAge, Larger
<1>2. UniqueKeys /\ NothingLost
  BY DEF UniqueKeys, NothingLost
<1>3. OkayIsExecuted /\ BreakerHasCause
  BY DEF OkayIsExecuted, BreakerHasCause
<1> QED BY <1>1, <1>2, <1>3 DEF Inv

LEMMA TypeStep == TypeOK /\ [Next]_vars => TypeOK'
<1> SUFFICES ASSUME TypeOK, [Next]_vars PROVE TypeOK'
  OBVIOUS
<1> USE BoundsAssumption
<1>1. ASSUME NEW k \in Keys \cup {NoKey}, Enqueue(k) PROVE TypeOK'
  <2> DEFINE new == [key |-> k, attempts |-> 0, retryIn |-> 0,
                     leaseIn |-> 0, holder |-> Nobody]
  <2>1. new \in Row
    BY DEF Row
  <2>2. rows' \in [Queued \cup {enqueued + 1} -> Row]
    BY <1>1, <2>1 DEF Enqueue, TypeOK
  <2>3. enqueued' \in 0..MaxEnqueues /\ Queued' \subseteq 1..enqueued'
    BY <1>1, <2>2 DEF Enqueue, TypeOK, Queued
  <2>4. rows' \in [Queued' -> Row]
    BY <2>2 DEF Queued
  <2>5. todo' \in [Drainers -> SUBSET (1..enqueued')] /\ executed' \subseteq 1..enqueued'
    <3>1. 1..enqueued \subseteq 1..enqueued'
      BY <1>1 DEF Enqueue, TypeOK
    <3> QED BY <1>1, <3>1 DEF Enqueue, TypeOK
  <2> QED BY <1>1, <2>3, <2>4, <2>5 DEF Enqueue, TypeOK, MaxAge
<1>2. ASSUME NEW d \in Drainers, Claim(d) PROVE TypeOK'
  <2>1. \A i \in Queued : [rows[i] EXCEPT !.leaseIn = LeaseSeconds, !.holder = d] \in Row
    <3> TAKE i \in Queued
    <3>1. rows[i] \in Row
      BY DEF TypeOK
    <3> DEFINE r == rows[i]
    <3> HIDE DEF r
    <3>2. ASSUME r \in Row
          PROVE  [r EXCEPT !.leaseIn = LeaseSeconds, !.holder = d] \in Row
      <4>1. [r EXCEPT !.leaseIn = LeaseSeconds] \in Row
        BY <3>2 DEF Row
      <4>2. ASSUME NEW q \in Row PROVE [q EXCEPT !.holder = d] \in Row
        BY <4>2 DEF Row
      <4> QED BY <4>1, <4>2
    <3> QED BY <3>1, <3>2 DEF r
  <2>2. rows' \in [Queued -> Row]
    BY <1>2, <2>1 DEF Claim, TypeOK
  <2>3. Claims \subseteq 1..enqueued
    BY DEF Claims, Eligible, TypeOK
  <2>4. todo' \in [Drainers -> SUBSET (1..enqueued)]
    BY <1>2, <2>3 DEF Claim, TypeOK
  <2> QED BY <1>2, <2>2, <2>4 DEF Claim, TypeOK, Queued, MaxAge
<1>3. ASSUME NEW d \in Drainers, NEW i \in todo[d], NEW ok \in BOOLEAN, Run(d, i, ok)
      PROVE  TypeOK'
  BY <1>3 DEF Run, TypeOK, Queued, MaxAge
<1>4. ASSUME NEW d \in Drainers, NEW i \in todo[d], rows' = SettledRows(d, i),
             enqueued' = enqueued
      PROVE  rows' \in [Queued' -> Row] /\ Queued' \subseteq 1..enqueued'
  BY <1>4, SettledRowsShape DEF TypeOK, Queued
<1>5. ASSUME NEW d \in Drainers, NEW i \in todo[d], Settle(d, i) PROVE TypeOK'
  <2>1. failures' \in 0..BreakerThreshold
    BY <1>5 DEF Settle, SettledFailures, Smaller, TypeOK
  <2>2. openIn' \in 0..OpenSeconds
    <3>1. age[d] \in Nat
      BY DEF TypeOK, MaxAge, Larger
    <3>2. Left(OpenSeconds, d) \in 0..OpenSeconds
      BY <3>1, LeftRange
    <3> QED BY <1>5, <3>2 DEF Settle, SettledOpenIn, TypeOK
  <2>3. todo' \in [Drainers -> SUBSET (1..enqueued')]
    BY <1>5 DEF Settle, TypeOK
  <2>4. age' \in [Drainers -> 0..MaxAge] /\ busy' \in [Drainers -> 0..MaxProcess]
    BY <1>5 DEF Settle, TypeOK, MaxAge, Larger
  <2> QED BY <1>4, <1>5, <2>1, <2>2, <2>3, <2>4 DEF Settle, TypeOK, MaxAge
<1>6. ASSUME NEW d \in Drainers, Die(d)
      PROVE  /\ enqueued' = enqueued /\ executed' \subseteq 1..enqueued'
             /\ crashes' \in 0..MaxCrashes
             /\ todo' \in [Drainers -> SUBSET (1..enqueued')]
             /\ phase' \in [Drainers -> {"run", "settle"}]
             /\ okay' \in [Drainers -> BOOLEAN]
             /\ age' \in [Drainers -> 0..MaxAge]
             /\ busy' \in [Drainers -> 0..MaxProcess]
  BY <1>6 DEF Die, TypeOK, MaxAge, Larger
<1>7. ASSUME NEW d \in Drainers, Crash(d) PROVE TypeOK'
  BY <1>6, <1>7 DEF Crash, files, TypeOK, Queued, MaxAge
<1>8. ASSUME NEW d \in Drainers, NEW i \in todo[d], TornSettle(d, i) PROVE TypeOK'
  <2>1. Die(d) /\ rows' = SettledRows(d, i) /\ UNCHANGED <<failures, openIn>>
    BY <1>8 DEF TornSettle
  <2> QED BY <1>4, <1>6, <2>1 DEF TypeOK, MaxAge
<1>9. ASSUME Tick PROVE TypeOK'
  <2>1. \A i \in Queued : [rows[i] EXCEPT !.retryIn = Less(@), !.leaseIn = Less(@)] \in Row
    <3> TAKE i \in Queued
    <3>1. rows[i] \in Row
      BY DEF TypeOK
    <3> DEFINE r == rows[i]
    <3> HIDE DEF r
    <3>2. ASSUME r \in Row
          PROVE  [r EXCEPT !.retryIn = Less(r.retryIn), !.leaseIn = Less(r.leaseIn)] \in Row
      BY <3>2, LessRange DEF Row
    <3> QED BY <3>1, <3>2 DEF r
  <2>2. rows' \in [Queued -> Row]
    BY <1>9, <2>1 DEF Tick
  <2>3. openIn' \in 0..OpenSeconds
    BY <1>9, LessRange DEF Tick, TypeOK
  <2>4. age' \in [Drainers -> 0..MaxAge]
    <3>1. MaxAge \in Nat
      BY DEF MaxAge, Larger
    <3>2. \A d \in Drainers : age[d] \in 0..MaxAge
      BY DEF TypeOK
    <3>3. \A d \in Drainers : Smaller(MaxAge, age[d] + 1) \in 0..MaxAge
      BY <3>1, <3>2 DEF Smaller
    <3>4. age' = [d \in Drainers |-> IF Idle(d) THEN age[d] ELSE Smaller(MaxAge, age[d] + 1)]
      BY <1>9 DEF Tick
    <3> QED BY <3>2, <3>3, <3>4, Zenon
  <2>5. busy' \in [Drainers -> 0..MaxProcess]
    <3>1. \A d \in Drainers : busy[d] \in 0..MaxProcess
      BY DEF TypeOK
    <3>2. \A d \in Drainers : ~Idle(d) => busy[d] + 1 \in 0..MaxProcess
      <4>1. \A d \in Drainers : ~Idle(d) => busy[d] < MaxProcess
        BY <1>9, Zenon DEF Tick
      <4> QED BY <3>1, <4>1
    <3>3. busy' = [d \in Drainers |-> IF Idle(d) THEN busy[d] ELSE busy[d] + 1]
      BY <1>9 DEF Tick
    <3> QED BY <3>1, <3>2, <3>3, Zenon
  <2> QED BY <1>9, <2>2, <2>3, <2>4, <2>5 DEF Tick, TypeOK, Queued, MaxAge
<1>10. CASE UNCHANGED vars
  BY <1>10 DEF vars, TypeOK, Queued, MaxAge
<1> QED BY <1>1, <1>2, <1>3, <1>5, <1>7, <1>8, <1>9, <1>10 DEF Next, Drain

\* Both files and every drain's locals keep their shape in every reachable state.
THEOREM TypeCorrect == Spec => []TypeOK
<1>1. Init => TypeOK
  BY InitInv DEF Inv
<1> QED BY <1>1, TypeStep, PTL DEF Spec

-----------------------------------------------------------------------------
(* One pending row per key                                                  *)

\* The rows of the queue are only renamed, dropped or appended with a new key.
LEMMA UniqueKeysStep == TypeOK /\ UniqueKeys /\ [Next]_vars => UniqueKeys'
<1> SUFFICES ASSUME TypeOK, UniqueKeys, [Next]_vars PROVE UniqueKeys'
  OBVIOUS
<1>1. ASSUME NEW k \in Keys \cup {NoKey}, Enqueue(k) PROVE UniqueKeys'
  <2>1. enqueued + 1 \notin Queued
    BY DEF TypeOK
  <2>2. Queued' = Queued \cup {enqueued + 1}
    BY <1>1 DEF Enqueue, Queued
  <2>3. rows'[enqueued + 1].key = k
    BY <1>1 DEF Enqueue
  <2>4. \A i \in Queued : rows'[i].key = rows[i].key
    BY <1>1, <2>1 DEF Enqueue
  <2>5. k = NoKey \/ \A i \in Queued : rows[i].key # k
    BY <1>1 DEF Enqueue, NewKey
  <2> QED BY <2>2, <2>3, <2>4, <2>5 DEF UniqueKeys
<1>2. ASSUME Queued' \subseteq Queued, \A i \in Queued' : rows'[i].key = rows[i].key
      PROVE  UniqueKeys'
  BY <1>2 DEF UniqueKeys
<1>3. ASSUME NEW d \in Drainers, Claim(d) PROVE UniqueKeys'
  <2>1. Queued' = Queued
    BY <1>3 DEF Claim, Queued
  <2>2. \A i \in Queued : rows'[i].key = rows[i].key
    BY <1>3 DEF Claim, TypeOK, Row
  <2> QED BY <1>2, <2>1, <2>2
<1>4. ASSUME NEW d \in Drainers, NEW i \in todo[d], rows' = SettledRows(d, i)
      PROVE  UniqueKeys'
  <2>1. i \in 1..enqueued
    BY DEF TypeOK
  <2> QED BY <1>2, <1>4, <2>1, SettledRowsShape DEF Queued
<1>5. ASSUME Tick PROVE UniqueKeys'
  <2>1. Queued' = Queued
    BY <1>5 DEF Tick, Queued
  <2>2. \A i \in Queued : rows'[i].key = rows[i].key
    BY <1>5 DEF Tick, TypeOK, Row
  <2> QED BY <1>2, <2>1, <2>2
<1>6. ASSUME rows' = rows PROVE UniqueKeys'
  BY <1>6 DEF UniqueKeys, Queued
<1> QED
  BY <1>1, <1>3, <1>4, <1>5, <1>6
  DEF Next, Drain, Run, Settle, Crash, TornSettle, files, vars

-----------------------------------------------------------------------------
(* Nothing is lost                                                          *)

\* A row leaves the queue only when the drain that removes it saw it succeed.
LEMMA NothingLostStep ==
    TypeOK /\ NothingLost /\ OkayIsExecuted /\ [Next]_vars => NothingLost'
<1> SUFFICES ASSUME TypeOK, NothingLost, OkayIsExecuted, [Next]_vars
             PROVE  NothingLost'
  OBVIOUS
<1>1. ASSUME NEW k \in Keys \cup {NoKey}, Enqueue(k) PROVE NothingLost'
  <2>1. Queued' = Queued \cup {enqueued + 1} /\ enqueued' = enqueued + 1
    BY <1>1 DEF Enqueue, Queued
  <2>2. executed' = executed /\ enqueued \in Nat
    BY <1>1, BoundsAssumption DEF Enqueue, TypeOK
  <2> QED BY <2>1, <2>2 DEF NothingLost
<1>2. ASSUME Queued \subseteq Queued', executed \subseteq executed', enqueued' = enqueued
      PROVE  NothingLost'
  BY <1>2 DEF NothingLost
<1>3. ASSUME NEW d \in Drainers, NEW i \in todo[d], rows' = SettledRows(d, i),
             IsCurrent(d, i), phase[d] = "settle",
             enqueued' = enqueued, executed' = executed
      PROVE  NothingLost'
  <2>1. i \in 1..enqueued
    BY DEF TypeOK
  <2>2. CASE okay[d]
    <3>1. i \in executed
      BY <1>3, <2>1, <2>2 DEF OkayIsExecuted
    <3>2. Queued \ Queued' \subseteq {i}
      BY <1>3, <2>1, SettledRowsShape DEF Queued
    <3> QED BY <1>3, <3>1, <3>2 DEF NothingLost
  <2>3. CASE ~okay[d]
    BY <1>2, <1>3, <2>1, <2>3, SettledRowsShape DEF Queued
  <2> QED BY <2>2, <2>3
<1>4. ASSUME NEW d \in Drainers, Claim(d) PROVE NothingLost'
  BY <1>2, <1>4 DEF Claim, Queued
<1>5. ASSUME NEW d \in Drainers, NEW i \in todo[d], NEW ok \in BOOLEAN, Run(d, i, ok)
      PROVE  NothingLost'
  BY <1>2, <1>5 DEF Run, Queued
<1>6. ASSUME NEW d \in Drainers, NEW i \in todo[d], Settle(d, i) PROVE NothingLost'
  BY <1>3, <1>6 DEF Settle
<1>7. ASSUME NEW d \in Drainers, Crash(d) PROVE NothingLost'
  BY <1>2, <1>7 DEF Crash, Die, files, Queued
<1>8. ASSUME NEW d \in Drainers, NEW i \in todo[d], TornSettle(d, i) PROVE NothingLost'
  BY <1>3, <1>8 DEF TornSettle, Die
<1>9. ASSUME Tick PROVE NothingLost'
  BY <1>2, <1>9 DEF Tick, Queued
<1>10. ASSUME UNCHANGED vars PROVE NothingLost'
  BY <1>2, <1>10 DEF vars, Queued
<1> QED
  BY <1>1, <1>4, <1>5, <1>6, <1>7, <1>8, <1>9, <1>10 DEF Next, Drain

\* Only a handler's ok sets okay, and the pointer moves only by settling.
LEMMA OkayIsExecutedStep == TypeOK /\ OkayIsExecuted /\ [Next]_vars => OkayIsExecuted'
<1> SUFFICES ASSUME TypeOK, OkayIsExecuted, [Next]_vars,
                    NEW e \in Drainers, NEW j \in 1..enqueued',
                    phase'[e] = "settle", okay'[e], IsCurrent(e, j)'
             PROVE  j \in executed'
  BY DEF OkayIsExecuted
<1>1. ASSUME todo'[e] = todo[e], phase'[e] = phase[e], okay'[e] = okay[e],
             executed \subseteq executed'
      PROVE  j \in executed'
  <2>1. IsCurrent(e, j)
    BY <1>1 DEF IsCurrent
  <2>2. j \in 1..enqueued
    BY <2>1 DEF IsCurrent, TypeOK
  <2> QED BY <1>1, <2>1, <2>2 DEF OkayIsExecuted
<1>2. ASSUME NEW k \in Keys \cup {NoKey}, Enqueue(k) PROVE j \in executed'
  BY <1>1, <1>2 DEF Enqueue
<1>3. ASSUME NEW d \in Drainers, Claim(d) PROVE j \in executed'
  <2>1. d # e
    BY <1>3 DEF Claim, TypeOK
  <2> QED BY <1>1, <1>3, <2>1 DEF Claim, TypeOK
<1>4. ASSUME NEW d \in Drainers, NEW i \in todo[d], NEW ok \in BOOLEAN, Run(d, i, ok)
      PROVE  j \in executed'
  <2>1. CASE d = e
    <3>1. IsCurrent(e, i) /\ IsCurrent(e, j)
      BY <1>4, <2>1 DEF Run, Running, IsCurrent
    <3>2. i = j
      BY <3>1 DEF IsCurrent, TypeOK
    <3>3. ok
      BY <1>4, <2>1 DEF Run, TypeOK
    <3> QED BY <1>4, <3>2, <3>3 DEF Run
  <2>2. CASE d # e
    BY <1>1, <1>4, <2>2 DEF Run, TypeOK
  <2> QED BY <2>1, <2>2
<1>5. ASSUME NEW d \in Drainers, NEW i \in todo[d], Settle(d, i) PROVE j \in executed'
  <2>1. d # e
    BY <1>5 DEF Settle, TypeOK
  <2> QED BY <1>1, <1>5, <2>1 DEF Settle, TypeOK
<1>6. ASSUME NEW d \in Drainers, Die(d) PROVE j \in executed'
  <2>1. d # e
    BY <1>6 DEF Die, TypeOK
  <2> QED BY <1>1, <1>6, <2>1 DEF Die, TypeOK
<1>7. ASSUME Tick PROVE j \in executed'
  BY <1>1, <1>7 DEF Tick
<1>8. ASSUME UNCHANGED vars PROVE j \in executed'
  BY <1>1, <1>8 DEF vars
<1> QED
  BY <1>2, <1>3, <1>4, <1>5, <1>6, <1>7, <1>8 DEF Next, Drain, Crash, TornSettle

\* The breaker is opened at the threshold and closed when the count is reset.
LEMMA BreakerStep == TypeOK /\ BreakerHasCause /\ [Next]_vars => BreakerHasCause'
<1> SUFFICES ASSUME TypeOK, BreakerHasCause, [Next]_vars PROVE BreakerHasCause'
  OBVIOUS
<1> USE BoundsAssumption DEF BreakerHasCause
<1>1. ASSUME NEW d \in Drainers, NEW i \in todo[d], Settle(d, i)
      PROVE  BreakerHasCause'
  <2>1. failures' = SettledFailures(d, i) /\ openIn' = SettledOpenIn(d, i)
    BY <1>1 DEF Settle
  <2>2. CASE ~Holds(d, i)
    BY <2>1, <2>2 DEF SettledFailures, SettledOpenIn
  <2>3. CASE Holds(d, i) /\ okay[d]
    BY <2>1, <2>3 DEF SettledFailures, SettledOpenIn
  <2>4. CASE Holds(d, i) /\ ~okay[d] /\ failures + 1 >= BreakerThreshold
    <3>1. failures' = BreakerThreshold
      BY <2>1, <2>4 DEF SettledFailures, Smaller, TypeOK
    <3> QED BY <3>1
  <2>5. CASE Holds(d, i) /\ ~okay[d] /\ ~(failures + 1 >= BreakerThreshold)
    <3>1. openIn' = openIn /\ failures # BreakerThreshold
      BY <2>1, <2>5 DEF SettledOpenIn, TypeOK
    <3> QED BY <3>1 DEF TypeOK
  <2> QED BY <2>2, <2>3, <2>4, <2>5
<1>2. ASSUME UNCHANGED <<failures, openIn>> PROVE BreakerHasCause'
  BY <1>2
<1>3. ASSUME Tick PROVE BreakerHasCause'
  <2>1. openIn' = Less(openIn) /\ failures' = failures
    BY <1>3 DEF Tick
  <2> QED BY <2>1 DEF Less, Larger, TypeOK
<1> QED
  BY <1>1, <1>2, <1>3
  DEF Next, Drain, Enqueue, Claim, Run, Crash, TornSettle, files, vars

THEOREM InvariantHolds == Spec => []Inv
<1>1. Init => Inv
  BY InitInv
<1>2. Inv /\ [Next]_vars => Inv'
  BY TypeStep, UniqueKeysStep, NothingLostStep, OkayIsExecutedStep, BreakerStep DEF Inv
<1> QED BY <1>1, <1>2, PTL DEF Spec

\* However enqueues, drains and crashes interleave, no two pending rows share
\* an idempotency key: the dedupe of enqueue_persisted_side_effect_locked.
THEOREM KeysAreUnique == Spec => []UniqueKeys
<1>1. Inv => UniqueKeys
  BY DEF Inv
<1> QED BY <1>1, InvariantHolds, PTL

\* At-least-once, whatever the lease, the backoff and the number of crashes:
\* drain_side_effect_queue removes no row whose handler has not returned ok.
THEOREM NoItemIsLost == Spec => []NothingLost
<1>1. Inv => NothingLost
  BY DEF Inv
<1> QED BY <1>1, InvariantHolds, PTL

\* The breaker is open only while the failures that opened it stand.
THEOREM BreakerIsJustified == Spec => []BreakerHasCause
<1>1. Inv => BreakerHasCause
  BY DEF Inv
<1> QED BY <1>1, InvariantHolds, PTL

-----------------------------------------------------------------------------
(* Leases                                                                   *)

RowKept(i) == i \in Queued' /\ rows'[i].holder = rows[i].holder

\* Until its reading of the clock is a lease old, a drain holds every row it
\* has still to settle, and the lease of the row ends when the reading does.
ClaimsAreHeld ==
    \A d \in Drainers, i \in Ids :
      i \in todo[d] /\ age[d] < LeaseSeconds
        => i \in Queued /\ rows[i].holder = d /\ rows[i].leaseIn = LeaseSeconds - age[d]
\* The clock is read anew by each drain that starts.
IdleIsFresh == \A d \in Drainers : Idle(d) => age[d] = 0

LEMMA IdleIsFreshStep == TypeOK /\ IdleIsFresh /\ [Next]_vars => IdleIsFresh'
<1> SUFFICES ASSUME TypeOK, IdleIsFresh, [Next]_vars, NEW e \in Drainers,
                    todo'[e] = {}
             PROVE  age'[e] = 0
  BY DEF IdleIsFresh, Idle
<1> USE DEF IdleIsFresh, Idle
<1>1. ASSUME NEW d \in Drainers, Claim(d) PROVE age'[e] = 0
  BY <1>1 DEF Claim, TypeOK
<1>2. ASSUME NEW d \in Drainers, NEW i \in todo[d], Settle(d, i) PROVE age'[e] = 0
  <2>1. CASE e = d
    <3>1. todo[d] = {i}
      BY <1>2, <2>1 DEF Settle, TypeOK
    <3> QED BY <1>2, <2>1, <3>1 DEF Settle, TypeOK
  <2>2. CASE e # d
    BY <1>2, <2>2 DEF Settle, TypeOK
  <2> QED BY <2>1, <2>2
<1>3. ASSUME NEW d \in Drainers, Die(d) PROVE age'[e] = 0
  BY <1>3 DEF Die, TypeOK
<1>4. ASSUME Tick PROVE age'[e] = 0
  BY <1>4 DEF Tick, TypeOK
<1>5. ASSUME UNCHANGED <<todo, age>> PROVE age'[e] = 0
  BY <1>5
<1> QED
  BY <1>1, <1>2, <1>3, <1>4, <1>5
  DEF Next, Drain, Enqueue, Run, Crash, TornSettle, vars

\* A claim is taken at age 0 and never over a live lease; both then run down
\* by the same seconds, and only the holder's own settlement ends the claim.
LEMMA ClaimsAreHeldStep ==
    TypeOK /\ IdleIsFresh /\ ClaimsAreHeld /\ [Next]_vars => ClaimsAreHeld'
<1> SUFFICES ASSUME TypeOK, IdleIsFresh, ClaimsAreHeld, [Next]_vars,
                    NEW e \in Drainers, NEW j \in Ids,
                    j \in todo'[e], age'[e] < LeaseSeconds
             PROVE  j \in Queued' /\ rows'[j].holder = e
                    /\ rows'[j].leaseIn = LeaseSeconds - age'[e]
  BY DEF ClaimsAreHeld
<1> DEFINE Goal == j \in Queued' /\ rows'[j].holder = e
                   /\ rows'[j].leaseIn = LeaseSeconds - age'[e]
<1> USE BoundsAssumption
<1>0. age[e] \in Nat
  BY DEF TypeOK, MaxAge, Larger
<1>1. ASSUME j \in todo[e], age'[e] = age[e],
             j \in Queued => j \in Queued' /\ rows'[j] = rows[j]
      PROVE  Goal
  BY <1>1 DEF ClaimsAreHeld
<1>2. ASSUME NEW k \in Keys \cup {NoKey}, Enqueue(k) PROVE Goal
  <2>1. enqueued + 1 \notin Queued
    BY DEF TypeOK
  <2> QED BY <1>1, <1>2, <2>1 DEF Enqueue, Queued
<1>3. ASSUME NEW d \in Drainers, Claim(d) PROVE Goal
  <2>1. CASE e = d
    <3>1. age'[e] = 0 /\ j \in Claims
      BY <1>3, <2>1 DEF Claim, IdleIsFresh, TypeOK
    <3>2. j \in Queued /\ rows[j] \in Row
      BY <3>1 DEF Claims, Eligible, TypeOK
    <3>3. rows'[j] = [rows[j] EXCEPT !.leaseIn = LeaseSeconds, !.holder = d]
      BY <1>3, <3>1, <3>2 DEF Claim
    <3>4. rows'[j].holder = d /\ rows'[j].leaseIn = LeaseSeconds
      BY <3>2, <3>3 DEF Row
    <3>5. j \in Queued'
      BY <1>3, <3>2 DEF Claim, Queued
    <3> QED BY <2>1, <3>1, <3>4, <3>5
  <2>2. CASE e # d
    <3>1. j \in todo[e] /\ age'[e] = age[e]
      BY <1>3, <2>2 DEF Claim, TypeOK
    <3>2. j \in Queued /\ rows[j].leaseIn = LeaseSeconds - age[e]
      BY <3>1 DEF ClaimsAreHeld
    <3>3. j \notin Claims
      BY <1>0, <3>1, <3>2 DEF Claims, Eligible, Leased
    <3> QED BY <1>1, <1>3, <3>1, <3>2, <3>3 DEF Claim, Queued
  <2> QED BY <2>1, <2>2
<1>4. ASSUME NEW d \in Drainers, NEW i \in todo[d], rows' = SettledRows(d, i),
             todo'[d] \subseteq todo[d] \ {i},
             e # d => todo'[e] = todo[e] /\ age'[e] = age[e],
             e = d => age'[e] = age[e]
      PROVE  Goal
  <2>1. i \in 1..enqueued
    BY DEF TypeOK
  <2>2. j \in todo[e] /\ age'[e] = age[e]
    BY <1>4
  <2>3. j \in Queued /\ rows[j].holder = e
    BY <2>2 DEF ClaimsAreHeld
  <2>4. j # i \/ ~Holds(d, i)
    BY <1>4, <2>3 DEF Holds
  <2> QED BY <1>1, <1>4, <2>1, <2>2, <2>3, <2>4, SettledRowsShape DEF Queued
<1>5. ASSUME NEW d \in Drainers, NEW i \in todo[d], Settle(d, i) PROVE Goal
  <2>1. e = d => todo[d] # {i}
    BY <1>5 DEF Settle, TypeOK
  <2> QED BY <1>4, <1>5, <2>1 DEF Settle, TypeOK
<1>6. ASSUME NEW d \in Drainers, Die(d)
      PROVE  e # d /\ todo'[d] = {} /\ todo'[e] = todo[e] /\ age'[e] = age[e]
  BY <1>6 DEF Die, TypeOK
<1>7. ASSUME NEW d \in Drainers, Crash(d) PROVE Goal
  BY <1>1, <1>6, <1>7 DEF Crash, files, Queued
<1>8. ASSUME NEW d \in Drainers, NEW i \in todo[d], TornSettle(d, i) PROVE Goal
  BY <1>4, <1>6, <1>8 DEF TornSettle
<1>9. ASSUME Tick PROVE Goal
  <2>1. ~Idle(e) /\ j \in todo[e]
    BY <1>9 DEF Tick, Idle
  <2>2. age'[e] = Smaller(MaxAge, age[e] + 1) /\ MaxAge \in Nat /\ MaxAge >= LeaseSeconds
    <3>1. age'[e] = Smaller(MaxAge, age[e] + 1)
      BY <1>9, <2>1, Zenon DEF Tick
    <3>2. MaxAge \in Nat /\ MaxAge >= LeaseSeconds
      BY DEF MaxAge, Larger
    <3> QED BY <3>1, <3>2
  <2>3. age'[e] = age[e] + 1 /\ age[e] < LeaseSeconds
    BY <1>0, <2>2 DEF Smaller
  <2>4. j \in Queued /\ rows[j].holder = e /\ rows[j].leaseIn = LeaseSeconds - age[e]
    BY <2>1, <2>3 DEF ClaimsAreHeld
  <2>5. rows'[j] = [rows[j] EXCEPT !.retryIn = Less(@), !.leaseIn = Less(@)] /\ j \in Queued'
    BY <1>9, <2>4 DEF Tick, Queued
  <2>6. rows'[j].holder = e /\ rows'[j].leaseIn = Less(rows[j].leaseIn)
    BY <2>4, <2>5 DEF TypeOK, Row
  <2>7. Less(LeaseSeconds - age[e]) = LeaseSeconds - (age[e] + 1)
    BY <1>0, <2>3 DEF Less, Larger
  <2> QED BY <2>3, <2>4, <2>5, <2>6, <2>7
<1>10. ASSUME UNCHANGED <<rows, todo, age>> PROVE Goal
  BY <1>1, <1>10 DEF Queued
<1> QED
  BY <1>2, <1>3, <1>5, <1>7, <1>8, <1>9, <1>10 DEF Next, Drain, Run, vars

\* A claim is exclusive for a whole lease, whatever the durations and however
\* many drains there are: drain_side_effect_queue runs an item twice at once
\* only if one of the two runs has outlived _CLAIM_LEASE_SECONDS.
THEOREM ClaimsAreExclusive == Spec => []OneRunPerLease
<1> DEFINE Held == TypeOK /\ IdleIsFresh /\ ClaimsAreHeld
<1>1. Init => Held
  <2>1. Init => TypeOK
    BY InitInv DEF Inv
  <2> QED BY <2>1 DEF Init, IdleIsFresh, ClaimsAreHeld
<1>2. Held /\ [Next]_vars => Held'
  BY TypeStep, IdleIsFreshStep, ClaimsAreHeldStep
<1>3. Held => OneRunPerLease
  <2> SUFFICES ASSUME Held, NEW d \in Drainers, NEW e \in Drainers, NEW i \in 1..enqueued,
                      i \in todo[d], i \in todo[e], d # e,
                      age[d] < LeaseSeconds, age[e] < LeaseSeconds
               PROVE  FALSE
    <3>1. Held => \A f \in Drainers : age[f] \in Nat
      BY BoundsAssumption DEF TypeOK, MaxAge, Larger
    <3> QED BY <3>1, BoundsAssumption DEF OneRunPerLease, Running, IsCurrent
  <2>1. i \in Ids
    BY BoundsAssumption DEF TypeOK, Ids
  <2> QED BY <2>1 DEF ClaimsAreHeld
<1> HIDE DEF Held
<1> QED BY <1>1, <1>2, <1>3, PTL DEF Spec

\* The token comparison of drain_side_effect_queue: a drain whose lease ran out
\* and was taken over finds no row to settle, so a live lease is never disturbed.
THEOREM LeasesAreRespected == Spec => LiveLeaseRespected
<1> DEFINE Respected ==
      \A i \in Queued :
         /\ Leased(i)
         /\ i \in Queued' => rows'[i].holder # rows[i].holder
         => \E d \in Drainers :
              /\ rows[i].holder = d
              /\ i \in todo[d]
              /\ i \notin todo'[d]
<1>1. TypeOK /\ [Next]_vars => [Respected]_vars
  <2> SUFFICES ASSUME TypeOK, [Next]_vars, NEW i \in Queued, Leased(i), ~RowKept(i)
               PROVE  \E d \in Drainers :
                        rows[i].holder = d /\ i \in todo[d] /\ i \notin todo'[d]
    BY DEF RowKept
  <2>1. ASSUME NEW k \in Keys \cup {NoKey}, Enqueue(k) PROVE FALSE
    <3>1. i # enqueued + 1
      BY DEF TypeOK
    <3> QED BY <2>1, <3>1 DEF Enqueue, RowKept, Queued
  <2>2. ASSUME NEW d \in Drainers, Claim(d) PROVE FALSE
    <3>1. i \notin Claims
      BY DEF Claims, Eligible
    <3> QED BY <2>2, <3>1 DEF Claim, RowKept, Queued
  <2>3. ASSUME NEW d \in Drainers, NEW j \in todo[d], rows' = SettledRows(d, j)
        PROVE  j = i /\ Holds(d, j)
    <3>1. j \in 1..enqueued
      BY DEF TypeOK
    <3>2. i \in Queued' => SettledRows(d, j)[i] # rows[i]
      BY <2>3 DEF RowKept
    <3> QED BY <2>3, <3>1, <3>2, SettledRowsShape DEF Queued
  <2>4. ASSUME NEW d \in Drainers, NEW j \in todo[d], Settle(d, j)
        PROVE  rows[i].holder = d /\ i \in todo[d] /\ i \notin todo'[d]
    BY <2>3, <2>4 DEF Settle, Holds, TypeOK
  <2>5. ASSUME NEW d \in Drainers, NEW j \in todo[d], TornSettle(d, j)
        PROVE  rows[i].holder = d /\ i \in todo[d] /\ i \notin todo'[d]
    BY <2>3, <2>5 DEF TornSettle, Die, Holds, TypeOK
  <2>6. ASSUME Tick PROVE FALSE
    BY <2>6 DEF Tick, RowKept, Queued, TypeOK, Row
  <2>7. ASSUME rows' = rows PROVE FALSE
    BY <2>7 DEF RowKept, Queued
  <2> QED
    BY <2>1, <2>2, <2>4, <2>5, <2>6, <2>7
    DEF Next, Drain, Run, Crash, files, vars
<1>2. Spec => []TypeOK
  BY TypeCorrect
<1> QED BY <1>1, <1>2, PTL DEF Spec, LiveLeaseRespected

-----------------------------------------------------------------------------
(* Refinement                                                               *)

Pending == [i \in Queued |-> rows[i].key]

\* A step that keeps the rows' keys maps to a stutter of the abstract queue.
LEMMA SamePending ==
    ASSUME Queued' = Queued, \A i \in Queued : rows'[i].key = rows[i].key
    PROVE  Pending' = Pending
BY DEF Pending

\* The whole queue - leases, tokens, stale clocks, breaker, torn writes and
\* killed drains - is at-least-once work: every step accepts, performs or
\* retires one unit, or leaves the abstract queue as it was.
THEOREM QueueImplementsDurableWork == Spec => ImplementsDurableWork
<1>1. Init => Promise!Start
  BY DEF Init, Promise!Start, Queued
<1>2. Inv /\ [Next]_vars => [Promise!Step]_(Promise!work)
  <2> SUFFICES ASSUME Inv, [Next]_vars PROVE [Promise!Step]_(Promise!work)
    OBVIOUS
  <2> USE DEF Inv
  <2>1. ASSUME Pending' = Pending, enqueued' = enqueued, executed' = executed
        PROVE  UNCHANGED Promise!work
    BY <2>1 DEF Promise!work, Pending
  <2>2. ASSUME NEW k \in Keys \cup {NoKey}, Enqueue(k) PROVE Promise!Submit(k)
    <3>1. enqueued + 1 \notin Queued
      BY DEF TypeOK
    <3>2. Queued' = Queued \cup {enqueued + 1}
      BY <2>2 DEF Enqueue, Queued
    <3>3. Pending' = [u \in Queued \cup {enqueued + 1} |->
                        IF u = enqueued + 1 THEN k ELSE Pending[u]]
      BY <2>2, <3>1, <3>2 DEF Enqueue, Pending
    <3>4. k = NoKey \/ \A u \in Queued : Pending[u] # k
      BY <2>2 DEF Enqueue, NewKey, Pending
    <3>5. DOMAIN Pending = Queued
      BY DEF Pending
    <3> QED
      BY <2>2, <3>3, <3>4, <3>5 DEF Enqueue, Promise!Submit, Promise!Units, Pending
  <2>3. ASSUME NEW d \in Drainers, Claim(d) PROVE UNCHANGED Promise!work
    <3>1. Queued' = Queued /\ enqueued' = enqueued /\ executed' = executed
      BY <2>3 DEF Claim, Queued
    <3>2. \A i \in Queued : rows'[i].key = rows[i].key
      BY <2>3 DEF Claim, TypeOK, Row
    <3> QED BY <2>1, <3>1, <3>2, SamePending
  <2>4. ASSUME NEW d \in Drainers, NEW i \in todo[d], NEW ok \in BOOLEAN, Run(d, i, ok)
        PROVE  (\E u \in Promise!Units : Promise!Perform(u)) \/ UNCHANGED Promise!work
    <3>1. Pending' = Pending /\ enqueued' = enqueued
      BY <2>4 DEF Run, Queued, Pending
    <3>2. i \in 1..enqueued
      BY DEF TypeOK
    <3>3. CASE ok /\ i \in Queued
      <4>1. Promise!Units = Queued
        BY DEF Promise!Units
      <4>2. executed' = executed \cup {i}
        BY <2>4, <3>3 DEF Run
      <4>3. Promise!Perform(i)
        BY <3>1, <3>3, <4>1, <4>2 DEF Promise!Perform, Pending
      <4> QED BY <3>3, <4>1, <4>3
    <3>4. CASE ~(ok /\ i \in Queued)
      <4>1. executed' = executed
        BY <2>4, <3>2, <3>4 DEF Run, NothingLost
      <4> QED BY <2>1, <3>1, <4>1
    <3> QED BY <3>3, <3>4
  <2>5. ASSUME NEW d \in Drainers, NEW i \in todo[d], IsCurrent(d, i),
               phase[d] = "settle", rows' = SettledRows(d, i),
               enqueued' = enqueued, executed' = executed
        PROVE  (\E done \in SUBSET Promise!Units : Promise!Retire(done)) \/ UNCHANGED Promise!work
    <3>1. i \in 1..enqueued
      BY DEF TypeOK
    <3>2. CASE okay[d] /\ Holds(d, i)
      <4>1. i \in executed /\ i \in Queued
        BY <2>5, <3>1, <3>2 DEF OkayIsExecuted, Holds
      <4>2. rows' = Without(i)
        BY <2>5, <3>2 DEF SettledRows
      <4>3. Pending' = [v \in Queued \ {i} |-> Pending[v]]
        BY <4>2 DEF Without, Pending, Queued
      <4>4. Promise!Units = Queued
        BY DEF Promise!Units
      <4>5. Promise!Retire({i})
        BY <2>5, <4>1, <4>3, <4>4 DEF Promise!Retire, Pending
      <4> QED BY <4>1, <4>4, <4>5
    <3>3. CASE ~(okay[d] /\ Holds(d, i))
      <4>1. Queued' = Queued /\ \A j \in Queued : rows'[j].key = rows[j].key
        BY <2>5, <3>1, <3>3, SettledRowsShape DEF Queued
      <4> QED BY <2>1, <2>5, <4>1, SamePending
    <3> QED BY <3>2, <3>3
  <2>6. ASSUME NEW d \in Drainers, NEW i \in todo[d], Settle(d, i)
        PROVE  (\E done \in SUBSET Promise!Units : Promise!Retire(done)) \/ UNCHANGED Promise!work
    BY <2>5, <2>6 DEF Settle
  <2>7. ASSUME NEW d \in Drainers, NEW i \in todo[d], TornSettle(d, i)
        PROVE  (\E done \in SUBSET Promise!Units : Promise!Retire(done)) \/ UNCHANGED Promise!work
    BY <2>5, <2>7 DEF TornSettle, Die
  <2>8. ASSUME NEW d \in Drainers, Crash(d) PROVE UNCHANGED Promise!work
    BY <2>1, <2>8, SamePending DEF Crash, Die, files, Queued
  <2>9. ASSUME Tick PROVE UNCHANGED Promise!work
    <3>1. Queued' = Queued /\ enqueued' = enqueued /\ executed' = executed
      BY <2>9 DEF Tick, Queued
    <3>2. \A i \in Queued : rows'[i].key = rows[i].key
      BY <2>9 DEF Tick, TypeOK, Row
    <3> QED BY <2>1, <3>1, <3>2, SamePending
  <2>10. ASSUME UNCHANGED vars PROVE UNCHANGED Promise!work
    BY <2>1, <2>10, SamePending DEF vars, Queued
  <2> QED
    BY <2>2, <2>3, <2>4, <2>6, <2>7, <2>8, <2>9, <2>10
    DEF Next, Drain, Promise!Step
<1> QED
  BY <1>1, <1>2, InvariantHolds, PTL
  DEF Spec, ImplementsDurableWork, Promise!AtLeastOnce

=============================================================================
