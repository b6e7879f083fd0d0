------------------------ MODULE CompactionQueueProofs ------------------------
(***************************************************************************)
(* Proofs about CompactionQueue.                                           *)
(*                                                                         *)
(* For any number of processes: the types.                                 *)
(*                                                                         *)
(* For one process that is not killed while it writes the queue file: no   *)
(* queued flush is lost, and the queue implements DurableWork.  The list   *)
(* a drain holds is older than the file it is written over; that it may    *)
(* be written rests on what the file holds besides having been flushed.    *)
(***************************************************************************)
EXTENDS CompactionQueue, FiniteSetTheorems, WellFoundedInduction, TLAPS

-----------------------------------------------------------------------------
(* The first and the newest of the items                                    *)

LEMMA FirstIsOne ==
    ASSUME NEW S \in SUBSET Nat, S # {}
    PROVE  First(S) \in S /\ \A j \in S : First(S) <= j
<1> DEFINE R == OpToRel(<, Nat)
<1>1. PICK m \in S : \A j \in S : <<j, m>> \notin R
  <2>1. IsWellFoundedOn(R, Nat)
    BY NatLessThanWellFounded
  <2> HIDE DEF R
  <2> QED BY <2>1, WFMin
<1>2. \A j \in S : m <= j
  <2> TAKE j \in S
  <2>1. ~(j < m)
    BY <1>1 DEF OpToRel
  <2> QED BY <2>1
<1> QED BY <1>2 DEF First

LEMMA NewestIsOne ==
    ASSUME NEW n \in Nat, NEW S \in SUBSET (0..n), S # {}
    PROVE  Newest(S) \in S /\ \A j \in S : j <= Newest(S)
<1> DEFINE U == {x \in Nat : n - x \in S}
           u == First(U)
<1>1. U \in SUBSET Nat /\ U # {}
  <2>1. PICK k \in S : TRUE
    OBVIOUS
  <2>2. n - (n - k) = k /\ n - k \in Nat
    BY <2>1
  <2> QED BY <2>1, <2>2
<1>2. u \in U /\ \A v \in U : u <= v
  <2> HIDE DEF U
  <2> QED BY <1>1, FirstIsOne
<1>3. ASSUME NEW k \in S PROVE k <= n - u
  <2>1. n - (n - k) = k /\ n - k \in Nat
    OBVIOUS
  <2>2. u <= n - k
    BY <1>2, <2>1
  <2> QED BY <1>2, <2>2
<1>4. n - u \in S
  BY <1>2
<1>5. \E m \in S : \A j \in S : m >= j
  <2> HIDE DEF u
  <2>1. \A j \in S : n - u >= j
    BY <1>3, <1>2, <1>4
  <2> QED BY <1>4, <2>1
<1> QED BY <1>5 DEF Newest

-----------------------------------------------------------------------------
(* Lists                                                                    *)

LEMMA ListShape ==
    ASSUME NEW list
    PROVE  list \in Lists <=>
             /\ DOMAIN list \subseteq Ids
             /\ list \in [DOMAIN list -> BOOLEAN]
<1>1. ASSUME list \in Lists
      PROVE  DOMAIN list \subseteq Ids /\ list \in [DOMAIN list -> BOOLEAN]
  <2>1. PICK S \in SUBSET Ids : list \in [S -> BOOLEAN]
    BY <1>1 DEF Lists
  <2> QED BY <2>1
<1>2. ASSUME DOMAIN list \subseteq Ids, list \in [DOMAIN list -> BOOLEAN]
      PROVE  list \in Lists
  BY <1>2 DEF Lists
<1> QED BY <1>1, <1>2

LEMMA ListSteps ==
    ASSUME NEW list \in Lists
    PROVE  /\ Empty \in Lists /\ DOMAIN Empty = {}
           /\ \A i \in Ids : /\ Put(list, i) \in Lists
                             /\ DOMAIN Put(list, i) = DOMAIN list \cup {i}
           /\ \A i : /\ Without(list, i) \in Lists
                     /\ DOMAIN Without(list, i) = DOMAIN list \ {i}
           /\ \A i : /\ [list EXCEPT ![i] = TRUE] \in Lists
                     /\ DOMAIN [list EXCEPT ![i] = TRUE] = DOMAIN list
<1>1. DOMAIN list \subseteq Ids /\ list \in [DOMAIN list -> BOOLEAN]
  BY ListShape
<1>2. DOMAIN Empty = {} /\ Empty \in [DOMAIN Empty -> BOOLEAN]
  BY DEF Empty
<1>3. ASSUME NEW i \in Ids
      PROVE  /\ DOMAIN Put(list, i) = DOMAIN list \cup {i}
             /\ Put(list, i) \in [DOMAIN Put(list, i) -> BOOLEAN]
  BY <1>1 DEF Put
<1>4. ASSUME NEW i
      PROVE  /\ DOMAIN Without(list, i) = DOMAIN list \ {i}
             /\ Without(list, i) \in [DOMAIN Without(list, i) -> BOOLEAN]
  BY <1>1 DEF Without
<1>5. ASSUME NEW i
      PROVE  /\ DOMAIN [list EXCEPT ![i] = TRUE] = DOMAIN list
             /\ [list EXCEPT ![i] = TRUE] \in [DOMAIN list -> BOOLEAN]
  BY <1>1
<1>6. Empty \in Lists
  BY <1>2, ListShape
<1>7. \A i \in Ids : Put(list, i) \in Lists
  BY <1>1, <1>3, ListShape
<1>8. \A i : Without(list, i) \in Lists
  BY <1>1, <1>4, ListShape
<1>9. \A i : [list EXCEPT ![i] = TRUE] \in Lists
  BY <1>1, <1>5, ListShape
<1> QED BY <1>2, <1>3, <1>4, <1>5, <1>6, <1>7, <1>8, <1>9

-----------------------------------------------------------------------------
(* The types, and what a list may hold                                      *)

Call == [at: Steps, list: Lists, todo: SUBSET Ids, done: 0..MaxItems, state: Breaker]

\* What is in a file or in memory was issued; an enqueue writes its item.
Issued ==
    /\ DOMAIN queue \subseteq 1..issued
    /\ \A p \in Processes : DOMAIN proc[p].list \subseteq 1..issued
Written ==
    \A p \in Processes : proc[p].at \in {"clear", "fill"} => DOMAIN proc[p].list # {}

Inv == TypeOK /\ proc \in [Processes -> Call] /\ Issued /\ Written

LEMMA ConstantTypes ==
    /\ Closed \in Breaker
    /\ Idle \in Call /\ Idle.at = "idle" /\ Idle.todo = {} /\ DOMAIN Idle.list = {}
<1>1. Closed \in Breaker
  BY CompactionBounds DEF Closed, Breaker
<1>2. Empty \in Lists /\ DOMAIN Empty = {}
  BY DEF Empty, Lists
<1>3. 0 \in 0..MaxItems
  BY CompactionBounds
<1>4. "idle" \in Steps
  BY DEF Steps
<1> QED BY <1>1, <1>2, <1>3, <1>4 DEF Idle, Call

\* A call that one process's step leaves well typed and with issued items in its
\* list, all else unchanged but what the step may change of the files.
LEMMA CallStep ==
    ASSUME Inv, NEW p \in Processes, NEW c \in Call,
           proc' = [proc EXCEPT ![p] = c],
           c.todo \subseteq DOMAIN c.list,
           DOMAIN c.list \subseteq 1..issued',
           c.at \in {"clear", "fill"} => DOMAIN c.list # {},
           queue' \in Lists, DOMAIN queue' \subseteq 1..issued',
           breaker' \in Breaker,
           issued' \in 0..MaxEnqueues, issued <= issued',
           crashes' \in 0..MaxCrashes,
           accepted' \subseteq Ids, performed' \subseteq Ids
    PROVE  Inv'
<1>1. proc' \in [Processes -> Call]
  BY DEF Inv
<1>2. proc'[p] = c /\ \A q \in Processes \ {p} : proc'[q] = proc[q]
  BY DEF Inv
<1>3. TypeOK'
  <2>1. ASSUME NEW q \in Processes
        PROVE  /\ proc'[q].at \in Steps /\ proc'[q].list \in Lists
               /\ proc'[q].done \in 0..MaxItems /\ proc'[q].state \in Breaker
    <3>1. proc'[q] \in Call
      BY <1>1
    <3> QED BY <3>1 DEF Call
  <2>2. ASSUME NEW q \in Processes PROVE proc'[q].todo \subseteq DOMAIN proc'[q].list
    BY <1>2 DEF Inv, TypeOK
  <2> QED BY <2>1, <2>2 DEF TypeOK
<1>4. Issued'
  <2>1. 1..issued \subseteq 1..issued'
    BY CompactionBounds DEF Inv, TypeOK
  <2>2. ASSUME NEW q \in Processes PROVE DOMAIN proc'[q].list \subseteq 1..issued'
    BY <1>2, <2>1 DEF Inv, Issued
  <2> QED BY <2>2 DEF Issued
<1>5. Written'
  BY <1>2 DEF Inv, Written
<1> QED BY <1>1, <1>3, <1>4, <1>5 DEF Inv

LEMMA InvInit == Init => Inv
<1> SUFFICES ASSUME Init PROVE Inv
  OBVIOUS
<1>1. proc \in [Processes -> Call] /\ \A p \in Processes : proc[p] = Idle
  BY ConstantTypes DEF Init
<1>2. Empty \in Lists /\ DOMAIN Empty = {}
  BY DEF Empty, Lists
<1>3. TypeOK
  BY <1>1, <1>2, ConstantTypes, CompactionBounds DEF Init, TypeOK, Call
<1>4. Issued /\ Written
  BY <1>1, <1>2, ConstantTypes DEF Init, Issued, Written
<1> QED BY <1>1, <1>3, <1>4 DEF Inv

LEMMA InvNext == Inv /\ [Next]_compactionVars => Inv'
<1> SUFFICES ASSUME Inv, [Next]_compactionVars PROVE Inv'
  OBVIOUS
<1>t. /\ queue \in Lists /\ DOMAIN queue \subseteq 1..issued
      /\ breaker \in Breaker /\ issued \in 0..MaxEnqueues /\ crashes \in 0..MaxCrashes
      /\ accepted \subseteq Ids /\ performed \subseteq Ids
      /\ issued <= issued /\ MaxEnqueues \in Nat /\ MaxCrashes \in Nat /\ MaxItems \in Nat
  BY CompactionBounds DEF Inv, TypeOK, Issued
<1>c. ASSUME NEW p \in Processes
      PROVE  /\ proc[p] \in Call /\ proc[p].todo \subseteq DOMAIN proc[p].list
             /\ proc[p].list \in Lists
             /\ DOMAIN proc[p].list \subseteq 1..issued
             /\ DOMAIN proc[p].list \subseteq Ids
             /\ proc[p].at \in {"clear", "fill"} => DOMAIN proc[p].list # {}
  <2>1. proc[p] \in Call /\ DOMAIN proc[p].list \subseteq Ids
    BY ListShape DEF Inv, TypeOK
  <2> QED BY <2>1 DEF Inv, TypeOK, Issued, Written
<1>e. Empty \in Lists /\ DOMAIN Empty = {}
  BY DEF Empty, Lists
\* A process that has returned.
<1>i. ASSUME NEW p \in Processes, proc' = [proc EXCEPT ![p] = Idle],
             queue' \in Lists, DOMAIN queue' \subseteq 1..issued, breaker' \in Breaker,
             issued' = issued, crashes' \in 0..MaxCrashes,
             accepted' \subseteq Ids, performed' = performed
      PROVE  Inv'
  BY <1>i, <1>t, ConstantTypes, CallStep
\* A process that goes on with the same list.
<1>g. ASSUME NEW p \in Processes, NEW step \in Steps, Goto(p, step),
             step \in {"clear", "fill"} => DOMAIN proc[p].list # {},
             queue' \in Lists, DOMAIN queue' \subseteq 1..issued, breaker' \in Breaker,
             UNCHANGED <<issued, accepted, performed, crashes>>
      PROVE  Inv'
  <2> DEFINE c == [proc[p] EXCEPT !.at = step]
  <2>1. c \in Call /\ c.todo = proc[p].todo /\ c.list = proc[p].list /\ c.at = step
    BY <1>c DEF Call
  <2>2. proc' = [proc EXCEPT ![p] = c]
    BY <1>g DEF Goto
  <2> HIDE DEF c
  <2> QED BY <1>g, <1>t, <1>c, <2>1, <2>2, CallStep
<1>1. ASSUME NEW p \in Processes, Enqueue(p) PROVE Inv'
  <2> DEFINE c == [Idle EXCEPT !.at = "clear", !.list = Put(queue, issued + 1)]
  <2>1. issued + 1 \in Ids /\ issued + 1 \in 0..MaxEnqueues
    BY <1>1, <1>t DEF Enqueue, Ids
  <2>2. /\ Put(queue, issued + 1) \in Lists
        /\ DOMAIN Put(queue, issued + 1) = DOMAIN queue \cup {issued + 1}
    BY <1>t, <2>1, ListSteps
  <2>3. c \in Call /\ c.todo = {} /\ c.list = Put(queue, issued + 1)
    BY <2>2, ConstantTypes DEF Call, Steps
  <2>4. DOMAIN c.list \subseteq 1..(issued + 1) /\ DOMAIN c.list # {}
    BY <1>t, <2>2, <2>3
  <2>5. proc' = [proc EXCEPT ![p] = c]
    BY <1>1 DEF Enqueue
  <2>6. /\ issued' = issued + 1 /\ issued <= issued' /\ DOMAIN queue \subseteq 1..(issued + 1)
        /\ UNCHANGED <<queue, breaker, accepted, performed, crashes>>
    BY <1>1, <1>t DEF Enqueue
  <2> HIDE DEF c
  <2> QED BY <1>t, <2>1, <2>3, <2>4, <2>5, <2>6, CallStep
<1>2. ASSUME NEW p \in Processes, Truncate(p) PROVE Inv'
  <2>1. DOMAIN proc[p].list # {} /\ "fill" \in Steps
    BY <1>2, <1>c DEF Truncate, At, Steps
  <2> QED BY <1>2, <1>g, <1>t, <1>e, <2>1 DEF Truncate
<1>3. ASSUME NEW p \in Processes, Fill(p) PROVE Inv'
  <2>1. DOMAIN proc[p].list # {} /\ DOMAIN proc[p].list \subseteq 0..issued
    BY <1>3, <1>c, <1>t DEF Fill, At
  <2>2. Newest(DOMAIN proc[p].list) \in Ids
    BY <1>c, <1>t, <2>1, NewestIsOne
  <2> QED BY <1>3, <1>i, <1>t, <1>c, <2>2 DEF Fill
<1>4. ASSUME NEW p \in Processes, ReadQueue(p) PROVE Inv'
  <2> DEFINE c == [Idle EXCEPT !.at = "state", !.list = queue]
  <2>1. c \in Call /\ c.todo = {} /\ c.list = queue /\ c.at = "state"
    BY <1>t, ConstantTypes DEF Call, Steps
  <2>2. proc' = [proc EXCEPT ![p] = c]
    BY <1>4 DEF ReadQueue
  <2>3. UNCHANGED <<queue, breaker, issued, accepted, performed, crashes>>
    BY <1>4 DEF ReadQueue
  <2> HIDE DEF c
  <2> QED BY <1>t, <2>1, <2>2, <2>3, CallStep
<1>5. ASSUME NEW p \in Processes, Refuse(p) PROVE Inv'
  BY <1>5, <1>i, <1>t DEF Refuse
<1>6. ASSUME NEW p \in Processes, NEW due \in SUBSET DOMAIN proc[p].list, Begin(p, due)
      PROVE  Inv'
  <2> DEFINE c == [proc[p] EXCEPT !.at = "work", !.state = breaker, !.todo = due]
  <2>1. /\ c \in Call /\ c.todo \subseteq DOMAIN c.list /\ c.list = proc[p].list
        /\ c.at = "work"
    BY <1>t, <1>c DEF Call, Steps
  <2>2. proc' = [proc EXCEPT ![p] = c]
    BY <1>6 DEF Begin, Inv
  <2>3. UNCHANGED <<queue, breaker, issued, accepted, performed, crashes>>
    BY <1>6 DEF Begin
  <2> HIDE DEF c
  <2> QED BY <1>t, <1>c, <2>1, <2>2, <2>3, CallStep
<1>7. ASSUME NEW p \in Processes, NEW ok \in BOOLEAN, Flush(p, ok) PROVE Inv'
  <2> DEFINE i == Current(p)
  <2>1. i \in proc[p].todo /\ i \in Ids
    <3>1. proc[p].todo \in SUBSET Nat /\ proc[p].todo # {}
      BY <1>7, <1>c, <1>t DEF Flush, Working
    <3>2. First(proc[p].todo) \in proc[p].todo
      BY <3>1, FirstIsOne
    <3> QED BY <1>c, <3>2 DEF Current
  <2>2. /\ UNCHANGED <<queue, breaker, issued, accepted, crashes>>
        /\ performed' \subseteq Ids
    BY <1>7, <1>t, <2>1 DEF Flush
  <2>3. proc[p].at = "work" /\ proc[p].done < MaxItems
    BY <1>7 DEF Flush, Working, At
  <2> HIDE DEF i
  <2>4. /\ Without(proc[p].list, i) \in Lists
        /\ DOMAIN Without(proc[p].list, i) = DOMAIN proc[p].list \ {i}
        /\ [proc[p].list EXCEPT ![i] = TRUE] \in Lists
        /\ DOMAIN [proc[p].list EXCEPT ![i] = TRUE] = DOMAIN proc[p].list
    BY <1>c, ListSteps
  <2>5. CASE ok
    <3> DEFINE c == [proc[p] EXCEPT !.todo = @ \ {i}, !.done = @ + 1, !.state = Closed,
                                    !.list = Without(@, i)]
    <3>1. proc' = [proc EXCEPT ![p] = c]
      BY <1>7, <2>5 DEF Flush, Flushed, i
    <3>2. proc[p].done + 1 \in 0..MaxItems
      BY <1>c, <1>t, <2>3 DEF Call
    <3>3. /\ c \in Call /\ c.todo \subseteq DOMAIN c.list /\ c.at = "work"
          /\ DOMAIN c.list \subseteq 1..issued
      BY <1>c, <2>3, <2>4, <3>2, ConstantTypes DEF Call
    <3> HIDE DEF c
    <3> QED BY <1>t, <2>2, <3>1, <3>3, CallStep
  <2>6. CASE ~ok
    <3> DEFINE failures == proc[p].state.failures + 1
               state == [failures |-> IF failures > Threshold THEN Threshold ELSE failures,
                         open |-> proc[p].state.open \/ failures >= Threshold]
               c == [proc[p] EXCEPT !.todo = @ \ {i}, !.state = state,
                                    !.list = [@ EXCEPT ![i] = TRUE]]
    <3>1. proc' = [proc EXCEPT ![p] = c]
      BY <1>7, <1>c, <2>6 DEF Flush, Failed, i, Call, Breaker
    <3>2. state \in Breaker
      BY <1>c, CompactionBounds DEF Call, Breaker
    <3> HIDE DEF state
    <3>3. /\ c \in Call /\ c.todo \subseteq DOMAIN c.list /\ c.at = "work"
          /\ DOMAIN c.list \subseteq 1..issued
      BY <1>c, <2>3, <2>4, <3>2 DEF Call
    <3> HIDE DEF c
    <3> QED BY <1>t, <2>2, <3>1, <3>3, CallStep
  <2> QED BY <2>5, <2>6
<1>8. ASSUME NEW p \in Processes, Save(p) PROVE Inv'
  <2>1. "save" \in Steps
    BY DEF Steps
  <2> QED BY <1>8, <1>g, <1>t, <1>e, <2>1 DEF Save
<1>9. ASSUME NEW p \in Processes, SaveQueue(p) PROVE Inv'
  <2>1. "store" \in Steps
    BY DEF Steps
  <2> QED BY <1>9, <1>g, <1>t, <1>c, <2>1 DEF SaveQueue
<1>10. ASSUME NEW p \in Processes, SaveState(p) PROVE Inv'
  <2>1. "fillState" \in Steps
    BY DEF Steps
  <2> QED BY <1>10, <1>g, <1>t, <2>1, ConstantTypes DEF SaveState
<1>11. ASSUME NEW p \in Processes, FillState(p) PROVE Inv'
  <2>1. proc[p].state \in Breaker
    BY <1>c DEF Call
  <2> QED BY <1>11, <1>i, <1>t, <2>1 DEF FillState
<1>12. ASSUME NEW p \in Processes, Crash(p) PROVE Inv'
  <2>1. crashes' \in 0..MaxCrashes
    BY <1>12, <1>t DEF Crash
  <2> QED BY <1>12, <1>i, <1>t, <2>1 DEF Crash
<1>13. ASSUME UNCHANGED compactionVars PROVE Inv'
  BY <1>13 DEF compactionVars, Inv, TypeOK, Issued, Written
<1> QED
  BY <1>1, <1>2, <1>3, <1>4, <1>5, <1>6, <1>7, <1>8, <1>9, <1>10, <1>11, <1>12, <1>13
  DEF Next, Produce, Drain

\* Whatever the processes do to the file, it parses to a list of issued items, a
\* breaker's failures stay within its threshold, and no drain flushes more than
\* max_items.
THEOREM TypeCorrect == Spec => []TypeOK
<1>1. Inv => TypeOK
  BY DEF Inv
<1> QED BY <1>1, InvInit, InvNext, PTL DEF Spec

-----------------------------------------------------------------------------
(* One process                                                              *)

\* What a call relies on of the file it read, as long as no other touches it: an
\* enqueue adds to what is there, and what a drain does not write back it flushed.
Relied ==
    \A p \in Processes :
      /\ proc[p].at = "clear" =>
           /\ issued \in Ids \ DOMAIN queue
           /\ proc[p].list = Put(queue, issued)
      /\ proc[p].at = "state" => proc[p].list = queue
      /\ proc[p].at = "work" =>
           /\ DOMAIN proc[p].list \subseteq DOMAIN queue
           /\ DOMAIN queue \ DOMAIN proc[p].list \subseteq performed

\* The steps at which one process may be killed: not while it writes the queue
\* file, and not after an item got its id but before the file was touched, which
\* the abstract queue would count as an item.
Killable == {"state", "work", "store", "fillState"}

\* An answered enqueue is pending or was flushed, whatever is under way.
Kept == accepted \subseteq DOMAIN Pending \cup performed

LEMMA OneAmongOne ==
    ASSUME NEW p, Processes = {p}, NEW calls, NEW S
    PROVE  /\ p \in Processes
           /\ {q \in Processes : calls[q].at \in S} = IF calls[p].at \in S THEN {p} ELSE {}
           /\ Cardinality({q \in Processes : calls[q].at = "clear"})
                = IF calls[p].at = "clear" THEN 1 ELSE 0
<1>1. CASE calls[p].at = "clear"
  <2>1. {q \in Processes : calls[q].at = "clear"} = {p}
    BY <1>1
  <2> QED BY <1>1, <2>1, FS_Singleton
<1>2. CASE calls[p].at # "clear"
  <2>1. {q \in Processes : calls[q].at = "clear"} = {}
    BY <1>2
  <2> QED BY <1>2, <2>1, FS_EmptySet
<1> QED BY <1>1, <1>2

\* One process's file is its queue, but for the list it is writing.
PendingOf(p) == IF proc[p].at \in {"fill", "save"} THEN proc[p].list ELSE queue

LEMMA PendingOfOne ==
    ASSUME NEW p, Processes = {p}
    PROVE  Pending = PendingOf(p) /\ Pending' = PendingOf(p)'
<1>1. (CHOOSE q \in {p} : TRUE) = p
  OBVIOUS
<1>2. Pending = PendingOf(p)
  <2>1. {q \in Processes : proc[q].at \in {"fill", "save"}}
          = IF proc[p].at \in {"fill", "save"} THEN {p} ELSE {}
    BY OneAmongOne
  <2> QED BY <1>1, <2>1 DEF Pending, PendingOf
<1>3. Pending' = PendingOf(p)'
  <2>1. {q \in Processes : proc'[q].at \in {"fill", "save"}}
          = IF proc'[p].at \in {"fill", "save"} THEN {p} ELSE {}
    BY OneAmongOne
  <2> QED BY <1>1, <2>1 DEF Pending, PendingOf
<1> QED BY <1>2, <1>3

\* Calls of drains that flush: what leaves the list was flushed just now.
LEMMA FlushStep ==
    ASSUME Inv, NEW p \in Processes, NEW ok \in BOOLEAN, Flush(p, ok)
    PROVE  /\ proc[p].at = "work" /\ proc'[p].at = "work"
           /\ Current(p) \in DOMAIN proc[p].list
           /\ ok => /\ DOMAIN proc'[p].list = DOMAIN proc[p].list \ {Current(p)}
                    /\ performed' = performed \cup {Current(p)}
           /\ ~ok => /\ DOMAIN proc'[p].list = DOMAIN proc[p].list
                     /\ performed' = performed
<1>1. proc \in [Processes -> Call] /\ proc[p] \in Call
  BY DEF Inv
<1>2. proc[p].at = "work" /\ proc[p].todo # {} /\ proc[p].todo \subseteq DOMAIN proc[p].list
  BY DEF Flush, Working, At, Inv, TypeOK
<1>3. proc[p].todo \in SUBSET Nat
  BY <1>1 DEF Call, Ids
<1>4. Current(p) \in proc[p].todo
  BY <1>2, <1>3, FirstIsOne DEF Current
<1>5. proc[p].list \in Lists
  BY <1>1 DEF Call
<1>6. CASE ok
  <2>1. proc'[p] = Flushed(p)
    BY <1>1, <1>6 DEF Flush
  <2>2. proc'[p].at = "work" /\ proc'[p].list = Without(proc[p].list, Current(p))
    BY <1>1, <1>2, <2>1 DEF Flushed, Call
  <2> QED BY <1>2, <1>4, <1>5, <1>6, <2>2, ListSteps DEF Flush
<1>7. CASE ~ok
  <2>1. proc'[p] = Failed(p)
    BY <1>1, <1>7 DEF Flush
  <2>2. /\ proc'[p].at = "work"
        /\ proc'[p].list = [proc[p].list EXCEPT ![Current(p)] = TRUE]
    BY <1>1, <1>2, <2>1 DEF Failed, Call
  <2> QED BY <1>2, <1>4, <1>5, <1>7, <2>2, ListSteps DEF Flush
<1> QED BY <1>6, <1>7

\* Where a step leaves its process.
LEMMA GoneTo ==
    ASSUME Inv, NEW p \in Processes
    PROVE  /\ Enqueue(p) => /\ proc'[p].at = "clear"
                            /\ proc'[p].list = Put(queue, issued + 1)
           /\ Truncate(p) => proc'[p].at = "fill" /\ proc'[p].list = proc[p].list
           /\ ReadQueue(p) => proc'[p].at = "state" /\ proc'[p].list = queue
           /\ \A due \in SUBSET DOMAIN proc[p].list :
                Begin(p, due) => proc'[p].at = "work" /\ proc'[p].list = proc[p].list
           /\ Save(p) => proc'[p].at = "save" /\ proc'[p].list = proc[p].list
           /\ SaveQueue(p) => proc'[p].at = "store"
           /\ SaveState(p) => proc'[p].at = "fillState"
           /\ Fill(p) \/ Refuse(p) \/ FillState(p) \/ Crash(p) => proc'[p].at = "idle"
<1>1. proc \in [Processes -> Call] /\ proc[p] \in Call
  BY DEF Inv
<1>2. ASSUME Enqueue(p)
      PROVE  proc'[p].at = "clear" /\ proc'[p].list = Put(queue, issued + 1)
  <2>1. proc'[p] = [Idle EXCEPT !.at = "clear", !.list = Put(queue, issued + 1)]
    BY <1>1, <1>2 DEF Enqueue
  <2> QED BY <2>1 DEF Idle
<1>3. ASSUME ReadQueue(p) PROVE proc'[p].at = "state" /\ proc'[p].list = queue
  <2>1. proc'[p] = [Idle EXCEPT !.at = "state", !.list = queue]
    BY <1>1, <1>3 DEF ReadQueue
  <2> QED BY <2>1 DEF Idle
<1>4. \A step : Goto(p, step) => proc'[p].at = step /\ proc'[p].list = proc[p].list
  BY <1>1 DEF Goto, Call
<1>5. ASSUME NEW due \in SUBSET DOMAIN proc[p].list, Begin(p, due)
      PROVE  proc'[p].at = "work" /\ proc'[p].list = proc[p].list
  BY <1>1, <1>5 DEF Begin, Call
<1>6. ASSUME Fill(p) \/ Refuse(p) \/ FillState(p) \/ Crash(p) PROVE proc'[p].at = "idle"
  <2>1. proc'[p] = Idle
    BY <1>1, <1>6 DEF Fill, Refuse, FillState, Crash
  <2> QED BY <2>1 DEF Idle
<1>7. /\ Truncate(p) => proc'[p].at = "fill" /\ proc'[p].list = proc[p].list
      /\ Save(p) => proc'[p].at = "save" /\ proc'[p].list = proc[p].list
      /\ SaveQueue(p) => proc'[p].at = "store"
      /\ SaveState(p) => proc'[p].at = "fillState"
  BY <1>4 DEF Truncate, Save, SaveQueue, SaveState
<1> QED BY <1>2, <1>3, <1>5, <1>6, <1>7

LEMMA ReliedNext ==
    ASSUME NEW p, Processes = {p}, Inv, Relied, [Next]_compactionVars
    PROVE  Relied'
<1>p. p \in Processes /\ \A q \in Processes : q = p
  OBVIOUS
<1> DEFINE R ==
      /\ proc[p].at = "clear" =>
           /\ issued \in Ids \ DOMAIN queue
           /\ proc[p].list = Put(queue, issued)
      /\ proc[p].at = "state" => proc[p].list = queue
      /\ proc[p].at = "work" =>
           /\ DOMAIN proc[p].list \subseteq DOMAIN queue
           /\ DOMAIN queue \ DOMAIN proc[p].list \subseteq performed
<1>r. R /\ (R' => Relied')
  BY <1>p DEF Relied
<1>1. CASE Enqueue(p)
  <2>1. issued + 1 \in Ids /\ issued + 1 \notin DOMAIN queue
    BY <1>1, CompactionBounds DEF Inv, Issued, TypeOK, Enqueue, Ids
  <2> QED BY <1>1, <1>p, <1>r, <2>1, GoneTo DEF Enqueue
<1>2. CASE Truncate(p) \/ Fill(p) \/ Refuse(p) \/ Save(p) \/ SaveQueue(p) \/ SaveState(p)
           \/ FillState(p) \/ Crash(p)
  <2>1. proc'[p].at \notin {"clear", "state", "work"}
    BY <1>2, <1>p, GoneTo
  <2> QED BY <1>r, <2>1
<1>3. CASE ReadQueue(p)
  BY <1>3, <1>p, <1>r, GoneTo DEF ReadQueue
<1>4. ASSUME NEW due \in SUBSET DOMAIN proc[p].list, Begin(p, due) PROVE Relied'
  <2>1. proc'[p].at = "work" /\ proc'[p].list = proc[p].list /\ queue' = queue
    BY <1>4, <1>p, GoneTo DEF Begin
  <2>2. proc[p].list = queue
    BY <1>4, <1>r DEF Begin, At
  <2> QED BY <1>r, <2>1, <2>2
<1>5. ASSUME NEW ok \in BOOLEAN, Flush(p, ok) PROVE Relied'
  <2>1. queue' = queue /\ issued' = issued
    BY <1>5 DEF Flush
  <2> QED BY <1>5, <1>p, <1>r, <2>1, FlushStep
<1>6. CASE UNCHANGED compactionVars
  BY <1>6 DEF compactionVars, Relied
<1> QED
  BY <1>1, <1>2, <1>3, <1>4, <1>5, <1>6, <1>p DEF Next, Produce, Drain

LEMMA ReliedInit == Init => Relied
BY DEF Init, Relied, Idle

\* An item leaves the file only when it was flushed.
LEMMA KeptNext ==
    ASSUME NEW p, Processes = {p}, KilledAt \cap {"fill", "save"} = {},
           Inv, Relied, Kept, [Next]_compactionVars
    PROVE  Kept'
<1>p. p \in Processes /\ \A q \in Processes : q = p
  OBVIOUS
<1>k. accepted \subseteq DOMAIN PendingOf(p) \cup performed
  BY PendingOfOne DEF Kept
<1>s. ASSUME accepted' \subseteq DOMAIN PendingOf(p)' \cup performed' PROVE Kept'
  BY <1>s, PendingOfOne DEF Kept
<1> USE DEF PendingOf
<1>1. CASE Enqueue(p)
  BY <1>1, <1>p, <1>k, <1>s, GoneTo DEF Enqueue, At
<1>2. CASE Truncate(p)
  <2>1. DOMAIN proc[p].list = DOMAIN queue \cup {issued} /\ proc[p].at = "clear"
    BY <1>2, <1>p, ListSteps DEF Relied, Truncate, At, Inv, TypeOK
  <2> QED BY <1>2, <1>p, <1>k, <1>s, <2>1, GoneTo DEF Truncate
<1>3. CASE Fill(p)
  <2>1. Newest(DOMAIN proc[p].list) \in DOMAIN proc[p].list
    <3>1. DOMAIN proc[p].list # {} /\ DOMAIN proc[p].list \subseteq 0..issued
      BY <1>3, <1>p DEF Fill, At, Inv, Issued, Written
    <3> QED BY <3>1, NewestIsOne DEF Inv, TypeOK
  <2> QED BY <1>3, <1>p, <1>k, <1>s, <2>1, GoneTo DEF Fill, At
<1>4. CASE ReadQueue(p)
  BY <1>4, <1>p, <1>k, <1>s, GoneTo DEF ReadQueue, At
<1>5. CASE Refuse(p)
  BY <1>5, <1>p, <1>k, <1>s, GoneTo DEF Refuse, At
<1>6. ASSUME NEW due \in SUBSET DOMAIN proc[p].list, Begin(p, due) PROVE Kept'
  BY <1>6, <1>p, <1>k, <1>s, GoneTo DEF Begin, At
<1>7. ASSUME NEW ok \in BOOLEAN, Flush(p, ok) PROVE Kept'
  <2>1. queue' = queue /\ accepted' = accepted
    BY <1>7 DEF Flush
  <2> QED BY <1>7, <1>p, <1>k, <1>s, <2>1, FlushStep
<1>8. CASE Save(p)
  <2>1. DOMAIN queue \ DOMAIN proc[p].list \subseteq performed /\ proc[p].at = "work"
    BY <1>8, <1>p DEF Save, At, Relied
  <2> QED BY <1>8, <1>p, <1>k, <1>s, <2>1, GoneTo DEF Save
<1>9. CASE SaveQueue(p)
  BY <1>9, <1>p, <1>k, <1>s, GoneTo DEF SaveQueue, At
<1>10. CASE SaveState(p)
  BY <1>10, <1>p, <1>k, <1>s, GoneTo DEF SaveState, At
<1>11. CASE FillState(p)
  BY <1>11, <1>p, <1>k, <1>s, GoneTo DEF FillState, At
<1>12. CASE Crash(p)
  <2>1. proc[p].at \notin {"fill", "save"}
    BY <1>12 DEF Crash
  <2> QED BY <1>12, <1>p, <1>k, <1>s, <2>1, GoneTo DEF Crash
<1>13. CASE UNCHANGED compactionVars
  BY <1>13, <1>k, <1>s DEF compactionVars
<1> QED
  BY <1>1, <1>2, <1>3, <1>4, <1>5, <1>6, <1>7, <1>8, <1>9, <1>10, <1>11, <1>12, <1>13, <1>p
  DEF Next, Produce, Drain

LEMMA OneInvariant ==
    ASSUME NEW p, Processes = {p}
    PROVE  Spec => [](Inv /\ Relied)
BY InvInit, InvNext, ReliedInit, ReliedNext, PTL DEF Spec

\* One process that is not killed between truncating the queue file and filling
\* it loses no flush whose enqueue was answered, wherever else it is killed.  Each
\* hypothesis is needed: with two processes, and with a kill at "fill" or "save",
\* TLC finds a lost item.
THEOREM OneProcessKeeps ==
    ASSUME NEW p, Processes = {p}, KilledAt \cap {"fill", "save"} = {}
    PROVE  Spec => []QueuedIsKept
<1>1. Init => Kept
  BY DEF Init, Kept
<1>2. Inv /\ Relied /\ Kept /\ [Next]_compactionVars => Kept'
  BY KeptNext
<1>3. Kept => QueuedIsKept
  <2>1. p \in Processes
    OBVIOUS
  <2> QED BY <2>1, PendingOfOne DEF Kept, QueuedIsKept, PendingOf, At
<1> QED BY <1>1, <1>2, <1>3, OneInvariant, PTL DEF Spec

-----------------------------------------------------------------------------
(* Refinement                                                               *)

Answered(p) == issued - (IF proc[p].at = "clear" THEN 1 ELSE 0)
Units(p) == [i \in DOMAIN PendingOf(p) |-> 0]

\* The steps of the abstract queue, in terms of one process's file.
LEMMA WorkOfOne ==
    ASSUME NEW p, Processes = {p}
    PROVE  /\ issued - Cardinality({q \in Processes : proc[q].at = "clear"}) = Answered(p)
           /\ (issued - Cardinality({q \in Processes : proc[q].at = "clear"}))' = Answered(p)'
           /\ [i \in DOMAIN Pending |-> 0] = Units(p)
           /\ [i \in DOMAIN Pending |-> 0]' = Units(p)'
           /\ DOMAIN Units(p) = DOMAIN PendingOf(p)
<1>1. issued - Cardinality({q \in Processes : proc[q].at = "clear"}) = Answered(p)
  BY OneAmongOne DEF Answered
<1>2. (issued - Cardinality({q \in Processes : proc[q].at = "clear"}))' = Answered(p)'
  <2>1. Cardinality({q \in Processes : proc'[q].at = "clear"})
          = IF proc'[p].at = "clear" THEN 1 ELSE 0
    BY OneAmongOne
  <2> QED BY <2>1 DEF Answered
<1>3. [i \in DOMAIN Pending |-> 0] = Units(p)
  BY PendingOfOne DEF Units
<1>4. [i \in DOMAIN Pending |-> 0]' = Units(p)'
  BY PendingOfOne DEF Units
<1> QED BY <1>1, <1>2, <1>3, <1>4 DEF Units

LEMMA WorkSteps ==
    ASSUME NEW p, Processes = {p}
    PROVE  /\ /\ Answered(p)' = Answered(p) /\ performed' = performed
              /\ DOMAIN PendingOf(p)' = DOMAIN PendingOf(p)
              => UNCHANGED Promise!work
           /\ /\ Answered(p)' = Answered(p) + 1 /\ performed' = performed
              /\ DOMAIN PendingOf(p)' = DOMAIN PendingOf(p) \cup {Answered(p) + 1}
              => Promise!Submit(0)
           /\ \A i \in DOMAIN PendingOf(p) :
                /\ Answered(p)' = Answered(p) /\ performed' = performed \cup {i}
                /\ DOMAIN PendingOf(p)' = DOMAIN PendingOf(p)
                => Promise!Perform(i)
           /\ \A done \in SUBSET (DOMAIN PendingOf(p) \cap performed) :
                /\ Answered(p)' = Answered(p) /\ performed' = performed
                /\ DOMAIN PendingOf(p)' = DOMAIN PendingOf(p) \ done
                => Promise!Retire(done)
           /\ Promise!Units = DOMAIN PendingOf(p)
<1>w. /\ issued - Cardinality({q \in Processes : proc[q].at = "clear"}) = Answered(p)
      /\ (issued - Cardinality({q \in Processes : proc[q].at = "clear"}))' = Answered(p)'
      /\ [i \in DOMAIN Pending |-> 0] = Units(p)
      /\ [i \in DOMAIN Pending |-> 0]' = Units(p)'
      /\ DOMAIN Units(p) = DOMAIN PendingOf(p)
  BY WorkOfOne
<1>u. Promise!Units = DOMAIN PendingOf(p)
  BY <1>w DEF Promise!Units
<1>1. ASSUME Answered(p)' = Answered(p), performed' = performed,
             DOMAIN PendingOf(p)' = DOMAIN PendingOf(p)
      PROVE  UNCHANGED Promise!work
  <2>1. Units(p)' = Units(p)
    BY <1>1 DEF Units
  <2> QED BY <1>1, <1>w, <2>1 DEF Promise!work
<1>2. ASSUME Answered(p)' = Answered(p) + 1, performed' = performed,
             DOMAIN PendingOf(p)' = DOMAIN PendingOf(p) \cup {Answered(p) + 1}
      PROVE  Promise!Submit(0)
  <2>1. Units(p)' = [i \in DOMAIN PendingOf(p) \cup {Answered(p) + 1} |->
                       IF i = Answered(p) + 1 THEN 0 ELSE Units(p)[i]]
    BY <1>2 DEF Units
  <2> QED BY <1>2, <1>w, <1>u, <2>1 DEF Promise!Submit
<1>3. ASSUME NEW i \in DOMAIN PendingOf(p), performed' = performed \cup {i},
             Answered(p)' = Answered(p), DOMAIN PendingOf(p)' = DOMAIN PendingOf(p)
      PROVE  Promise!Perform(i)
  <2>1. Units(p)' = Units(p)
    BY <1>3 DEF Units
  <2> QED BY <1>3, <1>w, <1>u, <2>1 DEF Promise!Perform
<1>4. ASSUME NEW done \in SUBSET (DOMAIN PendingOf(p) \cap performed),
             Answered(p)' = Answered(p), performed' = performed,
             DOMAIN PendingOf(p)' = DOMAIN PendingOf(p) \ done
      PROVE  Promise!Retire(done)
  <2>1. Units(p)' = [i \in DOMAIN PendingOf(p) \ done |-> Units(p)[i]]
    BY <1>4 DEF Units
  <2> QED BY <1>4, <1>w, <1>u, <2>1 DEF Promise!Retire
<1> QED BY <1>u, <1>1, <1>2, <1>3, <1>4

\* One process that is killed at no step but those of Killable keeps the promise of
\* DurableWork, whatever fails, backs off or is refused: truncating an enqueue's
\* file accepts a flush, running one performs it, truncating a drain's file
\* retires those that it ran.
THEOREM QueueImplementsDurableWork ==
    ASSUME NEW p, Processes = {p}, KilledAt \subseteq Killable
    PROVE  Spec => ImplementsDurableWork
<1>p. p \in Processes /\ \A q \in Processes : q = p
  OBVIOUS
<1>1. Init => Promise!Start
  <2> SUFFICES ASSUME Init PROVE Promise!Start
    OBVIOUS
  <2>1. issued = 0 /\ performed = {} /\ queue = Empty /\ proc[p].at = "idle"
    BY <1>p DEF Init, Idle
  <2>2. Answered(p) = 0 /\ DOMAIN PendingOf(p) = {}
    BY <2>1 DEF Answered, PendingOf, Empty
  <2>3. Units(p) = [i \in {} |-> 0]
    BY <2>2 DEF Units
  <2> QED BY <2>1, <2>2, <2>3, WorkOfOne DEF Promise!Start
<1>2. Inv /\ Relied /\ [Next]_compactionVars => [Promise!Step]_(Promise!work)
  <2> SUFFICES ASSUME Inv, Relied, [Next]_compactionVars
               PROVE  [Promise!Step]_(Promise!work)
    OBVIOUS
  <2>s. ASSUME Answered(p)' = Answered(p), performed' = performed,
               DOMAIN PendingOf(p)' = DOMAIN PendingOf(p)
        PROVE  UNCHANGED Promise!work
    BY <2>s, WorkSteps
  <2> USE DEF PendingOf, Answered
  <2>1. CASE Enqueue(p)
    <3>1. issued \in Nat /\ issued' = issued + 1
      BY <2>1 DEF Enqueue, Inv, TypeOK
    <3> QED BY <2>1, <2>s, <1>p, <3>1, GoneTo DEF Enqueue, At
  <2>2. CASE Truncate(p)
    <3>1. DOMAIN proc[p].list = DOMAIN queue \cup {issued} /\ proc[p].at = "clear"
      BY <2>2, <1>p, ListSteps DEF Relied, Truncate, At, Inv, TypeOK
    <3>2. /\ Answered(p) = issued - 1 /\ Answered(p)' = issued /\ issued \in Int
          /\ performed' = performed
          /\ DOMAIN PendingOf(p)' = DOMAIN PendingOf(p) \cup {issued}
      BY <2>2, <1>p, <3>1, GoneTo DEF Truncate, Inv, TypeOK
    <3>3. Promise!Submit(0)
      <4> HIDE DEF PendingOf, Answered
      <4>1. Answered(p) + 1 = issued
        BY <3>2
      <4> QED BY <3>2, <4>1, WorkSteps
    <3> QED BY <3>3 DEF Promise!Step
  <2>3. CASE Fill(p)
    BY <2>3, <2>s, <1>p, GoneTo DEF Fill, At
  <2>4. CASE ReadQueue(p)
    BY <2>4, <2>s, <1>p, GoneTo DEF ReadQueue, At
  <2>5. CASE Refuse(p)
    BY <2>5, <2>s, <1>p, GoneTo DEF Refuse, At
  <2>6. ASSUME NEW due \in SUBSET DOMAIN proc[p].list, Begin(p, due)
        PROVE  UNCHANGED Promise!work
    BY <2>6, <2>s, <1>p, GoneTo DEF Begin, At
  <2>7. ASSUME NEW ok \in BOOLEAN, Flush(p, ok)
        PROVE  (\E u \in Promise!Units : Promise!Perform(u)) \/ UNCHANGED Promise!work
    <3>1. queue' = queue /\ issued' = issued
      BY <2>7 DEF Flush
    <3>2. proc[p].at = "work" /\ proc'[p].at = "work"
      BY <2>7, <1>p, FlushStep
    <3>3. CASE ok
      <4>1. Current(p) \in DOMAIN PendingOf(p) /\ performed' = performed \cup {Current(p)}
        BY <2>7, <1>p, <3>2, <3>3, FlushStep DEF Relied
      <4>2. Answered(p)' = Answered(p) /\ DOMAIN PendingOf(p)' = DOMAIN PendingOf(p)
        BY <3>1, <3>2
      <4> HIDE DEF PendingOf, Answered
      <4>3. Promise!Perform(Current(p))
        BY <4>1, <4>2, WorkSteps
      <4> QED BY <4>1, <4>3, WorkSteps
    <3>4. CASE ~ok
      <4>1. performed' = performed
        BY <2>7, <1>p, <3>4, FlushStep
      <4> QED BY <2>s, <3>1, <3>2, <4>1
    <3> QED BY <3>3, <3>4
  <2>8. CASE Save(p)
    <3> DEFINE done == DOMAIN queue \ DOMAIN proc[p].list
    <3>1. /\ proc[p].at = "work" /\ done \subseteq performed
          /\ DOMAIN proc[p].list = DOMAIN queue \ done
      BY <2>8, <1>p DEF Save, At, Relied
    <3>2. proc'[p].at = "save" /\ proc'[p].list = proc[p].list
      BY <2>8, <1>p, GoneTo
    <3>3. /\ Answered(p)' = Answered(p) /\ performed' = performed
          /\ done \in SUBSET (DOMAIN PendingOf(p) \cap performed)
          /\ DOMAIN PendingOf(p)' = DOMAIN PendingOf(p) \ done
      BY <2>8, <3>1, <3>2 DEF Save
    <3> HIDE DEF PendingOf, Answered, done
    <3>4. Promise!Retire(done) /\ done \in SUBSET Promise!Units
      BY <3>3, WorkSteps
    <3> QED BY <3>4 DEF Promise!Step
  <2>9. CASE SaveQueue(p)
    BY <2>9, <2>s, <1>p, GoneTo DEF SaveQueue, At
  <2>10. CASE SaveState(p)
    BY <2>10, <2>s, <1>p, GoneTo DEF SaveState, At
  <2>11. CASE FillState(p)
    BY <2>11, <2>s, <1>p, GoneTo DEF FillState, At
  <2>12. CASE Crash(p)
    <3>1. proc[p].at \notin {"clear", "fill", "save"}
      BY <2>12 DEF Crash, Killable
    <3> QED BY <2>12, <2>s, <1>p, <3>1, GoneTo DEF Crash
  <2>13. CASE UNCHANGED compactionVars
    BY <2>13, <2>s DEF compactionVars
  <2> HIDE DEF PendingOf, Answered
  <2> QED
    BY <2>1, <2>2, <2>3, <2>4, <2>5, <2>6, <2>7, <2>8, <2>9, <2>10, <2>11, <2>12, <2>13, <1>p
    DEF Next, Produce, Drain, Promise!Step
<1> QED
  BY <1>1, <1>2, OneInvariant, PTL
  DEF Spec, ImplementsDurableWork, Promise!AtLeastOnce
==============================================================================
