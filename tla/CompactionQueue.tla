--------------------------- MODULE CompactionQueue ---------------------------
(***************************************************************************)
(* The queue of postponed flushes, runtime/queue/compaction_queue.py.      *)
(*                                                                         *)
(* Unlike the side-effect outbox it takes no lock: every call reads the    *)
(* whole file into a list, works on the list, and writes the list back by  *)
(* truncating the file and filling it.  A drain holds its list while it    *)
(* runs the flushes.  A truncated file reads as an empty one (_read_json). *)
(*                                                                         *)
(* Items are appended to the queue as they read it, and removed: a list is *)
(* always in the order in which its items were issued.  It is modelled by  *)
(* the function from the ids in it to whether the item failed before; ids  *)
(* count the items.                                                        *)
(*                                                                         *)
(* Time.  A drain reads the clock once.  Whether a failed item's backoff   *)
(* (at most 120 s) and the breaker (30 s) have run out by then is left     *)
(* open: any of them may have.                                             *)
(***************************************************************************)
EXTENDS Integers, FiniteSets

CONSTANTS
    Processes,    \* processes that enqueue or drain
    Poison,       \* items whose flush never succeeds
    MaxItems,     \* the max_items argument of drain
    Threshold,    \* consecutive failures that open the breaker: 3
    KilledAt,     \* the steps at which a process may be killed
    MaxEnqueues,  \* bound: items ever enqueued
    MaxCrashes    \* bound: processes killed

Ids == 1..MaxEnqueues

ASSUME CompactionBounds ==
    /\ MaxEnqueues \in Nat /\ MaxCrashes \in Nat
    /\ MaxItems \in Nat /\ Threshold \in Nat \ {0}
ASSUME CompactionPoison == Poison \subseteq Ids

VARIABLES
    queue,      \* compaction-queue.json
    breaker,    \* compaction-queue-state.json
    proc,       \* what each process is at, and the list it works on
    issued,     \* ids given out (uuid4)
    accepted,   \* history: items whose enqueue was answered
    performed,  \* history: items flushed
    crashes     \* history: processes killed

compactionVars == <<queue, breaker, proc, issued, accepted, performed, crashes>>

Lists == UNION {[S -> BOOLEAN] : S \in SUBSET Ids}
Empty == [i \in {} |-> FALSE]
Put(list, id) == [i \in DOMAIN list \cup {id} |-> IF i = id THEN FALSE ELSE list[i]]
Without(list, id) == [i \in DOMAIN list \ {id} |-> list[i]]
First(ids) == CHOOSE i \in ids : \A j \in ids : i <= j
Newest(ids) == CHOOSE i \in ids : \A j \in ids : i >= j

Closed == [failures |-> 0, open |-> FALSE]
Breaker == [failures: 0..Threshold, open: BOOLEAN]

\* list: the queue in memory; todo: the items this drain has yet to look at;
\* done: how many it flushed; state: the breaker in memory.
Idle == [at |-> "idle", list |-> Empty, todo |-> {}, done |-> 0, state |-> Closed]
Steps == {"idle", "clear", "fill", "state", "work", "save", "store", "fillState"}
ASSUME CompactionKills == KilledAt \subseteq Steps \ {"idle"}

At(p, step) == proc[p].at = step
Goto(p, step) == proc' = [proc EXCEPT ![p].at = step]

-----------------------------------------------------------------------------
(* enqueue_compaction_event                                                 *)

\* The file is read and the item appended, in memory.
Enqueue(p) ==
    /\ At(p, "idle") /\ issued < MaxEnqueues
    /\ issued' = issued + 1
    /\ proc' = [proc EXCEPT ![p] =
          [Idle EXCEPT !.at = "clear", !.list = Put(queue, issued + 1)]]
    /\ UNCHANGED <<queue, breaker, accepted, performed, crashes>>

Truncate(p) ==
    /\ At(p, "clear")
    /\ queue' = Empty
    /\ Goto(p, "fill")
    /\ UNCHANGED <<breaker, issued, accepted, performed, crashes>>

\* Written; the enqueue is answered.
Fill(p) ==
    /\ At(p, "fill")
    /\ queue' = proc[p].list
    /\ accepted' = accepted \cup {Newest(DOMAIN proc[p].list)}
    /\ proc' = [proc EXCEPT ![p] = Idle]
    /\ UNCHANGED <<breaker, issued, performed, crashes>>

-----------------------------------------------------------------------------
(* drain_compaction_queue                                                   *)

ReadQueue(p) ==
    /\ At(p, "idle")
    /\ proc' = [proc EXCEPT ![p] = [Idle EXCEPT !.at = "state", !.list = queue]]
    /\ UNCHANGED <<queue, breaker, issued, accepted, performed, crashes>>

\* The breaker is open still: nothing is done.
Refuse(p) ==
    /\ At(p, "state") /\ breaker.open
    /\ proc' = [proc EXCEPT ![p] = Idle]
    /\ UNCHANGED <<queue, breaker, issued, accepted, performed, crashes>>

\* It is closed, or its time is over; due are the items that may be tried.
Begin(p, due) ==
    /\ At(p, "state")
    /\ \A i \in DOMAIN proc[p].list \ due : proc[p].list[i]
    /\ proc' = [proc EXCEPT ![p].at = "work", ![p].state = breaker, ![p].todo = due]
    /\ UNCHANGED <<queue, breaker, issued, accepted, performed, crashes>>

Working(p) == At(p, "work") /\ proc[p].todo # {} /\ proc[p].done < MaxItems
Current(p) == First(proc[p].todo)

\* The flush succeeded: the item leaves the list, the breaker is reset.
Flushed(p) ==
    [proc[p] EXCEPT !.todo = @ \ {Current(p)}, !.done = @ + 1, !.state = Closed,
       !.list = Without(@, Current(p))]

\* Mutants of Failed: a failed item is given up; a failed item
\* counts as processed.
Mut_FailedDrops(p) ==
    [proc[p] EXCEPT !.todo = @ \ {Current(p)}, !.list = Without(@, Current(p))]
Mut_Failed(p) == [proc[p] EXCEPT !.todo = @ \ {Current(p)}, !.done = @ + 1]
\* It failed: the item backs off, and enough failures open the breaker.  A
\* failure does not count towards max_items, and the breaker is not consulted
\* again before the drain is over.
Failed(p) ==
    LET failures == proc[p].state.failures + 1
    IN  [proc[p] EXCEPT !.todo = @ \ {Current(p)},
           !.state = [failures |-> IF failures > Threshold THEN Threshold ELSE failures,
                      open |-> @.open \/ failures >= Threshold],
           !.list[Current(p)] = TRUE]

Flush(p, ok) ==
    /\ Working(p)
    /\ ok => Current(p) \notin Poison
    /\ proc' = [proc EXCEPT ![p] = IF ok THEN Flushed(p) ELSE Failed(p)]
    /\ performed' = IF ok THEN performed \cup {Current(p)} ELSE performed
    /\ UNCHANGED <<queue, breaker, issued, accepted, crashes>>

\* Both files are written back, whatever they hold by now: truncated, filled.
Save(p) ==
    /\ At(p, "work") /\ ~Working(p)
    /\ Goto(p, "save")
    /\ queue' = Empty
    /\ UNCHANGED <<breaker, issued, accepted, performed, crashes>>

SaveQueue(p) ==
    /\ At(p, "save")
    /\ queue' = proc[p].list
    /\ Goto(p, "store")
    /\ UNCHANGED <<breaker, issued, accepted, performed, crashes>>

SaveState(p) ==
    /\ At(p, "store")
    /\ breaker' = Closed
    /\ Goto(p, "fillState")
    /\ UNCHANGED <<queue, issued, accepted, performed, crashes>>

FillState(p) ==
    /\ At(p, "fillState")
    /\ breaker' = proc[p].state
    /\ proc' = [proc EXCEPT ![p] = Idle]
    /\ UNCHANGED <<queue, issued, accepted, performed, crashes>>

Crash(p) ==
    /\ proc[p].at \in KilledAt /\ crashes < MaxCrashes
    /\ crashes' = crashes + 1
    /\ proc' = [proc EXCEPT ![p] = Idle]
    /\ UNCHANGED <<queue, breaker, issued, accepted, performed>>

-----------------------------------------------------------------------------
Init ==
    /\ queue = Empty /\ breaker = Closed
    /\ proc = [p \in Processes |-> Idle]
    /\ issued = 0 /\ accepted = {} /\ performed = {} /\ crashes = 0

Produce(p) == Enqueue(p) \/ Truncate(p) \/ Fill(p)
Drain(p) ==
    \/ ReadQueue(p) \/ Refuse(p)
    \/ (\E due \in SUBSET DOMAIN proc[p].list : Begin(p, due))
    \/ (\E ok \in BOOLEAN : Flush(p, ok))
    \/ Save(p) \/ SaveQueue(p) \/ SaveState(p) \/ FillState(p)

Next == \E p \in Processes : Produce(p) \/ Drain(p) \/ Crash(p)

Spec == Init /\ [][Next]_compactionVars

\* Calls return; drains are started again and again; a breaker's and an
\* item's time comes; a flush that can succeed does if it is tried for ever.
Fairness ==
    \A p \in Processes :
      /\ WF_compactionVars(Truncate(p) \/ Fill(p))
      /\ WF_compactionVars(Save(p) \/ SaveQueue(p) \/ SaveState(p) \/ FillState(p))
      /\ SF_compactionVars(ReadQueue(p))
      /\ SF_compactionVars(Begin(p, DOMAIN proc[p].list))
      /\ WF_compactionVars(Refuse(p) \/ \E ok \in BOOLEAN : Flush(p, ok))
      /\ \A i \in Ids \ Poison : SF_compactionVars(Flush(p, TRUE) /\ Current(p) = i)

FairSpec == Spec /\ Fairness

-----------------------------------------------------------------------------
(* Properties                                                               *)

TypeOK ==
    /\ queue \in Lists /\ breaker \in Breaker
    /\ \A p \in Processes :
         /\ proc[p].at \in Steps
         /\ proc[p].list \in Lists /\ proc[p].todo \subseteq DOMAIN proc[p].list
         /\ proc[p].done \in 0..MaxItems /\ proc[p].state \in Breaker
    /\ issued \in 0..MaxEnqueues /\ crashes \in 0..MaxCrashes
    /\ accepted \subseteq Ids /\ performed \subseteq Ids

\* What is in the queue, as long as one process at a time touches it: the
\* list that is just being written back, else the file.
Pending ==
    LET writing == {p \in Processes : proc[p].at \in {"fill", "save"}}
    IN  IF writing = {} THEN queue ELSE proc[CHOOSE p \in writing : TRUE].list

Promise == INSTANCE DurableWork WITH
    Keys <- {}, NoKey <- 0,
    accepted <- issued - Cardinality({p \in Processes : proc[p].at = "clear"}),
    pending <- [i \in DOMAIN Pending |-> 0],
    performed <- performed

\* One process at a time, never killed while it writes the queue file, gives the
\* promise of the side-effect outbox: a flush that was queued is pending until it
\* has been run, also if its drain is killed.
ImplementsDurableWork == Promise!AtLeastOnce

\* A queued flush that can succeed is run in the end, behind one that never
\* does and through an open breaker.
HealthyFlushesRun == \A i \in Ids \ Poison : i \in accepted ~> i \in performed

\* "Queues flush work": an item whose enqueue was answered is in the file, or
\* was flushed, whenever no call is under way.
QueuedIsKept ==
    (\A p \in Processes : At(p, "idle")) => accepted \subseteq DOMAIN queue \cup performed
==============================================================================
