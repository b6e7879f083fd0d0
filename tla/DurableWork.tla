------------------------------ MODULE DurableWork ------------------------------
(***************************************************************************)
(* What the side-effect outbox promises its callers, and the compaction    *)
(* queue when one process uses it, with no queue, lease, retry or clock in *)
(* it: a unit of work, once accepted, is pending until it has been         *)
(* performed; it may be performed more than once; two pending units never  *)
(* share a key.                                                            *)
(***************************************************************************)
EXTENDS Naturals

CONSTANTS Keys, NoKey

VARIABLES
    accepted,   \* units ever accepted: they are numbered 1..accepted
    pending,    \* the key of each pending unit
    performed   \* units performed at least once

work == <<accepted, pending, performed>>

Units == DOMAIN pending

Start == accepted = 0 /\ pending = [u \in {} |-> NoKey] /\ performed = {}

Submit(k) ==
    /\ k = NoKey \/ \A u \in Units : pending[u] # k
    /\ accepted' = accepted + 1
    /\ pending' = [u \in Units \cup {accepted + 1} |->
                     IF u = accepted + 1 THEN k ELSE pending[u]]
    /\ UNCHANGED performed

Perform(u) ==
    /\ u \in Units
    /\ performed' = performed \cup {u}
    /\ UNCHANGED <<accepted, pending>>

Retire(done) ==
    /\ done \subseteq Units \cap performed
    /\ pending' = [v \in Units \ done |-> pending[v]]
    /\ UNCHANGED <<accepted, performed>>

Step ==
    \/ \E k \in Keys \cup {NoKey} : Submit(k)
    \/ \E u \in Units : Perform(u)
    \/ \E done \in SUBSET Units : Retire(done)

AtLeastOnce == Start /\ [][Step]_work
=============================================================================
