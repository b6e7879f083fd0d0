------------------------------ MODULE MCBeadStore ------------------------------
(* The instances of BeadStore that TLC checks.                              *)
EXTENDS BeadStore

\* No action reads the history variables; a run whose properties do not either
\* need not tell states apart by them.
NoHistory == <<index, line, revs, tombstones, scan, crashes>>

\* rebuild_index is explored among the operations of beads that have no archived
\* revision; rebuilding projections among all of them.
RebuiltOrCompacted == scan = Idle \/ revs = [b \in Beads |-> <<>>]
================================================================================
