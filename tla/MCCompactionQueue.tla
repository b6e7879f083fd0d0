-------------------------- MODULE MCCompactionQueue --------------------------
(* Instances of CompactionQueue for TLC: where a process may be killed.     *)
EXTENDS CompactionQueue

\* During a drain, but not while it writes the queue file.
OutsideWrites == {"state", "work", "store", "fillState"}
Anywhere == Steps \ {"idle"}
==============================================================================
