------------------------------ MODULE MCTurnWrite ------------------------------
(* The instances of TurnWrite that TLC checks: which session each turn is   *)
(* of, and what hosts deliver.                                              *)
EXTENDS TurnWrite, TLC

OneSession == [t \in Turns |-> "s1"]
Anything == Turns \X Bodies
Everyone == Adapters \cup Workers
AllOutcomes == {"authored", "missing", "invalid"}
AdapterSymmetry == Permutations(Adapters)
Authored == {"authored"}
================================================================================
