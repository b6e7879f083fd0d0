---------------------------- MODULE MCSessionFlush ----------------------------
(* The instances of SessionFlush that TLC checks.                           *)
EXTENDS SessionFlush, TLC

OneSession == [t \in Turns |-> "s1"]
OwnSession == [t \in Turns |-> t]
Anything == Turns \X Bodies
AllOutcomes == {"authored", "missing", "invalid"}
Authored == {"authored"}
FlusherSymmetry == Permutations(Flushers)
Everyone == Adapters \cup Workers \cup Flushers
===============================================================================
