--------------------------- MODULE MCSideEffectQueue ---------------------------
(* Instances of SideEffectQueue for TLC: see the two .cfg files.           *)
EXTENDS SideEffectQueue, TLC

DrainerSymmetry == Permutations(Drainers)
=============================================================================
