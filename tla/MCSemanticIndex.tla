--------------------------- MODULE MCSemanticIndex ---------------------------
(* Instances of SemanticIndex for TLC.                                      *)
EXTENDS SemanticIndex
=============================================================================
