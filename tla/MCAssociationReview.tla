-------------------------- MODULE MCAssociationReview --------------------------
(* The instances of AssociationReview that TLC checks.                      *)
EXTENDS AssociationReview, TLC

CONSTANTS b1, b2, b3
OneEdge == {<<b1, b2>>}
TwoEdges == {<<b1, b2>>, <<b1, b3>>}
OneJob == {{b1, b2}}

\* Nothing tells one process from another.
ReviewerSymmetry == Permutations(Reviewers)
================================================================================
