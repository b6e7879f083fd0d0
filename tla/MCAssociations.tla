---------------------------- MODULE MCAssociations ----------------------------
(* The instances of Associations that TLC checks.                           *)
EXTENDS Associations

\* Three beads, one of another session; the crawler may associate two of one
\* session, and either of them with the third.
CONSTANTS b1, b2, b3
TwoEdges == {<<b1, b2>>, <<b1, b3>>}
OneEdge == {<<b1, b2>>}
=============================================================================
