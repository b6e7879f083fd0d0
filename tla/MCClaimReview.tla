---------------------------- MODULE MCClaimReview ----------------------------
(* The instances of ClaimReview that TLC checks.                            *)
EXTENDS ClaimReview, TLC

CONSTANTS t1, t2, t3

\* The beads' ids are random: the first turn's sorts last, and the audit
\* turns' sort between the turns'.
RandomIds(bead) ==
    CASE bead = t1 -> 99
      [] bead = t2 -> 1
      [] bead = t3 -> 2
      [] OTHER -> 10 * bead.turn.cand + (IF bead.turn.path = "fork" THEN 4 ELSE 2)
                    + (IF bead.real THEN 0 ELSE 1)

WorkerSymmetry == Permutations(Workers)

AllAnswers ==
    {"prefer_a", "prefer_b", "retract_both", "both_valid", "no_scopes", "defer",
     "accept", "reject"}
==============================================================================
