---------------------------- MODULE MCReviewGate ----------------------------
(* Symmetry for the runs of ReviewGate.                                    *)
EXTENDS ReviewGate, TLC

Symmetry == Permutations(Contents) \cup Permutations(Reviewers)
=============================================================================
