----------------------------- MODULE MCDealReview -----------------------------
(* Instances of DealReview for TLC.                                        *)
EXTENDS DealReview, TLC

Symmetry == Permutations(Reviewers)
=============================================================================
