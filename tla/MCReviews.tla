----------------------------- MODULE MCReviews -----------------------------
(* A small instance of Reviews for TLC. *)
EXTENDS Reviews, TLC

MCSymmetry == Permutations(Calls) \cup Permutations(NeedsApproval)
=============================================================================
