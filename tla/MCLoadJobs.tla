----------------------------- MODULE MCLoadJobs -----------------------------
(* Small instances of LoadJobs for TLC. *)
EXTENDS LoadJobs, TLC

MCSymmetry == Permutations(Jobs)
=============================================================================
