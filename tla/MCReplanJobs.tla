---------------------------- MODULE MCReplanJobs ----------------------------
(* Small instances of ReplanJobs for TLC. *)
EXTENDS ReplanJobs, TLC
=============================================================================
