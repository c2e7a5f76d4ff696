-------------------------- MODULE MCRobustnessJobs --------------------------
(* Small instances of RobustnessJobs for TLC. *)
EXTENDS RobustnessJobs, TLC
=============================================================================
