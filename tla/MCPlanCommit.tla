---------------------------- MODULE MCPlanCommit ----------------------------
(* Small instances of PlanCommit for TLC. *)
EXTENDS PlanCommit, TLC

MCEffects == {{}, {"config"}, {"config", "rules"}}
MCSymmetry == Permutations(Ops)
=============================================================================
