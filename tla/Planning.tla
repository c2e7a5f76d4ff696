------------------------------ MODULE Planning ------------------------------
(***************************************************************************)
(* The planner as one pipeline: scheduler.schedule_all sizes the lots,     *)
(* groups them into runs, lays these out on the machines, and repairs what *)
(* that gives; the optimizer decides which plan is returned.  What the     *)
(* first phases computed is left behind once a plan is built.              *)
(***************************************************************************)
EXTENDS LayoutRepair, Optimizer

vars == <<stage, repairVars, optimizerVars>>

PlanningInit == DispatchInit /\ RepairInit /\ OptimizerInit

Schedule == DispatchNext /\ UNCHANGED <<plan, optimizerVars>>

RepairLayout == RepairNext /\ UNCHANGED optimizerVars

\* The repaired layout, or the plan the global constructor found instead of
\* the fallback, is done; the steps that led to it are over.
HandOver ==
    /\ \/ stage = "repaired"
       \/ stage = "dispatching" /\ Waiting = {}
    /\ stage' = "laid"
    /\ lots' = {} /\ runs' = {} /\ plan' = <<>>
    /\ demand' = [op \in Ops |-> [day \in Days |-> 0]]
    /\ supply' = {}
    /\ queues' = [m \in Machines |-> <<>>]
    /\ ResetLayout
    /\ UNCHANGED <<open, surplus, optimizerVars>>

\* schedule_all has nothing to plan: the empty plan is returned at once.
NothingToPlan ==
    /\ stage = "sized" /\ lots = {}
    /\ outcome' = "returned"
    /\ stage' = "empty"
    /\ UNCHANGED <<repairVars, clock, cycleVars, mode, improve, cancelled, draft,
                   base, choiceVars, result>>

Optimize == OptimizerNext /\ UNCHANGED repairVars

PlanningNext == Schedule \/ RepairLayout \/ HandOver \/ NothingToPlan \/ Optimize

PlanningSpec == PlanningInit /\ [][PlanningNext]_vars
=============================================================================
