---------------------------- MODULE Improvement ----------------------------
(***************************************************************************)
(* The no-loss improvement cycle (scheduler/improvement.py, improve_plan). *)
(* Generators propose whole plans; one evaluator accepts a proposal when   *)
(* it is valid, no order loses by it, and it is a strict gain.  The        *)
(* preference ignores displacements under a tolerance before it compares   *)
(* exactly, so it is not transitive.  A plan is abstracted to what these   *)
(* decisions read of it.                                                   *)
(***************************************************************************)
EXTENDS Pipeline

CONSTANTS
    Plans,          \* the plans: [valid, hard, late, start, setups]
    NoPlan,
    Tolerance,      \* ANTICIPATION_TOLERANCE_MIN
    MaxEvaluations  \* bound: proposals the cycle looks at

\* The planning clock: time to search, then to improve, then to close the
\* plan; then the deadline has passed.
Searching == 0
Improving == 1
Closing == 2
Over == 3

VARIABLES
    clock,      \* the part of the planning budget that is being spent
    cycle,      \* "idle", "propose", "compact" or "ended"
    reference,  \* the plan the cycle started from
    current,    \* the last accepted candidate
    settled,    \* the last candidate that was compacted after it was accepted
    visited     \* the plans that were looked at

cycleVars == <<cycle, reference, current, settled, visited>>

CycleInit ==
    /\ clock = Searching
    /\ cycle = "idle"
    /\ reference = NoPlan /\ current = NoPlan /\ settled = NoPlan
    /\ visited = {}

----------------------------------------------------------------------------
\* delivery_priority_key: lateness summed over the orders.
Delivery(p) == MapThenSumSet(LAMBDA o : p.late[o], DOMAIN p.late)

ASSUME PlansAssumption ==
    /\ NoPlan \notin Plans
    /\ \A p \in Plans :
         /\ p.hard => ~p.valid
         /\ IsFiniteSet(DOMAIN p.late) /\ \A o \in DOMAIN p.late : p.late[o] \in Nat
         /\ \A i \in DOMAIN p.start : p.start[i] \in Int
ASSUME ToleranceAssumption == Tolerance \in Nat \ {0}

\* anticipation_compare: the first lot, by urgency, that moves enough to count.
Compare(p, q) ==
    LET apart == {i \in DOMAIN p.start :
                    p.start[i] - q.start[i] >= Tolerance
                    \/ q.start[i] - p.start[i] >= Tolerance}
    IN IF apart = {} THEN 0
       ELSE IF p.start[Min(apart)] < q.start[Min(apart)] THEN -1 ELSE 1

\* improvement_better
Better(p, q) ==
    \/ Delivery(p) < Delivery(q)
    \/ /\ Delivery(p) = Delivery(q)
       /\ \/ Compare(p, q) = -1
          \/ /\ Compare(p, q) = 0
             /\ Precedes(Append(p.start, p.setups), Append(q.start, q.setups))

\* regresses_reference
Drifts(p, q) == Delivery(p) = Delivery(q) /\ Compare(p, q) = 1

\* no_loss_verdict: no order is later.
NoLoss(p, q) == \A o \in DOMAIN q.late : p.late[o] <= q.late[o]

\* Mutant: each step is compared with the one before it only.
AdmissibleFromCurrent(p) == p.valid /\ NoLoss(p, current) /\ Better(p, current)

\* The evaluator's verdict on a proposal.
Admissible(p) ==
    /\ p.valid
    /\ NoLoss(p, current) /\ NoLoss(p, reference)
    /\ Better(p, current)
    /\ ~Drifts(p, reference)

----------------------------------------------------------------------------
Improve(plan) ==
    /\ cycle' = "propose"
    /\ reference' = plan /\ current' = plan /\ settled' = plan
    /\ visited' = {plan}

Fresh(p) ==
    /\ p \notin visited
    /\ Cardinality(visited) <= MaxEvaluations
    /\ visited' = visited \union {p}

\* A move is accepted; what it released is compacted next, unless it came
\* from the compaction itself.
ProposalAccepted ==
    /\ cycle = "propose" /\ clock < Closing
    /\ \E p \in Plans :
         /\ Fresh(p)
         /\ Admissible(p)
         /\ current' = p
         /\ \/ cycle' = "compact" /\ UNCHANGED settled
            \/ cycle' = cycle /\ settled' = p
    /\ UNCHANGED <<clock, reference>>

ProposalRejected ==
    /\ cycle \in {"propose", "compact"} /\ clock < Closing
    /\ \E p \in Plans : Fresh(p) /\ ~Admissible(p)
    /\ UNCHANGED <<clock, cycle, reference, current, settled>>

\* compact(): the first admissible proposal, or none, settles the move.
Compacted ==
    /\ cycle = "compact" /\ clock < Closing
    /\ \/ \E p \in Plans : Fresh(p) /\ Admissible(p) /\ current' = p
       \/ UNCHANGED <<current, visited>>
    /\ cycle' = "propose"
    /\ settled' = current'
    /\ UNCHANGED <<clock, reference>>

\* No admissible proposal is left, a limit is reached or the time is up, which
\* may be in the middle of a compaction: what was not settled is taken back.
CycleEnds ==
    /\ cycle \in {"propose", "compact"}
    /\ cycle' = "ended"
    /\ current' = settled
    /\ UNCHANGED <<clock, reference, settled, visited>>

CycleNext == ProposalAccepted \/ ProposalRejected \/ Compacted \/ CycleEnds

----------------------------------------------------------------------------
\* However many tolerant steps were taken and wherever the cycle stopped, its
\* outcome is valid, no order is later in it than in the plan it started from,
\* and when the delivery is the same no lot drifted later by the tolerance
\* unless a more urgent one gained as much.
ImprovementKeepsReference ==
    cycle = "ended" =>
      /\ current = reference \/ current.valid
      /\ NoLoss(current, reference)
      /\ ~Drifts(current, reference)
=============================================================================
