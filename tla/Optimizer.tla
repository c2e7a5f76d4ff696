----------------------------- MODULE Optimizer -----------------------------
(***************************************************************************)
(* The trust loop of cpo/optimizer.py under the planning scopes of         *)
(* planning_control.py: a baseline is built, a bounded search and a local  *)
(* polish look for better plans, every doubt reverts to a plan that is     *)
(* trusted, and an observer keeps the best complete candidate for the case *)
(* that the time of the search runs out.  The improvement cycle ends it.   *)
(* What the scheduler, the candidates, the polish and the normalizer       *)
(* produce is any plan.                                                    *)
(***************************************************************************)
EXTENDS Improvement

CONSTANTS Modes, \* "quick", "normal", and "large": normal, over the size gate
          Budget \* candidate_budget

VARIABLES
    mode, improve, \* arguments of optimize
    cancelled,  \* the caller's cancel event
    draft,      \* the plan under construction
    base,       \* the baseline
    best,       \* best_result
    trusted,    \* trusted_result
    shared,     \* trusted_result and best_result are one object
    kept,       \* complete: the observer's copy of the best candidate
    tried,      \* candidates evaluated
    announcing, \* candidate_completed has been called with best_result
    result,     \* what optimize is about to return
    outcome     \* "running", "returned", or what it raised

choiceVars == <<best, trusted, shared, kept, tried, announcing>>
optimizerVars == <<clock, cycleVars, mode, improve, cancelled, draft, base,
                   choiceVars, result, outcome>>

OptimizerInit ==
    /\ CycleInit
    /\ mode = "normal" /\ improve = TRUE
    /\ cancelled = FALSE
    /\ draft = NoPlan /\ base = NoPlan /\ best = NoPlan /\ trusted = NoPlan
    /\ kept = NoPlan /\ result = NoPlan
    /\ shared = FALSE /\ announcing = FALSE
    /\ tried = 0
    /\ outcome = "running"

----------------------------------------------------------------------------
\* Where the search has to stop: the improvement has time of its own.
SearchEnd == IF improve THEN Improving ELSE Closing

Live(limit) == outcome = "running" /\ ~cancelled /\ clock < limit

\* _preserves_trust, _is_better_candidate, _is_fully_trusted_score
Preserves(p, q) == ~p.hard /\ Delivery(p) <= Delivery(q)
BetterCandidate(p, q) == Preserves(p, q) /\ Better(p, q)
FullyTrusted(p) == ~p.hard /\ Delivery(p) = 0

----------------------------------------------------------------------------
(* Construction: schedule_all after the runs are laid out.  The arguments of   *)
(* optimize do not matter before and are chosen here.                      *)

Repairs == <<"alternative", "tail", "exchange">>

Construct ==
    /\ stage = "laid" /\ Live(Over)
    /\ \E p \in Plans : draft' = p
    /\ mode' \in Modes /\ improve' \in BOOLEAN
    /\ stage' = Repairs[1]
    /\ UNCHANGED <<clock, cycleVars, cancelled, base, choiceVars, result, outcome>>

\* An optional repair has the time up to the closing reserve; a repair that is
\* interrupted, skipped or in vain leaves the plan as it was.
Repair(i) ==
    /\ stage = Repairs[i] /\ Live(Over)
    /\ \E p \in Plans : (p = draft \/ clock < Closing) /\ draft' = p
    /\ stage' = IF i = Len(Repairs) THEN "audit" ELSE Repairs[i + 1]
    /\ UNCHANGED <<clock, cycleVars, mode, improve, cancelled, base, choiceVars,
                   result, outcome>>

\* assert_plan_valid, then the plan becomes the baseline.
Audited ==
    /\ stage = "audit" /\ Live(Over)
    /\ draft.valid
    /\ base' = draft /\ best' = draft /\ kept' = draft
    /\ trusted' = IF FullyTrusted(draft) THEN draft ELSE NoPlan
    /\ shared' = FullyTrusted(draft)
    /\ draft' = NoPlan
    /\ stage' = "decide"
    /\ UNCHANGED <<clock, cycleVars, mode, improve, cancelled, tried, announcing,
                   result, outcome>>

Invalid ==
    /\ stage = "audit" /\ Live(Over)
    /\ ~draft.valid
    /\ outcome' = "invalid"
    /\ UNCHANGED <<stage, clock, cycleVars, mode, improve, cancelled, draft, base,
                   choiceVars, result>>

----------------------------------------------------------------------------
\* _optimize returns a plan; its other candidates are gone.
Hand(plan) ==
    /\ result' = plan
    /\ stage' = "handed"
    /\ best' = NoPlan /\ trusted' = NoPlan /\ kept' = NoPlan
    /\ shared' = FALSE /\ announcing' = FALSE /\ tried' = 0
    /\ UNCHANGED <<clock, cycleVars, mode, improve, cancelled, draft, base, outcome>>

\* Quick mode, the size gate and the reserve skip the search.
SkipSearch ==
    /\ stage = "decide" /\ Live(Over)
    /\ mode \in {"quick", "large"} \/ clock >= SearchEnd
    /\ Hand(IF mode = "quick" THEN base ELSE kept)

StartSearch ==
    /\ stage = "decide" /\ Live(SearchEnd)
    /\ mode = "normal"
    /\ stage' = "search"
    /\ UNCHANGED optimizerVars

\* A candidate of the shadow search is better than the best one and no worse
\* than the baseline, or it is dropped (as is one that raises).
TryCandidate ==
    /\ stage = "search" /\ Live(SearchEnd) /\ ~announcing
    /\ tried < Budget
    /\ tried' = tried + 1
    /\ \/ \E p \in Plans :
            /\ p.valid /\ BetterCandidate(p, best) /\ Preserves(p, base)
            /\ best' = p /\ shared' = FALSE /\ announcing' = TRUE
       \/ UNCHANGED <<best, shared, announcing>>
    /\ UNCHANGED <<stage, clock, cycleVars, mode, improve, cancelled, draft, base,
                   trusted, kept, result, outcome>>

\* retain(): what the observer copies.
Retains(p) == p.valid /\ Preserves(p, base) /\ BetterCandidate(p, kept)

Retain ==
    /\ announcing /\ Live(SearchEnd)
    /\ announcing' = FALSE
    /\ kept' = IF Retains(best) THEN best ELSE kept
    /\ UNCHANGED <<stage, clock, cycleVars, mode, improve, cancelled, draft, base,
                   best, trusted, shared, tried, result, outcome>>

\* _remember_trusted_result replaces the trusted plan by this one.
Remembers(p) == FullyTrusted(p) /\ (trusted = NoPlan \/ Better(p, trusted))

EndSearch ==
    /\ stage = "search" /\ Live(SearchEnd) /\ ~announcing
    /\ stage' = "polish"
    /\ IF Remembers(best) THEN trusted' = best /\ shared' = TRUE
       ELSE UNCHANGED <<trusted, shared>>
    /\ UNCHANGED <<clock, cycleVars, mode, improve, cancelled, draft, base, best,
                   kept, tried, announcing, result, outcome>>

Polish ==
    /\ stage = "polish" /\ Live(SearchEnd)
    /\ stage' = "normalize"
    /\ \/ \E p \in Plans :
            /\ p.valid /\ BetterCandidate(p, best)
            /\ best' = p /\ announcing' = TRUE
            /\ IF Remembers(p) THEN trusted' = p /\ shared' = TRUE
               ELSE shared' = FALSE /\ UNCHANGED trusted
       \/ UNCHANGED <<best, announcing, trusted, shared>>
    /\ UNCHANGED <<clock, cycleVars, mode, improve, cancelled, draft, base, kept,
                   tried, result, outcome>>

\* _normalize_operational_result rewrites the best result in place: a trusted
\* result that is the same object is rewritten with it.
Normalize ==
    /\ stage = "normalize" /\ Live(SearchEnd) /\ ~announcing
    /\ \E p \in Plans :
         /\ best = base => p = best
         /\ best' = p
         /\ trusted' = IF shared THEN p ELSE trusted
    /\ stage' = "revert"
    /\ UNCHANGED <<clock, cycleVars, mode, improve, cancelled, draft, base, shared,
                   kept, tried, announcing, result, outcome>>

\* Mutant: a trusted plan is at hand or not, the baseline is not asked.
RevertedToTrusted ==
    LET safe == IF trusted # NoPlan THEN trusted ELSE base
        physical == IF best.valid THEN best ELSE safe
    IN IF trusted # NoPlan /\ ~FullyTrusted(physical) THEN trusted ELSE physical

\* The chain of reverts: invalid physics, lost delivery trust, lost baseline.
Reverted ==
    LET safe == IF trusted # NoPlan THEN trusted ELSE base
        physical == IF best.valid THEN best ELSE safe
        delivered == IF trusted # NoPlan /\ ~FullyTrusted(physical) THEN trusted
                     ELSE physical
    IN IF Preserves(delivered, base) THEN delivered ELSE base

Revert ==
    /\ stage = "revert" /\ Live(SearchEnd)
    /\ best' = Reverted
    /\ IF Reverted.valid
       THEN stage' = "leave" /\ announcing' = TRUE /\ UNCHANGED outcome
       ELSE outcome' = "invalid" /\ UNCHANGED <<stage, announcing>>
    /\ UNCHANGED <<clock, cycleVars, mode, improve, cancelled, draft, base, trusted,
                   shared, kept, tried, result>>

\* The scope of the search checks the time once more when it is left.
LeaveSearch ==
    /\ stage = "leave" /\ Live(SearchEnd) /\ ~announcing
    /\ Hand(best)

\* PlanningTimeout in the search: the complete candidate is handed over.
KeepComplete ==
    /\ stage \in {"search", "polish", "normalize", "revert", "leave"}
    /\ Live(Over) /\ clock >= SearchEnd
    /\ Hand(kept)

----------------------------------------------------------------------------
\* _apply_improvement_phase
StartImprovement ==
    /\ stage = "handed" /\ Live(Closing)
    /\ improve /\ mode # "quick" /\ cycle = "idle"
    /\ stage' = "improving"
    /\ Improve(result)
    /\ UNCHANGED <<clock, mode, improve, cancelled, draft, base, choiceVars,
                   result, outcome>>

ImproveStep ==
    /\ stage = "improving" /\ outcome = "running" /\ ~cancelled
    /\ CycleNext
    /\ UNCHANGED <<stage, mode, improve, cancelled, draft, base, choiceVars,
                   result, outcome>>

TakeImproved ==
    /\ stage = "improving" /\ Live(Over)
    /\ cycle = "ended"
    /\ result' = current
    /\ stage' = "handed"
    /\ UNCHANGED <<clock, cycleVars, mode, improve, cancelled, draft, base,
                   choiceVars, outcome>>

\* optimize returns: the outermost scope is left in time.
Return ==
    /\ stage = "handed" /\ Live(Over)
    /\ cycle = "ended" \/ ~improve \/ mode = "quick" \/ clock >= Closing
    /\ outcome' = "returned"
    /\ UNCHANGED <<stage, clock, cycleVars, mode, improve, cancelled, draft, base,
                   choiceVars, result>>

----------------------------------------------------------------------------
Optimizing ==
    stage \in {"alternative", "tail", "exchange", "audit", "decide", "search",
               "polish", "normalize", "revert", "leave", "handed", "improving"}

\* PlanningControl.checkpoint: a cancellation wins over a timeout.
Checkpoint ==
    /\ Optimizing /\ outcome = "running"
    /\ \/ cancelled /\ outcome' = "cancelled"
       \/ ~cancelled /\ clock = Over /\ outcome' = "timeout"
    /\ UNCHANGED <<stage, clock, cycleVars, mode, improve, cancelled, draft, base,
                   choiceVars, result>>

Tick ==
    /\ Optimizing /\ outcome = "running" /\ clock < Over
    /\ clock' = clock + 1
    /\ UNCHANGED <<stage, cycleVars, mode, improve, cancelled, draft, base,
                   choiceVars, result, outcome>>

Cancel ==
    /\ Optimizing /\ outcome = "running" /\ ~cancelled
    /\ cancelled' = TRUE
    /\ UNCHANGED <<stage, clock, cycleVars, mode, improve, draft, base,
                   choiceVars, result, outcome>>

OptimizerNext ==
    \/ Construct \/ (\E i \in 1..3 : Repair(i)) \/ Audited \/ Invalid
    \/ SkipSearch \/ StartSearch \/ TryCandidate \/ Retain \/ EndSearch
    \/ Polish \/ Normalize \/ Revert \/ LeaveSearch \/ KeepComplete
    \/ StartImprovement \/ ImproveStep \/ TakeImproved \/ Return
    \/ Checkpoint \/ Tick \/ Cancel

----------------------------------------------------------------------------
\* _optimize: "Never returns a physically invalid result or a delivery
\* regression."  Whatever the candidates, the normalizer and the clock do,
\* a plan that is returned is valid and delivers no later than the baseline.
NeverWorseThanBaseline ==
    outcome = "returned" /\ base # NoPlan =>
      /\ result.valid
      /\ Delivery(result) <= Delivery(base)

=============================================================================
