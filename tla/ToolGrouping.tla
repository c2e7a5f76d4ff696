---------------------------- MODULE ToolGrouping ----------------------------
(***************************************************************************)
(* Phase 2 of the scheduler (scheduler/tool_grouping.py): the lots of one  *)
(* setup are chained into runs, so that one setup serves them all.  A run  *)
(* is a sequence of lots in order of urgency; it is cut where its lots may *)
(* not wait for each other, then where it cannot end in time, then where   *)
(* the optimizer asks for it.                                              *)
(***************************************************************************)
EXTENDS LotSizing

CONSTANTS
    MaxGap, MaxSpan, \* days between consecutive lots, and first and last
    MaxRunMinutes,   \* max_run_days * day_cap
    DayCap,          \* minutes of production in a day
    SetupMinutes     \* setup of each tool

\* loader.validate_config keeps the limits of a run positive, or 0 for the gap.
ASSUME GroupingAssumption ==
    /\ {MaxGap, MaxSpan, MaxRunMinutes} \subseteq Nat
    /\ \A op \in Ops : Family[op] \in Int

VARIABLE runs        \* the runs: a set of [tool, index, part, lots]

groupingVars == <<sizingVars, runs>>

GroupingInit == SizingInit /\ runs = {}

----------------------------------------------------------------------------
\* lot_delivery_qty
Pieces(l) == SumOver(l.made, DOMAIN l.made)

\* lot_priority_key: the production due day decides before the rupture day.
LotPriority(l) == <<l.edd, l.rupture, -l.priority, -Pieces(l), l.n>>

Sorted(S) == InSequence(S, LAMBDA k, l : Precedes(LotPriority(k), LotPriority(l)))

RunMinutes(run) == SumOver([i \in DOMAIN run |-> run[i].minutes], DOMAIN run)

\* Not before the first day of the plan: earlier releases are all the same.
Floor(l) == PosPart(l.release)

\* Mutant: material is not looked at.
SplitsByTime(run, l) ==
    \/ l.edd - Last(run).edd > MaxGap
    \/ RunMinutes(run) + l.minutes > MaxRunMinutes
    \/ l.edd - run[1].edd > MaxSpan

\* A lot starts another run: its material comes later, or it is too far away.
Splits(run, l) ==
    \/ Floor(l) # Floor(Last(run))
    \/ l.edd - Last(run).edd > MaxGap
    \/ RunMinutes(run) + l.minutes > MaxRunMinutes
    \/ l.edd - run[1].edd > MaxSpan

\* _split_by_edd_gap
Chained(sequence) ==
    FoldLeft(LAMBDA done, l :
               IF done = <<>> \/ Splits(Last(done), l) THEN Append(done, <<l>>)
               ELSE [done EXCEPT ![Len(done)] = Append(@, l)],
             <<>>, sequence)

\* The runs of a tool, one setup family after the other, in the order that
\* numbers them.
OfTool(tool) ==
    LET here == {l \in lots : l.tool = tool}
        families == InSequence({l.family : l \in here}, <)
    IN FlattenSeq([i \in DOMAIN families |->
                     Chained(Sorted({l \in here : l.family = families[i]}))])

GroupLots ==
    /\ stage = "sized"
    /\ lots # {}
    /\ stage' = "chained"
    /\ runs' = UNION {{[tool |-> tool, index |-> i, part |-> <<>>, lots |-> OfTool(tool)[i]]
                         : i \in DOMAIN OfTool(tool)} : tool \in {l.tool : l \in lots}}
    /\ UNCHANGED sizingVars

----------------------------------------------------------------------------
Capacity(run) == (run.lots[1].edd + 1) * DayCap

Fits(run, chosen, l) ==
    /\ l.edd <= run.lots[1].edd
    /\ RunMinutes(chosen) + l.minutes + SetupMinutes[run.tool] <= Capacity(run)

\* The lots that can still end by the due day of the run, and the others.
EarlyAndLate(run) ==
    FoldLeft(LAMBDA parts, l :
               IF Fits(run, parts[1], l) THEN <<Append(parts[1], l), parts[2]>>
               ELSE <<parts[1], Append(parts[2], l)>>,
             <<<<>>, <<>>>>, run.lots)

Part(run, part, chosen) == [run EXCEPT !.part = Append(@, part), !.lots = chosen]

\* _split_infeasible_runs
Divided(run) ==
    LET parts == EarlyAndLate(run)
    IN IF \/ RunMinutes(run.lots) + SetupMinutes[run.tool] <= Capacity(run)
          \/ <<>> \in {parts[1], parts[2]}
       THEN {run}
       ELSE {Part(run, "early", parts[1]), Part(run, "late", parts[2])}

SplitInfeasible ==
    /\ stage = "chained"
    /\ stage' = "feasible"
    /\ runs' = UNION {Divided(run) : run \in runs}
    /\ UNCHANGED sizingVars

\* _split_forced_runs: "cuts" are the positions the optimizer asks for.
CutAt(run, cuts) ==
    LET ends == InSequence(cuts \union {Len(run.lots)}, <)
        from(i) == IF i = 1 THEN 1 ELSE ends[i - 1] + 1
    IN IF cuts = {} THEN {run}
       ELSE {Part(run, i, SubSeq(run.lots, from(i), ends[i])) : i \in DOMAIN ends}

SplitForced ==
    /\ stage = "feasible"
    /\ stage' = "grouped"
    /\ \E run \in runs : \E cuts \in SUBSET (1..(Len(run.lots) - 1)) :
         runs' = (runs \ {run}) \union CutAt(run, cuts)
    /\ UNCHANGED sizingVars

GroupingNext ==
    \/ SizingNext /\ UNCHANGED runs
    \/ GroupLots
    \/ SplitInfeasible
    \/ SplitForced

----------------------------------------------------------------------------
Holding(l) == {run \in runs : \E i \in DOMAIN run.lots : run.lots[i] = l}
Name(run) == <<run.tool, run.index, run.part>>

\* The runs are a schedule of the lots: each lot is produced by one run and
\* once, no two runs share an identifier, and the lots of a run share its
\* setup, follow each other in order of urgency, wait for no later material,
\* and stay within the gap, the span and the duration of one run, whatever
\* was split off.
RunsAreSound ==
    stage \in {"chained", "feasible", "grouped"} =>
      /\ \A l \in lots : Cardinality(Holding(l)) = 1
      /\ SumOver([run \in runs |-> Len(run.lots)], runs) = Cardinality(lots)
      /\ Cardinality({Name(run) : run \in runs}) = Cardinality(runs)
      /\ \A run \in runs :
           LET its == run.lots IN
           /\ \A i \in DOMAIN its :
                /\ its[i].tool = run.tool /\ its[i].family = its[1].family
                /\ Floor(its[i]) = Floor(its[1])
                /\ its[i].edd - its[1].edd <= MaxSpan
           /\ \A i \in 2..Len(its) : its[i].edd - its[i - 1].edd \in 0..MaxGap
           /\ Len(its) = 1 \/ RunMinutes(its) <= MaxRunMinutes
=============================================================================
