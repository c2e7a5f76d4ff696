----------------------------- MODULE PlanChecks -----------------------------
(***************************************************************************)
(* What the planner asks of a finished layout: the physical validation     *)
(* (scheduler/validation.py), the score of its deliveries (scoring.py) and *)
(* the rank of two scores (priority.py).  A plan is a sequence of blocks   *)
(* [lot, run, machine, tool, from, setup, to, qty]: a block first sets its *)
(* machine up, for "setup" minutes, and then produces for at least one     *)
(* minute.  Its position in the sequence is its identity, as the passes of *)
(* the scheduler move blocks in place.                                     *)
(***************************************************************************)
EXTENDS MachineDispatch

CONSTANTS MachineStops, ToolStops \* intervals within a day each is stopped

\* A block, from its first minute on: it produces for at least one minute, on
\* a day the factory works.
Workable(plan) ==
    /\ Len(plan) \in Nat /\ DOMAIN plan = 1..Len(plan)
    /\ \A i \in DOMAIN plan :
         LET b == plan[i] IN
         /\ b.from \in Nat /\ b.setup \in Nat /\ b.to \in Nat /\ b.from + b.setup < b.to
         /\ b.machine \in Machines /\ b.tool \in DOMAIN Primary
         /\ b.from \div DayCap \notin Holidays

ASSUME StopsAssumption ==
    /\ \A m \in Machines : MachineStops[m] \subseteq Nat \X Nat
    /\ \A tool \in DOMAIN Primary : ToolStops[tool] \subseteq Nat \X Nat

DayOf(t) == t \div DayCap
Prod(b) == b.to - b.from - b.setup
SetupEnd(b) == b.from + b.setup
LotOf(b) == CHOOSE l \in lots : l.n = b.lot
Mounts(b) == <<b.tool, LotOf(b).family>>
PiecesOf(l) == l.made[Min(DOMAIN l.made)]

Tally(f(_), S) == MapThenSumSet(f, S)
Indices(plan) == [i \in DOMAIN plan |-> i]

\* The order of the blocks is that of their starts.
Ahead(plan, i, j) ==
    plan[i].from < plan[j].from \/ (plan[i].from = plan[j].from /\ i < j)

\* Some of the blocks in that order, and those of them that follow each other.
InOrderAmong(plan, its) ==
    SelectSeq(SortSeq(Indices(plan), LAMBDA i, j : Ahead(plan, i, j)), LAMBDA i : i \in its)
Neighbours(plan, its) ==
    {p \in its \X its :
       Ahead(plan, p[1], p[2]) /\ ~\E k \in its : Ahead(plan, p[1], k) /\ Ahead(plan, k, p[2])}

OnMachine(plan, m) == {i \in DOMAIN plan : plan[i].machine = m}
WithTool(plan, tool) == {i \in DOMAIN plan : plan[i].tool = tool}
MachinesOf(plan) == {plan[i].machine : i \in DOMAIN plan}
ToolsOf(plan) == {plan[i].tool : i \in DOMAIN plan}
RunsOf(plan) == {plan[i].run : i \in DOMAIN plan}
SetupsOf(plan) == {i \in DOMAIN plan : plan[i].setup > 0}

----------------------------------------------------------------------------
(* Physical validation: a violation is a kind and the blocks concerned.    *)

OutsideShift(plan) ==
    {<<"outside_shift", i>> : i \in {j \in DOMAIN plan : plan[j].to > Boundary(plan[j].from)}}

\* Mutant: only the stop a block begins in.
StopsStart(stop, b) == stop[1] <= b.from /\ b.from < stop[2]

Stops(stop, b) == b.from < stop[2] /\ stop[1] < b.to

\* Days a machine or a tool is not there, and stops within the other days.
Unavailable(plan, kind, used, blocked, stops) ==
    UNION {IF DayOf(plan[i].from) \in blocked[used[i]] THEN {<<kind, i>>}
           ELSE {<<kind, i, stop>> : stop \in {s \in stops[used[i]] : Stops(s, plan[i])}}
             : i \in DOMAIN plan}

DownTime(plan) ==
    Unavailable(plan, "machine_down", [i \in DOMAIN plan |-> plan[i].machine],
                MachineBlocked, MachineStops)
    \union
    Unavailable(plan, "tool_down", [i \in DOMAIN plan |-> plan[i].tool], ToolBlocked, ToolStops)

LotMinutes(plan) ==
    {<<"lot_production_minutes", l.n>> : l \in
       {k \in lots :
          LET its == {i \in DOMAIN plan : plan[i].lot = k.n}
              made == Tally(LAMBDA i : Prod(plan[i]), its)
          IN its # {} /\ (made - k.minutes > 1 \/ k.minutes - made > 1)}}

DayCapacity(plan) ==
    {<<"day_cap_violation", day[1], day[2]>> : day \in
       {k \in {<<plan[i].machine, DayOf(plan[i].from)>> : i \in DOMAIN plan} :
          Tally(LAMBDA i : plan[i].to - plan[i].from,
                {i \in DOMAIN plan : plan[i].machine = k[1] /\ DayOf(plan[i].from) = k[2]})
            > DayCap + 1}}

MachineOverlaps(plan) ==
    UNION {{<<"machine_overlap", p[2], p[1]>> : p \in
              {n \in Neighbours(plan, OnMachine(plan, m)) : Overlap(plan[n[1]], plan[n[2]])}}
             : m \in MachinesOf(plan)}

\* The machine has to be set up anew between two blocks.
Changes(b, next) == Mounts(b) # Mounts(next)

\* A block on a machine that has something else mounted needs its setup.
Unprepared(b) == b.setup < SetupMinutes[b.tool]

MachineChanges(plan) ==
    UNION {{<<"tool_change_setup", p[2]>> : p \in
              {n \in Neighbours(plan, OnMachine(plan, m)) :
                 Changes(plan[n[1]], plan[n[2]]) /\ Unprepared(plan[n[2]])}}
             : m \in MachinesOf(plan)}

\* A tool that returns from another machine needs it too.
ToolMoves(plan) ==
    UNION {{<<"tool_change_setup", p[2]>> : p \in
              {n \in Neighbours(plan, WithTool(plan, tool)) :
                 plan[n[1]].machine # plan[n[2]].machine /\ Unprepared(plan[n[2]])}}
             : tool \in ToolsOf(plan)}

\* The pairs of blocks that hold one tool on two machines.
ToolConflicts(plan) ==
    LET holds(i, j) ==
          /\ plan[i].tool = plan[j].tool /\ plan[i].machine # plan[j].machine
          /\ Ahead(plan, i, j) /\ plan[j].from < plan[i].to
    IN {p \in (DOMAIN plan) \X (DOMAIN plan) : holds(p[1], p[2])}

SetupBeforeMaterial(plan) ==
    {<<"setup_before_material", i>> : i \in
       {j \in SetupsOf(plan) : DayOf(plan[j].from) < Floor(LotOf(plan[j]))}}

\* A setup that begins while the crew of its group makes another one.
CrewOverlaps(plan) ==
    {i \in SetupsOf(plan) : \E j \in SetupsOf(plan) \ {i} :
       /\ Group[plan[j].machine] = Group[plan[i].machine]
       /\ Ahead(plan, j, i) /\ plan[i].from < SetupEnd(plan[j])}

\* A run is set up once, before it produces and by the block that produces first.
RunOrder(plan) ==
    UNION {LET its == InOrderAmong(plan, {i \in DOMAIN plan : plan[i].run = run})
               setups == SelectSeq(its, LAMBDA i : plan[i].setup > 0)
               done == SetupEnd(plan[Last(setups)])
           IN IF setups = <<>> THEN {}
              ELSE {<<"detached_setup", run>> : k \in
                      {its[1]} \ {i \in {Last(setups)} : Len(setups) = 1}}
                   \union {<<"run_setup_order", i>> : i \in
                             {j \in ToSet(its) : SetupEnd(plan[j]) < done}}
             : run \in RunsOf(plan)}

\* validate_plan
Violations(plan) ==
    OutsideShift(plan) \union DownTime(plan) \union LotMinutes(plan)
      \union DayCapacity(plan) \union MachineOverlaps(plan)
      \union MachineChanges(plan) \union ToolMoves(plan)
      \union {<<"tool_conflict", p>> : p \in ToolConflicts(plan)}
      \union SetupBeforeMaterial(plan)
      \union {<<"setup_crew_overlap", i>> : i \in CrewOverlaps(plan)}
      \union RunOrder(plan)

----------------------------------------------------------------------------
\* coverage_metrics: each kind of loss or excess counts as one violation.
Placed(plan, l) ==
    Tally(LAMBDA i : plan[i].qty, {i \in DOMAIN plan : plan[i].lot = l.n})

Uncounted(plan) ==
    {"missing_lots" : l \in {k \in lots : \A i \in DOMAIN plan : plan[i].lot # k.n}}
      \union {"missing_qty" : l \in {k \in lots : Placed(plan, k) < PiecesOf(k)}}
      \union {"overproduced_qty" : l \in {k \in lots : Placed(plan, k) > PiecesOf(k)}}

----------------------------------------------------------------------------
(* Score.                                                                  *)

Forward[day \in Int, workdays \in Nat] ==
    IF workdays = 0 THEN day
    ELSE Forward[day + 1, IF day + 1 \in Holidays THEN workdays ELSE workdays - 1]

Workdays(from, to) == Cardinality({d \in (from + 1)..to : d \notin Holidays})

\* The day the last block of a lot is worked on.
Completion(plan, l) ==
    LET its == {i \in DOMAIN plan : plan[i].lot = l.n}
    IN IF its = {} THEN Horizon ELSE Max({DayOf(plan[i].from) : i \in its})

\* _customer_delay_for_output
Delay(plan, l, op) == Forward[Completion(plan, l), Lead[op]] - l.due[op]
LotDelay(plan, l) == Max({Delay(plan, l, op) : op \in DOMAIN l.due})
Tardy(plan) == {l \in lots : LotDelay(plan, l) > 0}

\* The subcontracted outputs that leave the factory after their dispatch day.
LateDispatches(plan) ==
    LET late(l, op) == /\ op \in DOMAIN l.due /\ Subcontracted(op)
                       /\ Completion(plan, l) > ProductionDue(op, l.due[op])
    IN {m \in lots \X Ops : late(m[1], m[2])}

\* _compute_otd_d: the pieces of an operation there on a day.
There(plan, op, day) ==
    LET of(l) == {i \in DOMAIN plan : plan[i].lot = l.n}
        whole == {l \in lots : op \in DOMAIN l.made /\ Subcontracted(op) /\ of(l) # {}
                               /\ Forward[Completion(plan, l), Lead[op]] <= day}
        inPart == {i \in DOMAIN plan : op \in DOMAIN LotOf(plan[i]).made
                               /\ ~Subcontracted(op) /\ DayOf(plan[i].from) <= day}
    IN Tally(LAMBDA l : Placed(plan, l), whole) + Tally(LAMBDA i : plan[i].qty, inPart)
       + Tally(LAMBDA s : s.qty, {s \in supply : s.op = op /\ s.day <= day})

Shortfall(plan, op, day) ==
    IF demand[op][day] = 0 THEN 0
    ELSE PosPart(SumOver(demand[op], 0..day) - There(plan, op, day))

Score(plan) ==
    LET tardy == Tardy(plan)
        prior == {l \in tardy : l.priority > 0}
        short == [k \in Ops \X Days |-> Shortfall(plan, k[1], k[2])]
        misses == LateDispatches(plan)
        rank == <<Cardinality(prior), Tally(LAMBDA l : l.priority, prior),
                  Tally(LAMBDA l : l.priority * LotDelay(plan, l), prior)>>
                \o [d \in 1..Horizon |-> SumOver(short, Ops \X {d - 1})]
                \o <<Cardinality(tardy), Cardinality({k \in DOMAIN short : short[k] > 0}),
                     SumOver(short, DOMAIN short),
                     Tally(LAMBDA op : PosPart(SumOver(demand[op], Days)
                                                - There(plan, op, Horizon - 1)), Ops),
                     Tally(LAMBDA l : LotDelay(plan, l), tardy),
                     Max({0} \union {LotDelay(plan, l) : l \in tardy}),
                     Cardinality(misses),
                     Tally(LAMBDA m : Workdays(ProductionDue(m[2], m[1].due[m[2]]),
                                               Completion(plan, m[1])), misses)>>
    IN [hard |-> Cardinality(Violations(plan)) + Cardinality(Uncounted(plan)),
        tardy |-> Cardinality(tardy),
        failures |-> Cardinality({k \in DOMAIN short : short[k] > 0}),
        rank |-> rank]

\* delivery_not_worse: neither a guard nor the rank of the deliveries.  A plan
\* without any delay ranks before all others, which its zeros already say.
NotWorse(score, reference) ==
    /\ score.hard <= reference.hard
    /\ score.tardy <= reference.tardy
    /\ score.failures <= reference.failures
    /\ ~Precedes(reference.rank, score.rank)

----------------------------------------------------------------------------
(* What can be carried out, minute by minute, without looking at how the   *)
(* planner checks it.                                                      *)

Working(b, t) == b.from <= t /\ t < b.to
SettingUp(b, t) == b.from <= t /\ t < SetupEnd(b)
Producing(b, t) == SetupEnd(b) <= t /\ t < b.to

\* What unmounted the adjustment of block "b" last: another one on its machine,
\* or its tool on another machine.
Unmounting(plan, b, t) ==
    {i \in DOMAIN plan : /\ plan[i].from < t
                         /\ \/ plan[i].machine = b.machine /\ Mounts(plan[i]) # Mounts(b)
                            \/ plan[i].machine # b.machine /\ plan[i].tool = b.tool}
Mounted(plan, b, t) ==
    LET broken == Unmounting(plan, b, t)
        since == Max({plan[i].to : i \in broken})
    IN broken = {} \/ \E j \in DOMAIN plan :
          /\ plan[j].machine = b.machine /\ Mounts(plan[j]) = Mounts(b)
          /\ plan[j].from >= since /\ SetupEnd(plan[j]) <= t
          /\ plan[j].setup >= SetupMinutes[b.tool]

CanBeCarriedOut(plan) ==
    \A t \in UNION {plan[i].from..(plan[i].to - 1) : i \in DOMAIN plan} :
      LET now == {i \in DOMAIN plan : Working(plan[i], t)}
      IN /\ \A i, j \in now : i # j => /\ plan[i].machine # plan[j].machine
                                       /\ plan[i].tool # plan[j].tool
         /\ \A i, j \in {k \in now : SettingUp(plan[k], t)} :
              i # j => Group[plan[i].machine] # Group[plan[j].machine]
         /\ \A i \in now :
              /\ DayOf(t) \notin Holidays \union MachineBlocked[plan[i].machine]
                                   \union ToolBlocked[plan[i].tool]
              /\ \A s \in MachineStops[plan[i].machine] \union ToolStops[plan[i].tool] :
                   t < s[1] \/ s[2] <= t
              /\ Producing(plan[i], t) => Mounted(plan, plan[i], t)
=============================================================================
