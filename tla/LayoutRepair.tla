---------------------------- MODULE LayoutRepair ----------------------------
(***************************************************************************)
(* The repairs of scheduler.schedule_all: what it does to the layout of    *)
(* the fallback, which laid each machine out with setup crews of its own,  *)
(* before anybody scores or shows it.  Each pass moves whole blocks: the   *)
(* first ones keep their result only if no delivery gets worse for it, the *)
(* last one makes the plan executable whatever that costs.  One pass is    *)
(* one action, in the order of the code.                                   *)
(***************************************************************************)
EXTENDS PlanChecks

VARIABLE plan  \* final_segments

repairVars == <<dispatchVars, plan>>

MovedTo(b, t) == [b EXCEPT !.from = t, !.to = t + b.to - b.from]
Length(b) == b.to - b.from
DayStart(day) == day * DayCap

\* The blocks of a sequence of indices, in order of a key; ties stay as they are.
Stable(p, indices, key(_)) ==
    LET order == SortSeq(Indices(indices),
                    LAMBDA k, l : Precedes(key(p[indices[k]]) \o <<k>>, key(p[indices[l]]) \o <<l>>))
    IN [k \in DOMAIN indices |-> indices[order[k]]]

\* Steps of a pass, until one is the last; "left" bounds them.
Repeated(step(_), start, left) ==
    LET after[n \in Nat] ==
          IF n = 0 THEN start
          ELSE LET done == after[n - 1] IN IF done.over THEN done ELSE step(done)
    IN after[left]

\* The values of f in the order they first occur in the plan (dict order).
FirstOf(p, f(_), x) == Min({i \in DOMAIN p : f(p[i]) = x})

----------------------------------------------------------------------------
(* Overlaps on a machine.                                                  *)

NextWorkday(day) == Min({d \in day..(day + Cardinality(Holidays)) : d \notin Holidays})

\* Blocks that begin before the one ahead of them ends begin when it does; one
\* that the day has no room for goes to the next workday and ends the sweep.
SweepDays(p, order) ==
    FoldLeft(LAMBDA done, k :
        LET prev == done.plan[order[k - 1]]
            curr == done.plan[order[k]]
            overlaps == DayOf(prev.from) = DayOf(curr.from) /\ curr.from < prev.to
            fits == prev.to + Length(curr) <= DayStart(DayOf(curr.from) + 1)
        IN IF done.over \/ ~overlaps THEN done
           ELSE [plan |-> [done.plan EXCEPT ![order[k]] =
                             MovedTo(@, IF fits THEN prev.to
                                        ELSE DayStart(NextWorkday(DayOf(curr.from) + 1)))],
                 over |-> ~fits],
        [plan |-> p, over |-> FALSE], [k \in 1..(Len(order) - 1) |-> k + 1])

\* A sweep that ended early is followed by another one.
Rescan(p, order, left) ==
    LET sweep(done) ==
          LET sorted == Stable(done.plan, done.order, LAMBDA b : <<b.from>>)
              swept == SweepDays(done.plan, sorted)
          IN [plan |-> swept.plan, order |-> sorted, over |-> ~swept.over]
    IN Repeated(sweep, [plan |-> p, order |-> order, over |-> FALSE], left + 1).plan

\* _fix_day_overlaps
FixDayOverlaps(p) ==
    LET fix(q, m) ==
          LET its == SelectSeq(Indices(p), LAMBDA i : p[i].machine = m)
          IN Rescan(q, its, Len(its))
    IN FoldLeft(fix, p, SetToSeq(MachinesOf(p)))

----------------------------------------------------------------------------
(* Shifts.                                                                 *)

\* The starts of the shifts after a time, up to a workday.
ShiftsAfter(t) ==
    LET last == DayOf(t) + 1 + Cardinality(Holidays)
    IN {ShiftMinutes * s : s \in (t \div ShiftMinutes + 1)..(last * (DayCap \div ShiftMinutes))}

\* _shift_slot_at_or_after: the first time a shift has room for "minutes".
Slot(from, minutes) ==
    Min({t \in {from} \union ShiftsAfter(from) :
           DayOf(t) \notin Holidays /\ Boundary(t) - t >= minutes})

\* The minutes each machine has work on each day.
UsedMinutes(p) ==
    [k \in {<<p[i].machine, DayOf(p[i].from)>> : i \in DOMAIN p} |->
        Tally(LAMBDA i : Length(p[i]),
              {i \in DOMAIN p : <<p[i].machine, DayOf(p[i].from)>> = k})]

Used(used, m, day) == IF <<m, day>> \in DOMAIN used THEN used[<<m, day>>] ELSE 0

\* After everything else the machine does on that day.
AfterWork(p, m, day) ==
    Max({DayStart(day)} \union {p[i].to : i \in {j \in DOMAIN p :
            p[j].machine = m /\ DayOf(p[j].from) = day}})

ToolIsElsewhere(p, i, t) ==
    \E j \in DOMAIN p \ {i} : /\ p[j].tool = p[i].tool /\ p[j].machine # p[i].machine
                              /\ t < p[j].to /\ p[j].from < t + Length(p[i])

\* _try_relocate_truncated: the days from the due day of its production down
\* to its material that have room for a block.
Relocations(p, used, i) ==
    {day \in Max({0, Floor(LotOf(p[i]))})..LotOf(p[i]).edd :
        /\ day \notin Holidays /\ day # DayOf(p[i].from)
        /\ DayCap - Used(used, p[i].machine, day) >= Length(p[i])
        /\ LET t == Slot(AfterWork(p, p[i].machine, day), Length(p[i]))
           IN DayOf(t) = day /\ ~ToolIsElsewhere(p, i, t)}

\* _sanitize_segments: a block that crosses the end of a shift is moved.
Sanitize(p) ==
    LET move(done, i) ==
          LET b == done.plan[i]
              m == b.machine
              days == Relocations(done.plan, done.used, i)
              day == Max(days)
              key == <<m, day>>
              before == <<m, DayOf(b.from)>>
          IN IF b.to <= Boundary(b.from) THEN done
             ELSE IF days = {}
               THEN [done EXCEPT !.plan[i] = MovedTo(b, Slot(b.from, Length(b)))]
             ELSE [plan |-> [done.plan EXCEPT ![i] =
                               MovedTo(b, Slot(AfterWork(done.plan, m, day), Length(b)))],
                   used |-> [k \in DOMAIN done.used \union {key} |->
                               IF k = key THEN Used(done.used, m, day) + Length(b)
                               ELSE IF k = before THEN PosPart(done.used[k] - Length(b))
                               ELSE done.used[k]]]
    IN FoldLeft(move, [plan |-> p, used |-> UsedMinutes(p)], Indices(p)).plan

----------------------------------------------------------------------------
(* One crew for the setups of a group.                                     *)

SetupsIn(p, g) ==
    InOrderAmong(p, {i \in SetupsOf(p) : Group[p[i].machine] = g})
GroupsOf(p) == SetToSortSeq({Group[p[i].machine] : i \in SetupsOf(p)}, <)

\* _try_pull_back: how much earlier the block "i" can be, of "wanted" minutes.
PullBack(p, i, wanted) ==
    LET b == p[i]
        ahead == {p[j].to : j \in {k \in DOMAIN p :
                    /\ p[k].machine = b.machine /\ DayOf(p[k].from) = DayOf(b.from)
                    /\ p[k].to <= b.from}}
        earliest == Max({Boundary(b.from) - ShiftMinutes} \union ahead)
    IN Least(wanted, b.from - earliest)

\* One setup of _serialize_crew_setups_group: the setup that is in its way goes
\* back as far as it can; if that was not meant to be enough this one waits.
SerializeNext(c, i) ==
    LET b == c.plan[i]
        wanted == c.until - b.from
        room == c.plan[c.last].from - c.before
        pull == PullBack(c.plan, c.last, Least(wanted, room))
        pulls == c.last # 0 /\ Least(wanted, room) >= 1 /\ pull >= 1
        pulled == IF pulls
                  THEN [c EXCEPT !.plan[c.last] = MovedTo(@, @.from - pull),
                                 !.until = SetupEnd(c.plan[c.last]) - pull]
                  ELSE c
        at == Slot(pulled.until, Length(b))
        pushed == [pulled EXCEPT !.plan[i] = MovedTo(@, at), !.until = at + b.setup, !.last = i,
                     !.before = IF c.last = 0 THEN 0 ELSE SetupEnd(pulled.plan[c.last])]
    IN IF wanted <= 0
         THEN [c EXCEPT !.before = c.until, !.until = SetupEnd(b), !.last = i]
       ELSE IF pulls /\ room >= wanted
         THEN [pulled EXCEPT !.until = SetupEnd(b), !.last = i]
       ELSE pushed

\* _serialize_crew_setups
SerializeCrews(p) ==
    LET group(q, g) ==
          LET entries == SetupsIn(q, g)
          IN FoldLeft(SerializeNext,
                      [plan |-> q, until |-> q[entries[1]].from, before |-> 0, last |-> 0],
                      entries).plan
    IN FoldLeft(group, p, GroupsOf(p))

\* One setup of _serialize_crew_safe_group: it waits if it is not late for it.
SafeNext(c, i) ==
    LET b == c.plan[i]
        at == Slot(c.until, Length(b))
        held == b.from < c.until /\ b.machine # c.machine
        taken == IF SetupEnd(b) > c.until
                 THEN [c EXCEPT !.until = SetupEnd(b), !.machine = b.machine] ELSE c
        moved == [c EXCEPT !.plan[i] = MovedTo(b, at)]
    IN IF ~held \/ DayOf(at) > LotOf(b).edd THEN taken
       ELSE IF DayOf(at) = DayOf(b.from)
         THEN [moved EXCEPT !.until = at + b.setup, !.machine = b.machine]
       ELSE moved

\* _serialize_crew_safe
SerializeSafe(p) ==
    LET group(q, g) ==
          LET entries == SetupsIn(q, g)
          IN FoldLeft(SafeNext,
                      [plan |-> q, until |-> q[entries[1]].from, machine |-> Nowhere],
                      entries).plan
    IN FoldLeft(group, p, GroupsOf(p))

\* Ten rounds at most, and none after one that changed nothing.
CrewRounds == 10

Settled(safe, p) ==
    LET round(done) ==
          LET next == Sanitize(FixDayOverlaps(IF safe THEN SerializeSafe(done.plan)
                                              ELSE SerializeCrews(done.plan)))
          IN [plan |-> next, over |-> next = done.plan]
    IN Repeated(round, [plan |-> p, over |-> FALSE], CrewRounds).plan

----------------------------------------------------------------------------
(* A tool on two machines.                                                 *)

\* Of two blocks the one with the later due day waits, not beyond that day.
Deferred(p, pair) == IF LotOf(p[pair[2]]).edd < LotOf(p[pair[1]]).edd
                     THEN pair[1] ELSE pair[2]
Kept(p, pair) == IF Deferred(p, pair) = pair[1] THEN pair[2] ELSE pair[1]
DeferredTo(p, pair) == Slot(p[Kept(p, pair)].to, Length(p[Deferred(p, pair)]))
Deferrable(p) ==
    {pair \in ToolConflicts(p) : DayOf(DeferredTo(p, pair)) <= LotOf(p[Deferred(p, pair)]).edd}

\* _fix_tool_machine_overlaps
FixToolOverlaps(p) ==
    LET defer(done) ==
          LET q == done.plan
              pair == FirstBy(LAMBDA k : <<FirstOf(q, LAMBDA b : b.tool, q[k[1]].tool),
                                           q[k[1]].from, k[1], q[k[2]].from, k[2]>>, Deferrable(q))
          IN IF Deferrable(q) = {} THEN [done EXCEPT !.over = TRUE]
             ELSE [done EXCEPT !.plan[Deferred(q, pair)] = MovedTo(@, DeferredTo(q, pair))]
    IN Repeated(defer, [plan |-> p, over |-> FALSE], Len(p) + 1).plan

----------------------------------------------------------------------------
(* Setups that another group's crew can make meanwhile.                    *)

\* The first block of each run.
Openings(p) ==
    {i \in DOMAIN p : ~\E j \in DOMAIN p :
        p[j].run = p[i].run /\ Ahead(p, j, i)}

\* The end of what the machine did before on that day.
IdleFrom(p, i) ==
    Max({DayStart(DayOf(p[i].from))} \union
        {p[j].to : j \in {k \in DOMAIN p :
            /\ p[k].machine = p[i].machine /\ p[k].run # p[i].run
            /\ DayOf(p[k].from) = DayOf(p[i].from) /\ p[k].to <= p[i].from}})

\* Where a setup can be tried: at once, or when another one of its group ends.
EarlierStarts(p, i) ==
    IF IdleFrom(p, i) >= p[i].from THEN {}
    ELSE {IdleFrom(p, i)} \union
         {t \in {SetupEnd(p[j]) : j \in {k \in SetupsOf(p) :
                    /\ DayOf(p[k].from) = DayOf(p[i].from)
                    /\ Group[p[k].machine] = Group[p[i].machine]}} :
            IdleFrom(p, i) < t /\ t < p[i].from}

\* The blocks of its run on that day, all as much earlier.
RunPulled(p, i, t) ==
    [j \in DOMAIN p |->
        IF /\ p[j].run = p[i].run /\ DayOf(p[j].from) = DayOf(p[i].from)
           /\ p[j].from >= p[i].from
        THEN MovedTo(p[j], p[j].from - (p[i].from - t)) ELSE p[j]]

CrewSuffices(p, i) ==
    \A j, k \in {n \in SetupsOf(p) : /\ DayOf(p[n].from) = DayOf(p[i].from)
                                     /\ Group[p[n].machine] = Group[p[i].machine]} :
        j # k => p[j].from >= SetupEnd(p[k]) \/ p[k].from >= SetupEnd(p[j])

\* _parallelize_independent_setup_starts
ParallelizeSetups(p) ==
    LET pull(q, i) ==
          LET legal == {t \in EarlierStarts(q, i) :
                          LET r == RunPulled(q, i, t)
                          IN CrewSuffices(r, i) /\ ToolConflicts(r) = {}}
          IN IF legal = {} \/ q[i].setup = 0 \/ DayOf(q[i].from) \in Holidays THEN q
             ELSE RunPulled(q, i, Min(legal))
        first == SelectSeq(Indices(p), LAMBDA i : i \in Openings(p))
    IN FoldLeft(pull, p, Stable(p, first, LAMBDA b : <<b.from, b.machine>>))

\* window_violation_details: lots that produce before their material is there.
EarlyLots(p) ==
    {l \in lots : \E i \in DOMAIN p : p[i].lot = l.n /\ DayOf(p[i].from) < l.release}

----------------------------------------------------------------------------
(* Setups for what is mounted already.                                     *)

\* retained_setup_at: what the machine did last had the same adjustment, and
\* some work was done with it since it was last broken.
Retained(p, i) ==
    LET b == p[i]
        before == {j \in DOMAIN p : p[j].from < b.from}
        preceding == {j \in before : p[j].machine = b.machine /\ p[j].run # b.run}
        last == CHOOSE j \in preceding :
                  \A k \in preceding \ {j} :
                    Precedes(<<p[k].to, p[k].from, -k>>, <<p[j].to, p[j].from, -j>>)
        break == Max({-1} \union {p[j].to : j \in {k \in before :
                    \/ p[k].machine = b.machine /\ Mounts(p[k]) # Mounts(b)
                    \/ p[k].machine # b.machine /\ p[k].tool = b.tool}})
    IN /\ preceding # {} /\ p[last].to <= b.from /\ Mounts(p[last]) = Mounts(b)
       /\ \E j \in preceding : p[j].from >= break /\ Mounts(p[j]) = Mounts(b)

\* Its production stays where it is.
WithoutSetup(b) == [b EXCEPT !.from = SetupEnd(b), !.setup = 0]

\* _remove_redundant_retained_tool_setups, one machine after the other
RemoveRetainedSetups(p) ==
    LET opening == SelectSeq(Indices(p), LAMBDA i : i \in Openings(p))
        remove(q, i) == IF q[i].setup > 0 /\ Retained(q, i)
                        THEN [q EXCEPT ![i] = WithoutSetup(@)] ELSE q
        onMachine(i) == FirstOf(p, LAMBDA b : b.machine, p[i].machine)
        order == SortSeq(opening, LAMBDA i, j :
                    Precedes(<<onMachine(i), p[i].from, i>>, <<onMachine(j), p[j].from, j>>))
    IN FoldLeft(remove, p, order)

----------------------------------------------------------------------------
(* What must hold whatever it costs.                                       *)

\* Mutant: the pieces of the second block are forgotten.
JoinedUncounted(b, next) == [b EXCEPT !.to = next.to]

\* A block and the one that continues it.
Joined(b, next) == [b EXCEPT !.to = next.to, !.qty = @ + next.qty]

\* _merge_contiguous_segments: neighbours of one lot within a shift are one
\* block.  No block crosses a shift any more, so that none is split.
Merged(p) ==
    LET continues(b, next) ==
          /\ <<b.lot, b.run, b.machine, b.to>> = <<next.lot, next.run, next.machine, next.from>>
          /\ Boundary(b.from) = Boundary(next.from) /\ next.setup = 0
        add(done, i) ==
          IF done # <<>> /\ continues(Last(done), p[i])
          THEN [done EXCEPT ![Len(done)] = Joined(@, p[i])]
          ELSE Append(done, p[i])
    IN FoldLeft(add, <<>>, Stable(p, Indices(p), LAMBDA b : <<b.from, b.machine>>))

ClosedTo(b) == Holidays \union MachineBlocked[b.machine] \union ToolBlocked[b.tool]

\* The ends of the stops within the minutes from "t" on that "b" would take.
StopEnds(b, t) ==
    {s[2] : s \in {u \in MachineStops[b.machine] \union ToolStops[b.tool] :
                     t < u[2] /\ u[1] < t + Length(b)}}

\* _move_segment_at_or_after
LegalFrom(b, from) ==
    LET legal[t \in Int] ==
          LET at == Slot(t, Length(b))
          IN IF DayOf(at) \in ClosedTo(b) THEN legal[DayStart(DayOf(at) + 1)]
             ELSE IF StopEnds(b, at) # {} THEN legal[Max(StopEnds(b, at))]
             ELSE at
    IN legal[from]

Moved(p, i, t) == [p EXCEPT ![i] = MovedTo(@, LegalFrom(@, t))]

\* The rules; each gives the moves <<block, not before>> it asks for, and the
\* first one in the order of its key is made.
OffBlockedDays(p) ==
    LET bad == {i \in DOMAIN p : DayOf(p[i].from) \in ClosedTo(p[i])}
        i == FirstBy(LAMBDA k : <<p[k].from, k>>, bad)
    IN IF bad = {} THEN {} ELSE {<<i, DayStart(DayOf(p[i].from) + 1)>>}

OffStops(p) ==
    LET bad == {i \in DOMAIN p : StopEnds(p[i], p[i].from) # {}}
        i == FirstBy(LAMBDA k : <<p[k].from, k>>, bad)
    IN IF bad = {} THEN {} ELSE {<<i, Max(StopEnds(p[i], p[i].from))>>}

\* A run produces nothing before its setup is done.
SetupOf(p, run) ==
    FirstBy(LAMBDA k : <<p[k].from, k>>, {j \in SetupsOf(p) : p[j].run = run})
AfterSetup(p) ==
    LET ready(i) == SetupEnd(p[SetupOf(p, p[i].run)])
        bad == {i \in DOMAIN p : /\ \E j \in SetupsOf(p) : p[j].run = p[i].run
                                 /\ i # SetupOf(p, p[i].run) /\ p[i].from < ready(i)}
        i == FirstBy(LAMBDA k : <<FirstOf(p, LAMBDA b : b.run, p[k].run), p[k].from, k>>, bad)
    IN IF bad = {} THEN {} ELSE {<<i, ready(i)>>}

ToolOnce(p) ==
    LET pair == FirstBy(LAMBDA k : <<FirstOf(p, LAMBDA b : b.tool, p[k[1]].tool),
                                     p[k[1]].from, k[1], p[k[2]].from, k[2]>>, ToolConflicts(p))
    IN IF ToolConflicts(p) = {} THEN {} ELSE {<<pair[2], p[pair[1]].to>>}

CrewOnce(p) ==
    LET waitsFor(i, j) == /\ Group[p[i].machine] = Group[p[j].machine]
                          /\ Ahead(p, i, j)
                          /\ p[j].from < SetupEnd(p[i])
        waits == {e \in SetupsOf(p) \X CrewOverlaps(p) : waitsFor(e[1], e[2])}
        listed(g) == Min({i \in SetupsOf(p) : Group[p[i].machine] = g})
        first == FirstBy(LAMBDA k : <<listed(Group[p[k[2]].machine]), p[k[2]].from, k[2],
                                      SetupEnd(p[k[1]]), k[1]>>, waits)
    IN IF waits = {} THEN {} ELSE {<<first[2], SetupEnd(p[first[1]])>>}

\* The order a machine keeps, whatever moves: "rank" is the place of a block.
Ranks(p) ==
    [i \in DOMAIN p |->
        Cardinality({j \in DOMAIN p :
            Precedes(<<p[j].from, IF p[j].setup > 0 THEN 0 ELSE 1, p[j].to, j>>,
                     <<p[i].from, IF p[i].setup > 0 THEN 0 ELSE 1, p[i].to, i>>)})]

\* Mutant: the blocks of a machine, in the order they have got into.
RankedByStart(done, m) ==
    SortSeq(SelectSeq(Indices(done.plan), LAMBDA i : done.plan[i].machine = m),
            LAMBDA i, j : Precedes(<<done.plan[i].from, i>>, <<done.plan[j].from, j>>))

\* The blocks of a machine in their places.
Ranked(done, m) ==
    SortSeq(SelectSeq(Indices(done.plan), LAMBDA i : done.plan[i].machine = m),
            LAMBDA i, j : done.rank[i] < done.rank[j])

\* One sweep over a machine: each block begins after the one ahead of it; a
\* setup that is behind the production of its run changes places with it, which
\* ends the sweep.
SweepMachine(done, m) ==
    LET ranked == Ranked(done, m)
        step(d, k) ==
          LET i == ranked[k - 1]
              j == ranked[k]
              prev == d.plan[i]
              curr == d.plan[j]
          IN IF d.over THEN d
             ELSE IF curr.run = prev.run /\ curr.setup > 0 /\ prev.setup = 0
               THEN [plan |-> IF prev.from < curr.to THEN Moved(d.plan, i, curr.to) ELSE d.plan,
                     rank |-> [d.rank EXCEPT ![i] = d.rank[j], ![j] = d.rank[i]],
                     over |-> TRUE, moved |-> TRUE]
             ELSE IF curr.from < prev.to
               THEN [d EXCEPT !.plan = Moved(d.plan, j, prev.to), !.moved = TRUE]
             ELSE d
    IN FoldLeft(step, [done EXCEPT !.over = FALSE], [k \in 1..(Len(ranked) - 1) |-> k + 1])

SweepMachines(p, rank) ==
    FoldLeft(SweepMachine, [plan |-> p, rank |-> rank, over |-> FALSE, moved |-> FALSE],
             SetToSeq(MachinesOf(p)))

\* The first rule that asks for something is followed.
Follow(done) ==
    LET p == done.plan
        before == <<OffBlockedDays(p), OffStops(p), AfterSetup(p)>>
        after == <<ToolOnce(p), CrewOnce(p)>>
        first(rules) == {rules[k] : k \in {n \in DOMAIN rules : rules[n] # {}
                             /\ \A o \in 1..(n - 1) : rules[o] = {}}}
        swept == SweepMachines(p, done.rank)
        follow(moves) == LET move == CHOOSE x \in UNION moves : TRUE
                         IN [done EXCEPT !.plan = Moved(p, move[1], move[2])]
    IN IF first(before) # {} THEN follow(first(before))
       ELSE IF swept.moved THEN [done EXCEPT !.plan = swept.plan, !.rank = swept.rank]
       ELSE IF first(after) # {} THEN follow(first(after))
       ELSE [done EXCEPT !.over = TRUE]

\* All over again, until none does.
Repaired(p, rank, left) ==
    Repeated(Follow, [plan |-> p, rank |-> rank, over |-> FALSE], left).plan

\* Mutant: one pass over the rules.
RepairOnce(p) == Repaired(p, Ranks(p), 1)

\* _repair_hard_constraints
RepairHard(p) == Repaired(p, Ranks(p), Max({100, 8 * Len(p)}))

----------------------------------------------------------------------------
(* The passes.                                                             *)

Listed(blocks) ==
    LET ahead(b) == {c \in blocks : Precedes(<<c.machine, c.from>>, <<b.machine, b.from>>)}
    IN [i \in 1..Cardinality(blocks) |-> CHOOSE b \in blocks : Cardinality(ahead(b)) = i - 1]

RepairInit == plan = <<>>

\* The blocks of the fallback, machine by machine.
LayOut ==
    /\ stage = "releasing" /\ Waiting = {}
    /\ stage' = "crews"
    /\ plan' = FixDayOverlaps(Listed(segments))
    /\ UNCHANGED dispatchVars

\* A pass is over, with this result.
Becomes(next, result) ==
    /\ stage' = next
    /\ plan' = result
    /\ UNCHANGED dispatchVars

\* The setups are serialized, or as far as no delivery gets later.
SerializePass ==
    /\ stage = "crews"
    /\ \E before \in {Score(plan)}, crews \in {Settled(FALSE, plan)} :
         \/ /\ NotWorse(Score(crews), before)
            /\ Becomes("tools", crews)
         \/ /\ ~NotWorse(Score(crews), before)
            /\ \E safe \in {Settled(TRUE, plan)} :
                 Becomes("tools", IF NotWorse(Score(safe), before) THEN safe ELSE plan)

ToolPass ==
    /\ stage = "tools"
    /\ \E result \in {FixDayOverlaps(FixToolOverlaps(plan))} :
         Becomes("parallel", IF NotWorse(Score(result), Score(plan)) THEN result ELSE plan)

\* _accept_setup_parallelization
Accepted(result) ==
    /\ NotWorse(Score(result), Score(plan))
    /\ Cardinality(EarlyLots(result)) <= Cardinality(EarlyLots(plan))
    /\ Cardinality(ToolConflicts(result)) <= Cardinality(ToolConflicts(plan))

ParallelPass ==
    /\ stage = "parallel"
    /\ \E result \in {Sanitize(FixDayOverlaps(ParallelizeSetups(plan)))} :
         Becomes("bounds", IF Accepted(result) THEN result ELSE plan)

BoundsPass ==
    /\ stage = "bounds"
    /\ Becomes("hard", RemoveRetainedSetups(Sanitize(plan)))

HardPass ==
    /\ stage = "hard"
    /\ Becomes("repaired", RepairHard(Merged(plan)))

RepairNext ==
    LayOut \/ SerializePass \/ ToolPass \/ ParallelPass \/ BoundsPass \/ HardPass

----------------------------------------------------------------------------
Repairing == stage \in {"crews", "tools", "parallel", "bounds", "hard", "repaired"}

\* No repair makes or loses work: each lot keeps the pieces and the minutes
\* of production the layout gave it, whatever blocks were moved or merged, and
\* every block still produces for some time, on a workday.
WorkIsConserved ==
    Repairing =>
      /\ Workable(plan)
      /\ \A l \in lots :
           /\ Placed(plan, l) = LaidPieces(l)
           /\ Tally(LAMBDA i : Prod(plan[i]), {i \in DOMAIN plan : plan[i].lot = l.n})
                = Tally(Prod, Laid(l))

\* What the last pass returns can be carried out: its rules do not undo each
\* other until the passes run out.
RepairedIsExecutable ==
    stage = "repaired" =>
      /\ \A i, j \in DOMAIN plan :
           i # j /\ (plan[i].machine = plan[j].machine \/ plan[i].tool = plan[j].tool)
             => ~Overlap(plan[i], plan[j])
      /\ OutsideShift(plan) = {} /\ CrewOverlaps(plan) = {}
      /\ \A i \in DOMAIN plan : /\ DayOf(plan[i].from) \notin ClosedTo(plan[i])
                                /\ StopEnds(plan[i], plan[i].from) = {}

\* "Feasibility repair only pushes work later; it must never reorder a machine."
OrderIsKept ==
    [][stage = "hard" =>
         \E before \in {Merged(plan)} :
           \A i, j \in DOMAIN before :
             /\ plan'[i].from >= before[i].from
             /\ (/\ before[i].machine = before[j].machine /\ before[i].run # before[j].run
                 /\ before[i].from < before[j].from) => plan'[i].from < plan'[j].from]_<<stage, plan>>

\* What the validation passes can be carried out, minute by minute.
ValidatorIsSound ==
    Repairing /\ Violations(plan) = {} => CanBeCarriedOut(plan)
=============================================================================
