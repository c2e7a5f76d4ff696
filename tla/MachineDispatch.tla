--------------------------- MODULE MachineDispatch ---------------------------
(***************************************************************************)
(* Phase 3 of the scheduler (scheduler/dispatch.py) and the fallback of    *)
(* phase 4 (scheduler/jit.py): the runs are assigned to machines, put in   *)
(* an order, and laid out in time.  The machines share the tools, and the  *)
(* machines of a group share one crew that makes the setups.  The first    *)
(* layout starts everything as early as it can; the fallback does it again *)
(* and lets no lot start before the release of its material.               *)
(*                                                                         *)
(* Time is counted in productive minutes from day 0, in whole minutes.     *)
(***************************************************************************)
EXTENDS ToolGrouping

CONSTANTS
    Machines,        \* numbered: heapq breaks the last tie by identifier
    Primary,         \* machine of each tool
    Alternative,     \* and its other machine, or Nowhere
    Nowhere,         \* no machine
    Group,           \* of each machine, whose setups one crew makes
    ShiftMinutes,    \* length of a shift
    MachineBlocked,  \* days a machine is not available
    ToolBlocked,     \* days a tool is not available
    EarlyDays,       \* edd_assign_threshold
    CampaignWindow,  \* campaign_window
    SwapTolerance    \* edd_swap_tolerance

ASSUME DispatchAssumption ==
    /\ Machines \subseteq Nat /\ Nowhere \notin Machines
    /\ ShiftMinutes \in Nat \ {0} /\ DayCap \in Nat \ {0} /\ DayCap % ShiftMinutes = 0
    /\ \A tool \in DOMAIN Primary : SetupMinutes[tool] \in Nat

VARIABLES
    queues,    \* of each machine: the runs it has not got to
    turn,      \* the machine that goes on with the tool it has mounted
    free,      \* when each machine is available
    mounted,   \* the setup of each machine
    crew,      \* when the crew of each group is available
    bookings,  \* the intervals each tool is held by a machine
    segments   \* the blocks laid out

layoutVars == <<turn, free, mounted, crew, bookings, segments>>
dispatchVars == <<groupingVars, queues, layoutVars>>

Bare == <<0, 0>>

EmptyLayout ==
    /\ turn = Nowhere
    /\ free = [m \in Machines |-> 0]
    /\ mounted = [m \in Machines |-> Bare]
    /\ crew = [g \in {Group[m] : m \in Machines} |-> 0]
    /\ bookings = {}
    /\ segments = {}

DispatchInit ==
    /\ GroupingInit
    /\ queues = [m \in Machines |-> <<>>]
    /\ EmptyLayout

----------------------------------------------------------------------------
DueDay(run) == run.lots[1].edd
TotalMinutes(run) == RunMinutes(run.lots) + SetupMinutes[run.tool]
Identity(run) == <<run.tool, run.lots[1].family>>

\* run_urgent_delivery_qty
UrgentPieces(run) ==
    LET first == Min({l.rupture : l \in ToSet(run.lots)})
    IN MapThenSumSet(Pieces, {l \in ToSet(run.lots) : l.rupture = first})

\* run_priority_key; the first two are the class of its urgency.
RunPriority(run) ==
    LET urgent == run.lots[1]
    IN <<urgent.edd, urgent.rupture, -urgent.priority, -UrgentPieces(run), urgent.n>>
UrgencyClass(run) == SubSeq(RunPriority(run), 1, 2)

MoreUrgent(run, other) == Precedes(RunPriority(run), RunPriority(other))
InOrder(chosen) == SetToSortSeq(chosen, MoreUrgent)

----------------------------------------------------------------------------
(* Assignment: a run that may go elsewhere goes where there is less work,  *)
(* unless its tool would be on both machines at once.                      *)

WorkAhead(placed, machine, run) ==
    MapThenSumSet(LAMBDA p : TotalMinutes(p.run),
        {p \in placed : /\ p.machine = machine
                        /\ DueDay(run) > EarlyDays \/ DueDay(p.run) <= DueDay(run)})

WindowEnd(run) == (DueDay(run) + 1) * DayCap
WindowStart(run) == WindowEnd(run) - TotalMinutes(run)

Contended(placed, machine, run) ==
    \E p \in placed : /\ p.run.tool = run.tool /\ p.machine # machine
                      /\ WindowStart(run) < WindowEnd(p.run)
                      /\ WindowStart(p.run) < WindowEnd(run)

Chosen(placed, run) ==
    LET home == Primary[run.tool]
        away == Alternative[run.tool]
        lighter == IF WorkAhead(placed, home, run) <= WorkAhead(placed, away, run)
                   THEN home ELSE away
        other == IF lighter = home THEN away ELSE home
    IN IF Contended(placed, lighter, run) /\ ~Contended(placed, other, run)
       THEN other ELSE lighter

\* assign_machines: those without a choice first, then the longest ones.
Assigned ==
    LET fixed == {run \in runs : Alternative[run.tool] = Nowhere}
        first == {[run |-> run, machine |-> Primary[run.tool]] : run \in fixed}
        longest(run, other) == Precedes(<<-TotalMinutes(run)>> \o RunPriority(run),
                                        <<-TotalMinutes(other)>> \o RunPriority(other))
    IN FoldLeft(LAMBDA placed, run :
                  placed \union {[run |-> run, machine |-> Chosen(placed, run)]},
                first, SetToSortSeq(runs \ fixed, longest))

QueuesByPriority ==
    [m \in Machines |-> InOrder({p.run : p \in {q \in Assigned : q.machine = m}})]

----------------------------------------------------------------------------
(* Order: the runs of one setup follow each other where no urgency is lost. *)

\* The run after "done": of those due soon the most urgent one, or one of its
\* class that needs no setup.
NextInCampaign(done, all) ==
    LET last == Last(done)
        left == ToSet(all) \ ToSet(done)
        soon == {run \in left : DueDay(run) <= DueDay(last) + CampaignWindow}
        candidates == IF soon = {} THEN left ELSE soon
        urgent == FirstBy(RunPriority, candidates)
        retained == {run \in candidates : /\ Identity(run) = Identity(last)
                                          /\ UrgencyClass(run) = UrgencyClass(urgent)}
    IN IF retained = {} THEN urgent ELSE FirstBy(RunPriority, retained)

\* _campaign_sequence
Campaigned(s) ==
    IF Len(s) <= 2 THEN s
    ELSE FoldLeft(LAMBDA done, run : Append(done, NextInCampaign(done, s)),
                  <<s[1]>>, Tail(s))

\* The runs behind a campaign that are more urgent than its next run.
Blocked(s, i) ==
    {j \in (i + 2)..Len(s) : /\ Identity(s[i + 1]) = Identity(s[i])
                             /\ Identity(s[j]) # Identity(s[i])
                             /\ MoreUrgent(s[j], s[i + 1])}

\* _interleave_urgent: they break the campaign, until none is left.
Interleaved(runsInOrder) ==
    LET step[s \in Seq(ToSet(runsInOrder))] ==
          LET breaks == {i \in DOMAIN s : Blocked(s, i) # {}}
              i == Min(breaks)
              j == CHOOSE k \in Blocked(s, i) :
                     \A other \in Blocked(s, i) \ {k} : MoreUrgent(s[k], s[other])
          IN IF breaks = {} THEN s ELSE step[InsertAt(RemoveAt(s, j), i + 1, s[j])]
    IN step[runsInOrder]

\* A setup less, for a run that may come later than the one it trades with.
Swaps(s) ==
    LET trades(i, j) ==
          /\ j \in (i + 2)..(i + 9)
          /\ Identity(s[i]) # Identity(s[i + 1])
          /\ Identity(s[i]) = Identity(s[j])
          /\ DueDay(s[i + 1]) - DueDay(s[j]) \in (-SwapTolerance)..SwapTolerance
          /\ ~MoreUrgent(s[j], s[i + 1])
    IN {pair \in (DOMAIN s) \X (DOMAIN s) : trades(pair[1], pair[2])}

\* _two_opt
TwoOpt(runsInOrder) ==
    LET step[s \in Seq(ToSet(runsInOrder))] ==
          LET swap == FirstBy(LAMBDA pair : pair, Swaps(s))
          IN IF Swaps(s) = {} THEN s
             ELSE step[[s EXCEPT ![swap[1] + 1] = s[swap[2]], ![swap[2]] = s[swap[1] + 1]]]
    IN step[runsInOrder]

\* enforce_same_deadline_run_priority: each class keeps its places.
Enforced(s) ==
    LET places(i) == {j \in DOMAIN s : UrgencyClass(s[j]) = UrgencyClass(s[i])}
    IN [i \in DOMAIN s |->
          InOrder({s[j] : j \in places(i)})[Cardinality({j \in places(i) : j <= i})]]

\* sequence_per_machine
Sequenced(s) == Enforced(TwoOpt(Interleaved(Campaigned(s))))

----------------------------------------------------------------------------
(* Time.                                                                   *)

Finish == Horizon * DayCap
Boundary(t) == (t \div ShiftMinutes + 1) * ShiftMinutes

Closed(machine, run) == Holidays \union MachineBlocked[machine] \union ToolBlocked[run.tool]

\* _snap_to_shift
Snap(t, closed) ==
    LET day == t \div DayCap
    IN IF day \in closed THEN DayCap * Min({d \in day..(Max(closed) + 1) : d \notin closed})
       ELSE t

\* Where the setup fits the shift; Finish or later if it does not before the end.
SetupStart(from, minutes, closed) ==
    LET fits[t \in Nat] ==
          IF t >= Finish \/ Boundary(t) - t >= minutes THEN t
          ELSE fits[Snap(Boundary(t), closed)]
    IN fits[Snap(from, closed)]

----------------------------------------------------------------------------
(* Allocation of one run.                                                  *)

\* Python's round: to the nearest, and to the even of two.
Rounded(n, d) ==
    LET q == n \div d
        r == 2 * (n % d)
    IN IF r > d \/ (r = d /\ q % 2 = 1) THEN q + 1 ELSE q

\* The material release of a lot; only the fallback looks at it.
MaterialFloor(l) == Floor(l) * DayCap

\* One lot from "start" on: its blocks end with the shift and carry pieces in
\* proportion to their minutes; the setup goes with the first one.
Blocks(l, run, machine, start, setupMinutes) ==
    LET closed == Closed(machine, run)
        pieces == l.made[Min(DOMAIN l.made)]
        from[at \in Nat, left \in Nat, qty \in Nat, setup \in Nat] ==
          LET t == Snap(at, closed)
              room == Boundary(t) - t
              minutes == Least(left, room - setup)
              share == IF left = minutes THEN qty
                       ELSE Least(qty, Rounded(pieces * minutes, l.minutes))
              rest == from[t + setup + minutes, IF share = qty THEN 0 ELSE left - minutes,
                           qty - share, 0]
          IN IF left = 0 THEN [to |-> at, made |-> {}]
             ELSE IF t >= Finish THEN [to |-> t, made |-> {}]
             ELSE IF setup >= room THEN from[Boundary(t), left, qty, setup]
             ELSE [to |-> rest.to,
                   made |-> rest.made \union
                     {[lot |-> l.n, run |-> Name(run), machine |-> machine,
                       tool |-> run.tool, from |-> t, setup |-> setup,
                       to |-> t + setup + minutes, qty |-> share]}]
    IN from[start, l.minutes, pieces, setupMinutes]

\* _allocate_run_candidate: "to" is the end of the run, "crew" that of its setup.
Candidate(run, machine, needsSetup, start) ==
    LET setup == IF needsSetup THEN SetupMinutes[run.tool] ELSE 0
        closed == Closed(machine, run)
        ready == Snap(Max({start, free[machine]}), closed)
        prepared == Max({ready, crew[Group[machine]]})
        begin == IF setup = 0 THEN ready ELSE SetupStart(prepared, setup, closed)
        add(done, l) ==
          LET waiting == stage = "releasing" /\ done.to + done.setup < MaterialFloor(l)
              at == IF waiting THEN MaterialFloor(l) - done.setup ELSE done.to
              blocks == Blocks(l, run, machine, at, done.setup)
          IN [to |-> blocks.to, setup |-> 0, made |-> done.made \union blocks.made,
              crew |-> IF waiting THEN Max({done.crew, MaterialFloor(l)}) ELSE done.crew]
        empty == [to |-> begin, setup |-> setup, made |-> {},
                  crew |-> IF setup = 0 THEN crew[Group[machine]] ELSE begin + setup]
    IN IF setup > 0 /\ begin >= Finish THEN empty ELSE FoldLeft(add, empty, run.lots)

\* The tool was on another machine when it was last used before "t".
Elsewhere(tool, machine, t) ==
    LET past == {b \in bookings : b.tool = tool /\ b.to <= t}
    IN past # {} /\ \E b \in past : /\ b.machine # machine
                                    /\ \A c \in past : ~Precedes(<<b.to, b.from>>, <<c.to, c.from>>)

\* Mutant: the tool is looked for where the run starts only.
ConflictsAtStart(tool, machine, from, to) ==
    {b \in bookings : b.tool = tool /\ b.machine # machine /\ b.from <= from /\ from < b.to}

\* The bookings of the tool on other machines within the run.
Conflicts(tool, machine, from, to) ==
    {b \in bookings : b.tool = tool /\ b.machine # machine /\ from < b.to /\ b.from < to}

\* _allocate_run: after the end of each conflict it tries again.  It gives up
\* after more attempts than there are bookings, which it cannot reach.
Allocation(run, machine) ==
    LET attempt[start \in Nat, needsSetup \in BOOLEAN] ==
          LET setup == needsSetup \/ Elsewhere(run.tool, machine, start)
              candidate == Candidate(run, machine, setup, start)
              begin == Min({s.from : s \in candidate.made})
              conflicts == Conflicts(run.tool, machine, begin, candidate.to)
              next == Min({b.from : b \in conflicts})
              end == (CHOOSE b \in conflicts : b.from = next).to
          IN IF candidate.made = {} THEN candidate
             ELSE IF ~setup /\ Elsewhere(run.tool, machine, begin) THEN attempt[start, TRUE]
             ELSE IF conflicts = {} THEN candidate
             ELSE attempt[Snap(end, Closed(machine, run)), needsSetup]
    IN attempt[free[machine], mounted[machine] # Identity(run)]

----------------------------------------------------------------------------
(* Dispatch.                                                               *)

\* Nobody looks at the demand again: the lots stand for it.
Assign ==
    /\ stage = "grouped"
    /\ stage' = "dispatching"
    /\ queues' = [m \in Machines |-> Sequenced(QueuesByPriority[m])]
    /\ surplus' = [op \in Solos |-> 0]
    /\ UNCHANGED <<demand, supply, open, lots, runs, layoutVars>>

Waiting == {m \in Machines : queues[m] # <<>>}

\* The machine that is free first, with the most urgent run, has its turn.  In
\* the fallback a machine is laid out to its end before another is begun.
Serves(m) ==
    /\ m \in Waiting
    /\ turn # Nowhere => m = turn
    /\ turn = Nowhere /\ stage = "dispatching" =>
         m = FirstBy(LAMBDA k : <<free[k]>> \o RunPriority(Head(queues[k])) \o <<k>>, Waiting)

GoesOn(m) ==
    /\ Len(queues[m]) > 1
    /\ stage = "releasing" \/ Identity(queues[m][2]) = Identity(queues[m][1])

\* per_machine_dispatch, one run.  A run that the horizon leaves no room for
\* changes nothing.
AllocateRun(m) ==
    /\ stage \in {"dispatching", "releasing"}
    /\ Serves(m)
    /\ queues' = [queues EXCEPT ![m] = Tail(@)]
    /\ turn' = IF GoesOn(m) THEN m ELSE Nowhere
    /\ \E chosen \in {Allocation(Head(queues[m]), m)} :
       LET run == Head(queues[m])
           begin == Min({s.from : s \in chosen.made})
           busy == [crew EXCEPT ![Group[m]] = chosen.crew]
           fresh == [g \in DOMAIN crew |-> 0]   \* each call has crews of its own
       IN \/ /\ chosen.made = {}
             /\ crew' = IF stage = "releasing" /\ ~GoesOn(m) THEN fresh ELSE crew
             /\ UNCHANGED <<free, mounted, bookings, segments>>
          \/ /\ chosen.made # {}
             /\ crew' = IF stage = "releasing" /\ ~GoesOn(m) THEN fresh ELSE busy
             /\ free' = [free EXCEPT ![m] = chosen.to]
             /\ mounted' = [mounted EXCEPT ![m] = Identity(run)]
             /\ bookings' = bookings \union
                  {[tool |-> run.tool, machine |-> m, from |-> begin, to |-> chosen.to]}
             /\ segments' = segments \union chosen.made
    /\ UNCHANGED <<stage, groupingVars>>

ResetLayout ==
    /\ turn' = Nowhere
    /\ free' = [m \in Machines |-> 0]
    /\ mounted' = [m \in Machines |-> Bare]
    /\ crew' = [g \in DOMAIN crew |-> 0]
    /\ bookings' = {} /\ segments' = {}

\* jit_dispatch, when the global constructor has no plan: by priority alone,
\* and not before the material.
ReleaseFirst ==
    /\ stage = "dispatching" /\ Waiting = {}
    /\ stage' = "releasing"
    /\ queues' = QueuesByPriority
    /\ ResetLayout
    /\ UNCHANGED groupingVars

DispatchNext ==
    \/ GroupingNext /\ UNCHANGED <<queues, layoutVars>>
    \/ Assign
    \/ \E m \in Machines : AllocateRun(m)
    \/ ReleaseFirst

----------------------------------------------------------------------------
Laid(l) == {s \in segments : s.lot = l.n}
LaidPieces(l) == MapThenSumSet(LAMBDA s : s.qty, Laid(l))
Overlap(s, t) == s.from < t.to /\ t.from < s.to

\* A layout can be carried out as it is, whoever shares what: no machine and
\* no tool does two things at once, nothing is done on a day the machine or the
\* tool is not there, a block ends with its shift, a lot is made once and
\* whole unless the plan ends first, and in the fallback no piece is made
\* before the release of its material.
LayoutIsExecutable ==
    stage \in {"dispatching", "releasing"} =>
      /\ \A s, t \in segments :
           s # t /\ (s.machine = t.machine \/ s.tool = t.tool) => ~Overlap(s, t)
      /\ \A run \in runs :
           LET its == {s \in segments : s.run = Name(run)}
               last == Max({s.to : s \in its})
           IN \A s \in its :
                /\ s.from \div DayCap \notin Closed(s.machine, run)
                /\ s.to <= Boundary(s.from) /\ s.to <= Finish
                /\ \A i \in DOMAIN run.lots :
                     LET l == run.lots[i] IN
                     /\ LaidPieces(l) <= l.made[Min(DOMAIN l.made)]
                     /\ \/ LaidPieces(l) = l.made[Min(DOMAIN l.made)]
                        \/ \A t \in last..(Finish - 1) : t \div DayCap \in Closed(s.machine, run)
                     /\ stage = "releasing" /\ s.lot = l.n =>
                          s.from + s.setup >= MaterialFloor(l)
=============================================================================
