------------------------------ MODULE Scenarios ------------------------------
(***************************************************************************)
(* What-if scenarios and the calendars they are laid over: the mutations   *)
(* of simulator/mutations.py, the simulation that applies them to copies   *)
(* of the data and the configuration, and the projection of the factory's  *)
(* persistent calendars onto the horizon (transform/calendars.py).         *)
(*                                                                         *)
(* The plan's data is rebuilt from the configuration by every edit, by a   *)
(* recalculation and by a restart; the applied scenarios are not in the    *)
(* configuration and have to be laid over it again, each time once.        *)
(*                                                                         *)
(* Days are numbered from the first day of the imported file, minutes from *)
(* midnight, and an instant is a minute from the start of day 0.           *)
(***************************************************************************)
EXTENDS Integers, Bags, SequencesExt

CONSTANTS
    Imported,      \* days of the imported file
    LastDay,       \* bound: the horizon never goes past this day
    Weekend,       \* the days that are Saturdays or Sundays
    Skus, Clients,
    Orders,        \* of each sku, the client orders imported: client, day, qty
    Shift,         \* hours of the first shift
    LastFrom,      \* start of the last shift
    LastTo,        \* its possible ends; the smallest is the initial one
    DayEnd,        \* minutes of a day
    Crew,          \* operators of a shift
    OwnMinutes,    \* the capacity a machine has of its own, or 0 if none
    Resources,     \* machines and tools
    Stops,         \* persistent stops that may be entered: id, on, from, to
    Leaves,        \* persistent absences: id, shift, count, from, to
    Dates,         \* days that may be declared a holiday or an extra workday
    Requests,      \* the lists of mutations a client may ask for
    Promises,      \* the rush orders a promise may be applied as
    Extension,     \* MAX_MUTATION_EXTENSION_DAYS
    MaxApplied,    \* bound: scenarios applied at one time
    MaxEdits       \* bound: edits of the configuration

\* The orders within some days; a rush order is of the operation's own client.
Entries(days) == [client : Clients \union {"own"}, day : 0..(days - 1), qty : Nat \ {0}]

ASSUME ScenarioAssumption ==
    /\ LastDay \in Nat /\ Imported \in 1..(LastDay + 1) /\ Weekend \subseteq 0..LastDay
    /\ Orders \in [Skus -> Seq(Entries(Imported))]
    /\ 0 <= Shift[1] /\ Shift[1] < Shift[2] /\ Shift[2] <= LastFrom
    /\ \A m \in LastTo : LastFrom < m /\ m <= DayEnd

VARIABLES
    data,    \* EngineData: days, demand, trace, base, holidays, blocked, cells, away
    config,  \* FactoryConfig: to, holidays, extra, stops, leaves
    active,  \* active_mutations
    saved,   \* what save_current kept, and how many plans ago
    asked,   \* auxiliary: the mutations answered "applied" and not reverted
    answer,  \* the last answer of simulate-apply
    edits    \* bound

vars == <<data, config, active, saved, asked, answer, edits>>

Nothing == [age |-> 0]

SumOver(f, S) == MapThenSumSet(LAMBDA x : f[x], S)

\* The orders of one day, and what they add up to.
Quantities(entries) == [i \in DOMAIN entries |-> entries[i].qty]
Due(entries, day) == {i \in DOMAIN entries : entries[i].day = day}
Ordered(entries, day) == SumOver(Quantities(entries), Due(entries, day))

\* extract_client_demands, and the demand of an operation.
ImportedDemand(sku) == [d \in 0..(Imported - 1) |-> Ordered(Orders[sku], d)]

----------------------------------------------------------------------------
(* Calendars.                                                              *)

ShiftHours(c, shift) == IF shift = "first" THEN Shift ELSE <<LastFrom, c.to>>
Instant(cell) == cell[1] * DayEnd + cell[2]
Productive(c) == (Shift[1]..(Shift[2] - 1)) \union (LastFrom..(c.to - 1))

\* _project_intervals of a machine or a tool, merged: the productive minutes
\* of the horizon that a persistent stop takes from it.
StoppedCells(d, c, resource) ==
    {cell \in (0..(d.days - 1)) \X Productive(c) :
        \E stop \in c.stops : /\ stop.on = resource
                              /\ stop.from <= Instant(cell) /\ Instant(cell) < stop.to}

\* _full_productive_days
FullDays(cells, c) ==
    {day \in {cell[1] : cell \in cells} : \A minute \in Productive(c) : <<day, minute>> \in cells}

\* _project_intervals of the operators: absences are not merged, their counts add.
LeaveBlocks(d, c) ==
    LET from(leave, day) == Max({ShiftHours(c, leave.shift)[1], leave.from - day * DayEnd})
        to(leave, day) == Min({ShiftHours(c, leave.shift)[2], leave.to - day * DayEnd})
        block(leave, day) ==
          [id |-> leave.id, shift |-> leave.shift, day |-> day,
           from |-> from(leave, day), to |-> to(leave, day), count |-> leave.count]
        away(leave) == {day \in 0..(d.days - 1) : from(leave, day) < to(leave, day)}
    IN SetToBag(UNION {{block(leave, day) : day \in away(leave)} : leave \in c.leaves})

\* apply_calendars
ApplyCalendars(d, c) ==
    [d EXCEPT !.holidays = (d.base \union c.holidays) \ ((c.extra \intersect Weekend) \ c.holidays),
              !.cells = [r \in Resources |-> StoppedCells(d, c, r)],
              !.blocked = [r \in Resources |-> FullDays(StoppedCells(d, c, r), c)],
              !.away = LeaveBlocks(d, c)]

----------------------------------------------------------------------------
(* The mutations, and the validation of one.                               *)

DemandTypes == {"rush_order", "demand_change", "cancel_order", "advance_edd", "delay_edd"}
OverlayTypes == {"resource_down", "operator_shortage", "add_holiday", "remove_holiday"}

Requested == UNION {ToSet(request) : request \in Requests}
Mutations == Requested \union Promises

\* What validate_mutation asks of the parameters before it looks at the plan.
ASSUME MutationAssumption ==
    /\ Extension \in Nat
    /\ Requests \subseteq Seq(Mutations)
    /\ \A m \in Mutations :
         /\ m.type \in DemandTypes \union OverlayTypes \union {"overtime"}
         /\ m.type \in DemandTypes => m.sku \in Skus
         /\ m.type = "rush_order" => m.day \in Int /\ m.qty \in Nat \ {0}
         /\ m.type = "demand_change" => m.factor[1] \in Nat /\ m.factor[2] \in Nat \ {0}
         /\ m.type = "cancel_order" => m.start \in Int /\ m.end \in Int
         /\ m.type = "overtime" => m.minutes \in Int
         /\ m.type \in {"advance_edd", "delay_edd"} => m.days \in Int

\* A shortage without hours of its own is of the whole shift.
Hours(m, c) == IF m.hours = <<>> THEN ShiftHours(c, m.shift) ELSE m.hours

Absent(d, shift, day, minute) ==
    FoldSet(LAMBDA b, sum : sum + b.count * d.away[b], 0,
        {b \in BagToSet(d.away) : /\ b.shift = shift /\ b.day = day
                                  /\ b.from <= minute /\ minute < b.to})

\* validate_mutation
Valid(d, c, m) ==
    CASE m.type = "resource_down" -> 0 <= m.start /\ m.start <= m.end /\ m.end < d.days
      [] m.type = "operator_shortage" ->
           /\ 0 <= m.start /\ m.start <= m.end /\ m.end < d.days
           /\ ShiftHours(c, m.shift)[1] <= Hours(m, c)[1]
           /\ Hours(m, c)[2] <= ShiftHours(c, m.shift)[2]
           /\ \A day \in m.start..m.end, minute \in Hours(m, c)[1]..(Hours(m, c)[2] - 1) :
                Absent(d, m.shift, day, minute) + m.count <= Crew
      [] m.type = "overtime" -> 0 < m.minutes /\ c.to + m.minutes <= DayEnd
      [] m.type \in {"add_holiday", "remove_holiday"} -> m.day \in 0..(d.days - 1)
      [] m.type = "rush_order" -> m.day \in 0..(d.days - 1 + Extension)
      [] m.type = "cancel_order" -> 0 <= m.start /\ m.start <= m.end /\ m.end < d.days
      [] m.type \in {"advance_edd", "delay_edd"} -> m.days \in 1..Extension
      [] OTHER -> TRUE

----------------------------------------------------------------------------
(* Handlers on the demand of a sku, and on the trace of its clients.       *)

\* Python's round: to the nearest, and to the even of two.
Scaled(qty, factor) ==
    LET q == (qty * factor[1]) \div factor[2]
        r == 2 * ((qty * factor[1]) % factor[2])
    IN IF r > factor[2] \/ (r = factor[2] /\ q % 2 = 1) THEN q + 1 ELSE q

At(f, day) == IF day \in DOMAIN f THEN f[day] ELSE 0
Padded(f, days) == [day \in 0..(days - 1) |-> At(f, day)]

\* _rush_order, _demand_change, _cancel_order, _advance_edd, _delay_edd
DemandAfter(f, m) ==
    LET n == Cardinality(DOMAIN f) IN
    CASE m.type = "rush_order" ->
           [Padded(f, Max({n, m.day + 1})) EXCEPT ![m.day] = @ + m.qty]
      [] m.type = "demand_change" -> [day \in DOMAIN f |-> Scaled(f[day], m.factor)]
      [] m.type = "cancel_order" ->
           [day \in DOMAIN f |-> IF day \in m.start..m.end THEN 0 ELSE f[day]]
      [] m.type = "advance_edd" ->
           [day \in DOMAIN f |->
              SumOver(f, {x \in DOMAIN f : Max({0, x - m.days}) = day})]
      [] m.type = "delay_edd" -> [day \in 0..(n + m.days - 1) |-> At(f, day - m.days)]

\* Mutant: every entry is rounded for itself.
ApportionedAlone(entries, f) ==
    [i \in DOMAIN entries |->
        [entries[i] EXCEPT
           !.qty = Scaled(@, <<At(f, entries[i].day), Ordered(entries, entries[i].day)>>)]]

\* The largest remainder: the part of "i" in a new total.
Portion(q, day, total, target, i) ==
    LET whole == [j \in day |-> (target * q[j]) \div total]
        rest == [j \in day |-> (target * q[j]) % total]
        ahead == {j \in day : rest[j] > rest[i] \/ (rest[j] = rest[i] /\ j < i)}
    IN whole[i] + (IF Cardinality(ahead) < target - SumOver(whole, day) THEN 1 ELSE 0)

\* The entries of one day share its new total.
Apportioned(entries, f) ==
    [i \in DOMAIN entries |->
        [entries[i] EXCEPT !.qty =
           Portion(Quantities(entries), Due(entries, entries[i].day),
                   Ordered(entries, entries[i].day), At(f, entries[i].day), i)]]

\* The entries at some positions.
Kept(entries, its) ==
    FoldLeft(LAMBDA kept, i : IF i \in its THEN Append(kept, entries[i]) ELSE kept,
             <<>>, [i \in DOMAIN entries |-> i])

Wanted(entries) == Kept(entries, {i \in DOMAIN entries : entries[i].qty > 0})

\* _sync_client_demands; f is the demand after the mutation.
TraceAfter(entries, f, m) ==
    CASE m.type = "rush_order" ->
           Append(entries, [client |-> "own", day |-> m.day, qty |-> m.qty])
      [] m.type = "cancel_order" ->
           Kept(entries, {i \in DOMAIN entries : entries[i].day \notin m.start..m.end})
      [] m.type = "advance_edd" ->
           [i \in DOMAIN entries |-> [entries[i] EXCEPT !.day = Max({0, @ - m.days})]]
      [] m.type = "delay_edd" ->
           [i \in DOMAIN entries |-> [entries[i] EXCEPT !.day = @ + m.days]]
      [] m.type = "demand_change" ->
           Wanted(Apportioned(entries, f))

----------------------------------------------------------------------------
(* Handlers on the calendars.                                              *)

ShortageBlock(m, c, day) ==
    [id |-> "whatif", shift |-> m.shift, day |-> day,
     from |-> Hours(m, c)[1], to |-> Hours(m, c)[2], count |-> m.count]

\* _machine_down, _tool_down, _operator_shortage, _add_holiday, _remove_holiday
OverlayAfter(d, c, m) ==
    CASE m.type = "resource_down" -> [d EXCEPT !.blocked[m.on] = @ \union (m.start..m.end)]
      [] m.type = "operator_shortage" ->
           [d EXCEPT !.away = @ (+) SetToBag({ShortageBlock(m, c, day) : day \in m.start..m.end})]
      [] m.type = "add_holiday" -> [d EXCEPT !.holidays = @ \union {m.day}]
      [] m.type = "remove_holiday" -> [d EXCEPT !.holidays = @ \ {m.day}]

\* _extend_horizon: new weekends are closed, every demand has a day more.
Extended(d) ==
    LET days == Max({d.days} \union {Cardinality(DOMAIN d.demand[s]) : s \in Skus})
        closed == Weekend \intersect (d.days..(days - 1))
    IN [d EXCEPT !.days = days,
                 !.holidays = @ \union closed,
                 !.base = @ \union closed,
                 !.demand = [s \in Skus |-> Padded(d.demand[s], days)]]

BagOutside(B, C) == [b \in BagToSet(B) \ BagToSet(C) |-> B[b]]

\* _rebuild_calendar_preserving_overlays; "before" is what the persistent
\* calendars alone gave before the mutation.
Reprojected(d, c, before) ==
    LET added == (d.holidays \ before.holidays) \ (d.base \ before.base)
        removed == before.holidays \ d.holidays
        fresh == ApplyCalendars(d, c)
    IN [fresh EXCEPT
          !.holidays = (@ \union added) \ removed,
          !.blocked = [r \in Resources |-> @[r] \union (d.blocked[r] \ before.blocked[r])],
          !.cells = [r \in Resources |-> @[r] \union (d.cells[r] \ before.cells[r])],
          !.away = @ (+) BagOutside(d.away, before.away)]

----------------------------------------------------------------------------
(* One mutation, and the replay of those that lie over the calendars.      *)

\* The horizon follows the demand, the orders and the calendars follow both.
WithDemand(d, m) == Extended([d EXCEPT !.demand[m.sku] = DemandAfter(@, m)])
Traced(d, m) == [d EXCEPT !.trace[m.sku] = TraceAfter(@, d.demand[m.sku], m)]
Lengthened(d, days, c, before) == IF d.days > days THEN Reprojected(d, c, before) ELSE d

\* apply_mutation on a result of earlier ones, which a refusal ends.
Mutated(at, m) ==
    LET d == at.data
        c == at.config
        before == ApplyCalendars(d, c)
        longer == [c EXCEPT !.to = @ + m.minutes]
    IN IF ~at.ok \/ ~Valid(d, c, m) THEN [at EXCEPT !.ok = FALSE]
       ELSE IF m.type \in OverlayTypes THEN [at EXCEPT !.data = OverlayAfter(d, c, m)]
       ELSE IF m.type = "overtime"
            THEN [at EXCEPT !.config = longer, !.data = Reprojected(d, longer, before)]
       ELSE [at EXCEPT !.data = Lengthened(Traced(WithDemand(d, m), m), d.days, c, before)]

\* Mutant: every mutation is replayed, and not only those of the calendars.
ReappliedAll(at, mutations) == FoldLeft(Mutated, at, mutations)

\* reapply_calendar_mutations
Overlaid(at, m) == IF m.type \in OverlayTypes THEN Mutated(at, m) ELSE at
Reapplied(at, mutations) == FoldLeft(Overlaid, at, mutations)

Start(d, c) == [ok |-> TRUE, data |-> d, config |-> c]

\* apply_calendars, then what the applied scenarios lay over them.
Rebuilt(c) == Reapplied(Start(ApplyCalendars(data, c), c), active)

\* Mutant: the operators already missing are not taken out before the replay.
StepTwice(at, m) ==
    LET next == Mutated(at, m)
        overlays == Append(at.overlays, m)
        again == Reapplied(next, overlays)
    IN IF ~next.ok THEN next
       ELSE IF m.type \in {"overtime", "rush_order", "delay_edd"}
            THEN [again EXCEPT !.overlays = overlays]
       ELSE [next EXCEPT !.overlays = overlays]

\* One step of _simulate.  "known" are the blocks of operators that are to be
\* replaced when the calendars are projected again.
Step(at, m) ==
    LET next == Mutated(at, m)
        overlays == Append(at.overlays, m)
        known == IF m.type = "operator_shortage"
                 THEN at.known (+) (next.data.away (-) at.data.away) ELSE at.known
        bare == [next EXCEPT !.data.away = @ (-) known]
        again == Reapplied(bare, overlays)
    IN IF ~next.ok THEN next
       ELSE IF m.type \in {"overtime", "rush_order", "delay_edd"}
            THEN [again EXCEPT !.overlays = overlays,
                               !.known = again.data.away (-) bare.data.away]
       ELSE [next EXCEPT !.overlays = overlays, !.known = known]

\* _simulate up to the schedule, which is not modelled here.
Simulated(pending) ==
    LET bare == ApplyCalendars(data, config)
        laid == Reapplied(Start(bare, config), active)
    IN FoldLeft(Step, [ok |-> laid.ok, data |-> laid.data, config |-> config,
                       overlays |-> active, known |-> laid.data.away (-) bare.away], pending)

----------------------------------------------------------------------------
Init ==
    /\ data = [days |-> Imported,
               demand |-> [s \in Skus |-> ImportedDemand(s)],
               trace |-> Orders,
               base |-> Weekend \intersect (0..(Imported - 1)),
               holidays |-> Weekend \intersect (0..(Imported - 1)),
               blocked |-> [r \in Resources |-> {}],
               cells |-> [r \in Resources |-> {}],
               away |-> EmptyBag]
    /\ config = [to |-> Min(LastTo), holidays |-> {}, extra |-> {}, stops |-> {}, leaves |-> {},
                 own |-> OwnMinutes]
    /\ active = <<>>
    /\ saved = Nothing
    /\ asked = <<>>
    /\ answer = [status |-> "none"]
    /\ edits = 0

\* Each of the mutations that is not known yet, once.
Unknown(known, mutations) ==
    FoldLeft(LAMBDA new, m : IF Contains(known \o new, m) THEN new ELSE Append(new, m),
             <<>>, mutations)

\* _dedupe_mutations, _pending_mutations
Deduped(mutations) == Unknown(<<>>, mutations)
Pending(request) == Unknown(active, request)

\* _validate_mutations, on copies of the data and the configuration.
Validated(request) == FoldLeft(Mutated, Start(data, config), Pending(request)).ok

InBounds(result) == result.data.days <= LastDay + 1

\* What save_current, update_schedule and the answer have in common.
Applied(result, mutations, more) ==
    /\ data' = result.data
    /\ config' = result.config
    /\ active' = mutations
    /\ saved' = [age |-> 1, data |-> data, config |-> config, active |-> active, asked |-> asked]
    /\ asked' = asked \o more
    /\ UNCHANGED edits

\* _simulate_and_apply_locked: the preview of this request on this plan.
SimulateAndApply(request) ==
    LET pending == Pending(request)
        result == Simulated(pending)
    IN /\ pending # <<>> /\ Len(asked) + Len(pending) <= MaxApplied
       /\ Validated(request) /\ result.ok /\ InBounds(result)
       /\ Applied(result, Deduped(active \o pending), pending)
       /\ answer' = [status |-> "applied", request |-> request]

\* Everything it asks for is in the plan already.
NothingPending(request) ==
    /\ Pending(request) = <<>>
    /\ answer' = [status |-> "unchanged", request |-> request]
    /\ UNCHANGED <<data, config, active, saved, asked, edits>>

\* _apply_ctp_locked: a promise is applied as a rush order, again if it is
\* promised again.
ApplyCtp(order) ==
    LET result == Simulated(<<order>>)
    IN /\ Len(asked) < MaxApplied
       /\ order.day < data.days
       /\ result.ok
       /\ Applied(result, Append(active, order), <<order>>)
       /\ answer' = [status |-> "none"]

\* Mutant: the list of applied scenarios stays.
RevertKeepsActive ==
    /\ saved.age = 1
    /\ data' = saved.data /\ config' = saved.config
    /\ asked' = saved.asked
    /\ saved' = Nothing
    /\ answer' = [status |-> "none"]
    /\ UNCHANGED <<active, edits>>

\* _revert_simulation_locked: not when another plan came after.
Revert ==
    /\ saved.age = 1
    /\ data' = saved.data /\ config' = saved.config
    /\ active' = saved.active /\ asked' = saved.asked
    /\ saved' = Nothing
    /\ answer' = [status |-> "none"]
    /\ UNCHANGED edits

Older == IF saved = Nothing THEN Nothing ELSE [saved EXCEPT !.age = 2]

----------------------------------------------------------------------------
(* Edits of the configuration, and what rebuilds the data.                 *)

\* validate_config: the absences of every day fit the crew, each touches its
\* shift, and no machine has a capacity other than that of the calendar.
ConfigValid(c) ==
    LET at(leave) == {cell \in (0..LastDay) \X
                        (ShiftHours(c, leave.shift)[1]..(ShiftHours(c, leave.shift)[2] - 1)) :
                          leave.from <= Instant(cell) /\ Instant(cell) < leave.to}
    IN /\ \A leave \in c.leaves :
            /\ at(leave) # {}
            /\ \A cell \in at(leave) :
                 MapThenSumSet(LAMBDA other : other.count,
                   {other \in c.leaves : other.shift = leave.shift /\ cell \in at(other)}) <= Crew
       /\ c.own \in {0, Cardinality(Productive(c))}

\* The endpoints for shifts, holidays, extra workdays and unavailability; an
\* edit of the shifts forgets a capacity that repeated the old ones
\* (clear_legacy_common_machine_capacity_overrides).
Edited(c) ==
    {[c EXCEPT !.to = to,
               !.own = IF @ = Cardinality(Productive(c)) THEN 0 ELSE @] : to \in LastTo}
      \union {[c EXCEPT !.holidays = @ \union {day}] : day \in Dates}
      \union {[c EXCEPT !.holidays = @ \ {day}] : day \in Dates}
      \union {[c EXCEPT !.extra = @ \union {day}] : day \in Dates \intersect Weekend}
      \union {[c EXCEPT !.extra = @ \ {day}] : day \in c.extra}
      \union {[c EXCEPT !.stops = @ \union {stop}] : stop \in Stops}
      \union {[c EXCEPT !.stops = @ \ {stop}] : stop \in c.stops}
      \union {[c EXCEPT !.leaves = @ \union {leave}] : leave \in Leaves}
      \union {[c EXCEPT !.leaves = @ \ {leave}] : leave \in c.leaves}

\* _apply_config_candidate, _recompute; the demand is left as it is.  With the
\* configuration as it is this is a recalculation.
EditConfig(c) ==
    /\ edits' = IF c = config THEN edits ELSE edits + 1
    /\ edits' <= MaxEdits
    /\ ConfigValid(c)
    /\ Rebuilt(c).ok
    /\ data' = Rebuilt(c).data
    /\ config' = c
    /\ saved' = Older
    /\ answer' = [status |-> "none"]
    /\ UNCHANGED <<active, asked>>

\* restore_plan_into_state at the start of the server, with the configuration
\* on disk; what a revert would need is gone.
Restart ==
    /\ ConfigValid(config)
    /\ Rebuilt(config).ok
    /\ data' = Rebuilt(config).data
    /\ saved' = Nothing
    /\ answer' = [status |-> "none"]
    /\ UNCHANGED <<config, active, asked, edits>>

Next ==
    \/ \E request \in Requests : SimulateAndApply(request) \/ NothingPending(request)
    \/ \E order \in Promises : ApplyCtp(order)
    \/ Revert
    \/ \E c \in Edited(config) : EditConfig(c)
    \/ Restart

Spec == Init /\ [][Next]_vars
----------------------------------------------------------------------------
(* Properties.                                                             *)

StoppedAllDay(resource, day) ==
    \A minute \in Productive(config) :
        \E stop \in config.stops : /\ stop.on = resource
                                   /\ day * DayEnd + minute \in stop.from..(stop.to - 1)

\* The calendars are those of the configuration with the scenarios applied
\* since laid over them, each once and in the order they were asked for: after
\* edits, overtime that moves the shifts, horizons that grow, reverts and
\* restarts, a closed day is closed, a resource is down and an operator is
\* missing exactly when somebody said so.
CalendarAsAsked ==
    LET days == 0..(data.days - 1)
        persistent(day) == \/ day \in config.holidays
                           \/ day \in Weekend \ config.extra
        about(day) == SelectSeq(asked, LAMBDA m :
                        m.type \in {"add_holiday", "remove_holiday"} /\ m.day = day)
        down(r, day) == \E m \in ToSet(asked) :
                          m.type = "resource_down" /\ m.on = r /\ day \in m.start..m.end
        missing(shift, day, minute) ==
            MapThenSumSet(LAMBDA leave : leave.count,
              {leave \in config.leaves : /\ leave.shift = shift
                                         /\ day * DayEnd + minute \in leave.from..(leave.to - 1)})
            + MapThenSumSet(LAMBDA i : asked[i].count,
                {i \in DOMAIN asked : /\ asked[i].type = "operator_shortage"
                                      /\ asked[i].shift = shift
                                      /\ day \in asked[i].start..asked[i].end
                                      /\ minute \in Hours(asked[i], config)[1]..
                                                    (Hours(asked[i], config)[2] - 1)})
    IN \A day \in days :
         /\ day \in data.holidays <=>
              IF about(day) = <<>> THEN persistent(day) ELSE Last(about(day)).type = "add_holiday"
         /\ \A r \in Resources :
              day \in data.blocked[r] <=> StoppedAllDay(r, day) \/ down(r, day)
         /\ \A shift \in {"first", "last"} :
              \A minute \in ShiftHours(config, shift)[1]..(ShiftHours(config, shift)[2] - 1) :
                Absent(data, shift, day, minute) = missing(shift, day, minute)

\* The demand of a sku after some mutations, each applied once.
Changed(sku, f, m) == IF m.type \in DemandTypes /\ m.sku = sku THEN DemandAfter(f, m) ELSE f
History(sku, mutations) ==
    FoldLeft(LAMBDA f, m : Changed(sku, f, m), ImportedDemand(sku), mutations)

\* The demand is the imported one changed once by each scenario and promise
\* that was answered "applied", however often the plan was rebuilt since; and
\* the orders of the clients add up to it, day by day, through roundings,
\* shifted dates and a horizon that grows.
DemandAsAsked ==
    \A sku \in Skus :
        /\ data.demand[sku] = Padded(History(sku, asked), data.days)
        /\ \A day \in 0..(data.days - 1) :
             data.demand[sku][day] = Ordered(data.trace[sku], day)

\* A restart and a recalculation lay the applied scenarios over the calendars
\* without a refusal, and find the plan as it was.
RebuiltAsHeld == Rebuilt(config).ok /\ Rebuilt(config).data = data
=============================================================================
