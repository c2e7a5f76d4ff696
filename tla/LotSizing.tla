----------------------------- MODULE LotSizing -----------------------------
(***************************************************************************)
(* Phase 1 of the scheduler (scheduler/lot_sizing.py): the demand of the   *)
(* operations becomes production lots.  Committed supply is taken off the  *)
(* demand, operations that one tool makes together (twins) are cut into    *)
(* joint cycles, and the others into lots of economic size that carry      *)
(* their surplus forward.  Days are indices into the horizon; the days     *)
(* before the first one are negative.  An operation is a number, since     *)
(* only the order of the identifiers matters.                              *)
(***************************************************************************)
EXTENDS Pipeline

CONSTANTS
    Twins,        \* <<a, b>>: the operations of the twin tool
    Solos,        \* the operations with a tool of their own
    Horizon,      \* the demand covers the days 0 .. Horizon - 1
    Slots,        \* bound: the operations and days that may be ordered
    Quantities,   \* the pieces an order may ask for
    MaxOrders,    \* bound: orders in one plan
    Supplies,     \* the committed supplies a plan may count on
    Holidays,     \* days nobody works
    Eco,          \* economic lot of each operation, 0 for none
    Lead, Margin, \* workdays at the subcontractor, and ahead of the dispatch
    Window,       \* days of demand one campaign of a solo operation gathers
    Campaign,     \* least quantity of a campaign (in pieces or minutes)
    Priority,     \* planning priority
    Minutes,      \* minutes one piece takes
    Tool, Family, \* tool of an operation, and its setup family
    PairGap,      \* TWIN_MAX_PAIR_GAP_DAYS
    Anticipation  \* JIT_MAX_ANTICIPATION_WORKDAYS

Pair == {Twins[1], Twins[2]}
Ops == Pair \union Solos
Days == 0..(Horizon - 1)

ASSUME SizingAssumption ==
    /\ Horizon \in Nat \ {0} /\ MaxOrders \in Nat /\ Quantities \subseteq Nat \ {0}
    /\ Slots \subseteq Ops \X Days
    /\ Ops \subseteq Nat /\ IsFiniteSet(Ops) /\ Pair \intersect Solos = {} /\ Twins[1] # Twins[2]
    /\ Supplies \subseteq [op : Ops, day : Days, qty : Nat \ {0}]
    /\ Eco[Twins[1]] = Eco[Twins[2]]   \* validate_active_twin_eco_lots
    /\ {PairGap, Anticipation} \subseteq Nat
    /\ IsFiniteSet(Holidays) /\ Holidays \subseteq Int
    /\ \A op \in Ops : {Eco[op], Lead[op], Margin[op], Minutes[op]} \subseteq Nat
    /\ \A op \in Ops : Priority[op] \in Int
    /\ \A op \in Solos : {Window[op], Campaign[op]} \subseteq Nat

VARIABLES
    demand,   \* op.d: what the customers ask for, by operation and day
    supply,   \* data.committed_supplies
    open,     \* the demand no lot covers yet
    surplus,  \* of each solo operation, the pieces made ahead of demand
    lots      \* the lots created so far

sizingVars == <<demand, supply, open, surplus, lots>>

----------------------------------------------------------------------------
(* Calendar and milestones (config/planning.py).                           *)

OnOrBefore[day \in Int] == IF day \in Holidays THEN OnOrBefore[day - 1] ELSE day

\* So many workdays before a day.
Back == [day \in Int |->
            LET back[n \in Nat] == IF n = 0 THEN day ELSE OnOrBefore[back[n - 1] - 1]
            IN back]

Subcontracted(op) == Lead[op] + Margin[op] > 0

\* The day production must end for a delivery on "day".
ProductionDue(op, day) ==
    IF Subcontracted(op) THEN Back[OnOrBefore[Back[day][Lead[op]]]][Margin[op]]
    ELSE OnOrBefore[day]

\* The day its material is released.
Release(op, day) ==
    Back[IF Subcontracted(op) THEN ProductionDue(op, day) ELSE day][Anticipation]

----------------------------------------------------------------------------
PosPart(n) == IF n > 0 THEN n ELSE 0
Least(m, n) == IF m < n THEN m ELSE n
SumOver(f, S) == MapThenSumSet(LAMBDA x : f[x], S)

\* The quantity rounded up to whole economic lots.
ApplyEcoLot(op, qty) ==
    IF Eco[op] = 0 \/ qty = 0 THEN qty
    ELSE ((qty + Eco[op] - 1) \div Eco[op]) * Eco[op]

----------------------------------------------------------------------------
\* An order book: at most MaxOrders quantities, each on a day of its own.
Books == UNION {[slots -> Quantities] :
                  slots \in {S \in SUBSET Slots : Cardinality(S) <= MaxOrders}}

Ordered(book) ==
    [op \in Ops |-> [day \in Days |->
        IF <<op, day>> \in DOMAIN book THEN book[<<op, day>>] ELSE 0]]

SizingInit ==
    /\ stage = "orders"
    /\ \E book \in Books : demand = Ordered(book)
    /\ \E s \in Supplies : supply \in {{}, {s}}
    /\ open = [op \in Ops |-> [day \in Days |-> 0]]
    /\ surplus = [op \in Solos |-> 0]
    /\ lots = {}

\* The committed pieces that become available on a day.
Arriving(op, day) ==
    SumOver([s \in supply |-> s.qty], {s \in supply : s.op = op /\ s.day = day})

\* The committed pieces left at the end of each day.
Left(op) ==
    LET left[day \in -1..(Horizon - 1)] ==
          IF day < 0 THEN 0
          ELSE PosPart(left[day - 1] + Arriving(op, day) - demand[op][day])
    IN left

\* _op_after_committed_supply: a supply offsets no demand before its day.
Uncovered(op) ==
    [day \in Days |-> PosPart(demand[op][day] - Left(op)[day - 1] - Arriving(op, day))]

OffsetSupply ==
    /\ stage = "orders"
    /\ stage' = "sizing"
    /\ open' = [op \in Ops |-> Uncovered(op)]
    /\ UNCHANGED <<demand, supply, surplus, lots>>

----------------------------------------------------------------------------
(* Twin cycles: every run of the tool makes as many pieces of each side.   *)

Pending == {e \in Pair \X Days : open[e[1]][e[2]] > 0}

\* Mutant: the customer's day decides, whatever the subcontractor needs.
UrgencyByDelivery(e) == <<e[2], -Priority[e[1]], e[2], e[1]>>

\* _twin_event_priority
Urgency(e) == <<ProductionDue(e[1], e[2]), e[2], -Priority[e[1]], e[2], e[1]>>

Current == FirstBy(Urgency, Pending)

Distance(e) == IF e[2] >= Current[2] THEN e[2] - Current[2] ELSE Current[2] - e[2]

\* The nearest demand of the other side, if any is near enough.
Partners ==
    LET near == {e \in Pending : e[1] # Current[1] /\ Distance(e) <= PairGap}
    IN IF near = {} THEN {}
       ELSE {FirstBy(LAMBDA e : <<Distance(e)>> \o Urgency(e), near)}

Active == {Current} \union Partners

CycleQty == Max({ApplyEcoLot(e[1], open[e[1]][e[2]]) : e \in Active})

\* _consume_twin_output: the oldest demand of the side takes the output first.
Consumed(op, qty) ==
    [day \in Days |->
        LET ahead == SumOver(open[op], 0..(day - 1))
        IN open[op][day] - Least(open[op][day], PosPart(qty - ahead))]

AfterCycle == [op \in Ops |-> IF op \in Pair THEN Consumed(op, CycleQty) ELSE open[op]]

TwinLot ==
    [n |-> Cardinality(lots) + 1,
     made |-> [op \in Pair |-> CycleQty],
     tool |-> Tool[Twins[1]],
     family |-> Family[Twins[1]],
     minutes |-> Max({CycleQty * Minutes[op] : op \in Pair}),
     edd |-> Min({ProductionDue(e[1], e[2]) : e \in Active}),
     due |-> [op \in {e[1] : e \in Active} |-> (CHOOSE e \in Active : e[1] = op)[2]],
     rupture |-> Min({e[2] : e \in Active}),
     priority |-> Max({Priority[e[1]] : e \in Active}),
     release |-> Min({Release(e[1], e[2]) : e \in Active})]

\* The demands the cycle was sized for must be consumed by it.
Controls == \A e \in Active : AfterCycle[e[1]][e[2]] = 0

TwinCycle ==
    /\ stage = "sizing"
    /\ Pending # {}
    /\ Controls
    /\ open' = AfterCycle
    /\ lots' = lots \union {TwinLot}
    /\ UNCHANGED <<stage, demand, supply, surplus>>

\* RuntimeError("Falha ao consumir o evento controlador de gemeas."): no plan.
TwinCycleFails ==
    /\ stage = "sizing"
    /\ Pending # {}
    /\ ~Controls
    /\ stage' = "failed"
    /\ UNCHANGED sizingVars

----------------------------------------------------------------------------
(* Solo lots, one demand at a time.                                        *)

NextSolo ==
    FirstBy(LAMBDA e : e, {e \in Solos \X Days : open[e[1]][e[2]] > 0})

\* _requested_qty_with_campaign
Requested(op, day, deficit) ==
    Max({deficit + SumOver(open[op], (day + 1)..Least(day + Window[op], Horizon - 1)),
         Campaign[op]})

SoloLot(op, day, qty) ==
    [n |-> Cardinality(lots) + 1,
     made |-> [o \in {op} |-> qty],
     tool |-> Tool[op],
     family |-> Family[op],
     minutes |-> qty * Minutes[op],
     edd |-> ProductionDue(op, day),
     due |-> [o \in {op} |-> day],
     rupture |-> day,
     priority |-> Priority[op],
     release |-> Release(op, day)]

\* Mutant: only what rounding added is carried.
CarriedRounding(qty, requested, deficit) == qty - requested

\* What is left over once a lot of "qty" pieces covers the deficit.
Carried(qty, requested, deficit) == qty - deficit

SoloDemand ==
    /\ stage = "sizing"
    /\ Pending = {}
    /\ \E op \in Solos, day \in Days :
         /\ open[op][day] > 0
         /\ NextSolo = <<op, day>>
         /\ open' = [open EXCEPT ![op][day] = 0]
         /\ LET deficit == open[op][day] - surplus[op]
                requested == Requested(op, day, deficit)
                qty == ApplyEcoLot(op, requested)
            IN \/ /\ deficit <= 0
                  /\ surplus' = [surplus EXCEPT ![op] = -deficit]
                  /\ UNCHANGED lots
               \/ /\ deficit > 0
                  /\ surplus' = [surplus EXCEPT ![op] = Carried(qty, requested, deficit)]
                  /\ lots' = lots \union {SoloLot(op, day, qty)}
    /\ UNCHANGED <<stage, demand, supply>>

Sized ==
    /\ stage = "sizing"
    /\ \A op \in Ops, day \in Days : open[op][day] = 0
    /\ stage' = "sized"
    /\ UNCHANGED sizingVars

SizingNext == OffsetSupply \/ TwinCycle \/ TwinCycleFails \/ SoloDemand \/ Sized

----------------------------------------------------------------------------
Total(op, day) == SumOver(demand[op], 0..day)
Supplied(op, day) ==
    SumOver([s \in supply |-> s.qty], {s \in supply : s.op = op /\ s.day <= day})
Making(op, chosen) ==
    LET its == {l \in chosen : op \in DOMAIN l.made}
    IN SumOver([l \in its |-> l.made[op]], its)

\* Every demand can be met when the lots are finished on their own due days
\* and the supplies come on theirs: what is due by the production milestone
\* of a day, with what was supplied by that day, covers all that customers
\* asked for until then, for operations made alone or with a twin, whatever
\* their lead times.
DemandIsMet ==
    stage = "sized" =>
      \A op \in Ops : \A day \in {d \in Days : demand[op][d] > 0} :
        Supplied(op, day) + Making(op, {l \in lots : l.edd <= ProductionDue(op, day)})
          >= Total(op, day)

\* Nothing is made twice: what a lot anticipates of the coming demand, and
\* what rounding adds, is used before another lot is started, so that less
\* than one campaign of an operation is ever left over.  Twins are excluded:
\* a side without demand is made on purpose.
NothingMadeTwice ==
    stage = "sized" =>
      \A op \in Solos :
        Making(op, lots) - SumOver(Uncovered(op), Days)
          < Max({ApplyEcoLot(op, Campaign[op]), Eco[op], 1})

\* A twin cycle consumes the demands that control it: the assertion of
\* _create_twin_lots that ends the planning of the whole factory when a joint
\* run leaves one of its two demands open.
ControllingEventConsumed == stage # "failed"
=============================================================================
