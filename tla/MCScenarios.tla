----------------------------- MODULE MCScenarios -----------------------------
(* Two days imported, the second of a weekend; two more may be reached.     *)
EXTENDS Scenarios

MCShift == <<0, 1>>
MCOrders == [s \in Skus |-> <<[client |-> "c1", day |-> 0, qty |-> 1],
                              [client |-> "c2", day |-> 0, qty |-> 2],
                              [client |-> "c1", day |-> 1, qty |-> 3]>>]
MCStops == {[id |-> "s1", on |-> "m", from |-> 0, to |-> 3],
            [id |-> "s2", on |-> "t", from |-> 6, to |-> 16]}
MCLeaves == {[id |-> "l1", shift |-> "last", count |-> 1, from |-> 2, to |-> 4]}

Down(d) == [type |-> "resource_down", on |-> "m", start |-> d, end |-> d]
Short(s, n, d, e, hours) ==
    [type |-> "operator_shortage", shift |-> s, count |-> n, start |-> d, end |-> e, hours |-> hours]
Overtime == [type |-> "overtime", minutes |-> 1]
Rush(d) == [type |-> "rush_order", sku |-> "a", day |-> d, qty |-> 1]
Half == [type |-> "demand_change", sku |-> "a", factor |-> <<1, 2>>]
Cancel == [type |-> "cancel_order", sku |-> "a", start |-> 0, end |-> 0]
Earlier == [type |-> "advance_edd", sku |-> "a", days |-> 1]
Later == [type |-> "delay_edd", sku |-> "a", days |-> 1]
Close(d) == [type |-> "add_holiday", day |-> d]
Reopen(d) == [type |-> "remove_holiday", day |-> d]

MCRequests == {<<Down(0)>>, <<Short("last", 1, 0, 1, <<>>)>>, <<Short("last", 1, 0, 0, <<2, 3>>)>>,
               <<Overtime>>, <<Half>>, <<Cancel>>, <<Earlier>>, <<Later>>,
               <<Close(0)>>, <<Close(0), Reopen(0)>>,
               <<Short("last", 2, 1, 1, <<>>), Overtime>>, <<Reopen(1), Rush(3)>>}
MCPromises == {Rush(1)}
=============================================================================
