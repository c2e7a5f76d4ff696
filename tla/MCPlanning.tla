----------------------------- MODULE MCPlanning -----------------------------
(* A small factory for TLC: twins 1 and 2, the first of them subcontracted, *)
(* and operations 3 and 4 on one tool with two setup families.              *)
EXTENDS Planning

MCTwins == <<1, 2>>
MCSlots == {<<1, 3>>, <<2, 0>>, <<2, 2>>, <<2, 3>>, <<3, 0>>, <<3, 3>>, <<4, 1>>, <<4, 2>>}
MCEco == <<1, 1, 2, 0>>
MCLead == <<2, 0, 0, 0>>
MCMargin == <<1, 0, 0, 0>>
MCWindow == <<0, 0, 1, 0>>
MCCampaign == <<0, 0, 0, 3>>
MCPriority == <<0, 1, 0, 0>>
MCMinutes == <<1, 1, 1, 1>>
MCTool == <<1, 1, 2, 2>>
MCFamily == <<1, 1, 1, 2>>
MCSupplies == {[op |-> 1, day |-> 1, qty |-> 1], [op |-> 3, day |-> 0, qty |-> 1]}
MCSetupMinutes == <<1, 1>>
MCPrimary == <<1, 2>>
MCAlternative == <<0, 1>>
MCGroup == <<1, 1>>
MCMachineBlocked == <<{}, {3}>>
MCToolBlocked == <<{}, {}>>
MCMachineStops == <<{<<1, 2>>}, {<<24, 25>>}>>
MCToolStops == <<{<<13, 14>>}, {}>>

MCPlan(late, start, valid, hard) ==
    [late |-> late, start |-> start, setups |-> 1, valid |-> valid, hard |-> hard]

\* Two orders, two lots: A and B are late with one order, and so on.  B moves
\* A's second lot forward and its first a little back, C does it once more.
MCPlans == {
    MCPlan(<<1, 0>>, <<2, 4>>, TRUE, FALSE),   \* A
    MCPlan(<<1, 0>>, <<3, 2>>, TRUE, FALSE),   \* B
    MCPlan(<<1, 0>>, <<4, 0>>, TRUE, FALSE),   \* C
    MCPlan(<<0, 1>>, <<1, 4>>, TRUE, FALSE),   \* late with the other order
    MCPlan(<<0, 0>>, <<2, 4>>, TRUE, FALSE),   \* in time
    MCPlan(<<0, 0>>, <<3, 2>>, TRUE, FALSE),   \* in time
    MCPlan(<<0, 0>>, <<1, 1>>, FALSE, FALSE),  \* not executable
    MCPlan(<<0, 0>>, <<0, 0>>, FALSE, TRUE)}   \* counted as a violation
=============================================================================
