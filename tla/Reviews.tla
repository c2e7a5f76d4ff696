------------------------------ MODULE Reviews ------------------------------
(***************************************************************************)
(* What a planner is shown before the plan changes, from the browser to    *)
(* the commit: simulations and their application, recalculations whose     *)
(* result needs an approval, the revert of the last change.                *)
(*                                                                         *)
(* The server calculates outside its locks and keeps the candidate it      *)
(* showed in a bounded store in memory (backend/plans/candidates.py).  The *)
(* browser repeats a request under the same operation identifier until it  *)
(* has an answer (frontend/src/lib/operationIdentity.ts), and sends back   *)
(* the candidate an approval was asked for (approvalRetry.ts).  A request  *)
(* the browser gave up on goes on at the server.  The protocol below the   *)
(* commit is the one of PlanCommit, one step here.                         *)
(***************************************************************************)
EXTENDS Naturals, Sequences, FiniteSets, SequencesExt

CONSTANTS
    Users,         \* browsers
    Calls,         \* requests at the server, those nobody awaits included
    Results,       \* the plans a calculation may return
    NeedsApproval, \* those applied only with the planner's approval
    FirstPlan,     \* the plan of revision 0
    Nothing,       \* no call, no saved plan
    PreviewLimit,  \* size of the preview store
    MaxPreviews,   \* bound: candidates ever calculated
    MaxRequests,   \* bound: requests ever sent
    MaxRevision,   \* bound: revisions
    OthersUntil    \* bound: the last revision the writers outside may publish

ASSUME ResultsAssumption ==
    /\ NeedsApproval \subseteq Results
    /\ FirstPlan \notin Results
    /\ Nothing \notin Results \cup {FirstPlan}
ASSUME BoundsAssumption ==
    {PreviewLimit, MaxPreviews, MaxRequests, MaxRevision} \subseteq Nat \ {0}
ASSUME OthersAssumption == OthersUntil \in 0..MaxRevision

VARIABLES
    plan,       \* the live plan, its revision, and what a revert returns to
    offered,    \* history: what the last change replaced, if it offers a revert
    receipts,   \* the committed operations and their inputs  (durable)
    previews,   \* the preview store, oldest first
    expired,    \* how many of them, the oldest, are past their lifetime
    created,    \* candidates calculated so far
    calls,      \* the requests on their way or at the server
    sent,       \* requests sent so far
    view,       \* the revision each browser displays
    candidates, \* approvalRetry: the candidate of an operation to approve
    simulation, \* the simulation a browser displays
    shown,      \* the candidates a browser was ever shown
    told        \* the operations browsers were told are applied, or out of date

server == <<plan, offered, receipts, previews, expired, created>>
browsers == <<sent, view, candidates, simulation, shown, told>>
vars == <<plan, offered, receipts, previews, expired, created, calls, sent,
          view, candidates, simulation, shown, told>>

-----------------------------------------------------------------------------
Kinds == {"simulate", "apply", "recalculate", "revert"}
Plans == Results \cup {FirstPlan}
Revisions == 0..MaxRevision
Ids == 1..MaxPreviews
\* Identifier 0 stands for "no candidate".
Operations == [user : Users, kind : Kinds, key : Nat, again : BOOLEAN]
Candidates == [id : Ids, kind : Kinds, base : Revisions, result : Results]
Saved == [revision : Revisions, content : Plans] \cup {Nothing}
States == [revision : Revisions, content : Plans, saved : Saved]
FirstState == [revision |-> 0, content |-> FirstPlan, saved |-> Nothing]
\* At the server a request has its staged copy of the plan, then its result.
Requests == [user : Users, kind : Kinds, op : Operations, base : Revisions,
             id : Ids \cup {0}, approve : BOOLEAN, awaited : BOOLEAN,
             at : {"sent", "calculating", "calculated"},
             from : States, result : Plans \cup {Nothing}]
Receipts == [op : Operations, kind : Kinds, base : Revisions, id : Ids \cup {0}]
Offers == [op : Operations, id : Ids]
Answers == [op : Operations, answer : {"applied", "stale"}]

Init ==
    /\ plan = FirstState
    /\ offered = Nothing
    /\ receipts = {}
    /\ previews = <<>>
    /\ expired = 0
    /\ created = 0
    /\ calls = [c \in Calls |-> Nothing]
    /\ sent = 0
    /\ view = [u \in Users |-> 0]
    /\ candidates = [u \in Users |-> {}]
    /\ simulation = [u \in Users |-> 0]
    /\ shown = [u \in Users |-> {}]
    /\ told = {}

-----------------------------------------------------------------------------
(* The browser.  One request of a user is awaited at a time: the screen is *)
(* blocked while it is.                                                    *)

Awaits(u, c) == calls[c] # Nothing /\ calls[c].user = u /\ calls[c].awaited
Free(u) == \A c \in Calls : ~Awaits(u, c)

\* An identifier is forgotten once its outcome was confirmed: the same
\* request sent again is another operation.
OperationId(u, kind, key) ==
    LET first == [user |-> u, kind |-> kind, key |-> key, again |-> FALSE]
    IN [first EXCEPT !.again = [op |-> first, answer |-> "applied"] \in told]

Send(u, c, kind, key, base, id, approve) ==
    /\ Free(u) /\ calls[c] = Nothing
    /\ sent < MaxRequests /\ sent' = sent + 1
    /\ calls' = [calls EXCEPT ![c] =
         [user |-> u, kind |-> kind, op |-> OperationId(u, kind, key), base |-> base,
          id |-> id, approve |-> approve, awaited |-> TRUE, at |-> "sent",
          from |-> FirstState, result |-> Nothing]]
    /\ UNCHANGED <<server, view, candidates, simulation, shown, told>>

SendSimulate(u, c) ==
    /\ created < MaxPreviews
    /\ Send(u, c, "simulate", 0, view[u], 0, FALSE)

\* useDataStore.applySimulation: only the simulation on display, and only while
\* the displayed revision is the one it was calculated on.
Displayed(u) ==
    {s \in shown[u] : s.id = simulation[u] /\ s.base = view[u]}

SendApply(u, c) ==
    \E s \in Displayed(u), approve \in BOOLEAN :
        /\ approve => s.result \in NeedsApproval
        /\ Send(u, c, "apply", s.id, s.base, s.id, approve)

\* The approval dialog opens on a refusal that asked for it; the candidate of
\* that refusal goes along while the browser still holds it.
SendRecalculate(u, c) ==
    LET op == OperationId(u, "recalculate", view[u])
        held == {k \in candidates[u] : k.op = op}
        id == IF held = {} THEN 0 ELSE (CHOOSE k \in held : TRUE).id
    IN \E approve \in BOOLEAN :
        /\ approve => \E s \in shown[u] : s.base = view[u] /\ s.kind = "recalculate"
        /\ Send(u, c, "recalculate", view[u], view[u], id, approve)

SendRevert(u, c) == Send(u, c, "revert", view[u], view[u], 0, FALSE)

\* A time-out or a lost answer: the request stays at the server.
GiveUp(c) ==
    /\ calls[c] # Nothing /\ calls[c].awaited
    /\ calls' = [calls EXCEPT ![c].awaited = FALSE]
    /\ UNCHANGED <<server, browsers>>

\* A connection that breaks before the request arrives.
Vanish(c) ==
    /\ calls[c] # Nothing /\ calls[c].at = "sent" /\ ~calls[c].awaited
    /\ calls' = [calls EXCEPT ![c] = Nothing]
    /\ UNCHANGED <<server, browsers>>

\* useDataStore.refreshAll: another revision drops the displayed simulation.
Refresh(u) ==
    /\ view[u] # plan.revision
    /\ view' = [view EXCEPT ![u] = plan.revision]
    /\ simulation' = [simulation EXCEPT ![u] = 0]
    /\ UNCHANGED <<server, calls, sent, candidates, shown, told>>

Forget(u, op) == {k \in candidates[u] : k.op # op}

\* The end of a request, told to the browser that still awaits it.
Tell(c, answer) ==
    LET k == calls[c]
    IN /\ calls' = [calls EXCEPT ![c] = Nothing]
       /\ IF k.awaited
            THEN /\ told' = IF answer \in {"applied", "stale"}
                              THEN told \cup {[op |-> k.op, answer |-> answer]} ELSE told
                 /\ candidates' = [candidates EXCEPT ![k.user] = Forget(k.user, k.op)]
                 /\ simulation' = [simulation EXCEPT ![k.user] =
                                     IF k.kind = "apply" /\ answer = "applied"
                                       THEN 0 ELSE @]
                 /\ UNCHANGED <<sent, view, shown>>
            ELSE UNCHANGED browsers

-----------------------------------------------------------------------------
(* The server.  At every step its staged copy of the plan is calls[c].from. *)

SameInput(k, r) == r.kind = k.kind /\ r.base = k.base /\ r.id = k.id

\* A mutant: a repeated request is a new one.
ReceiptIgnored(c) == "none"

\* transactions._receipt: the outcome of an operation already committed.
ReceiptAnswer(c) ==
    LET same == {r \in receipts : r.op = calls[c].op}
    IN IF same = {} THEN "none"
       ELSE IF \E r \in same : SameInput(calls[c], r) THEN "applied"
       ELSE "different_input"

Reading(c, at) == calls[c] # Nothing /\ calls[c].at = at

\* plan_writer takes the plan's image; a simulation has no operation to replay.
Capture(c) ==
    /\ Reading(c, "sent")
    /\ IF calls[c].kind # "simulate" /\ ReceiptAnswer(c) # "none"
         THEN Tell(c, ReceiptAnswer(c))
         ELSE /\ calls' = [calls EXCEPT ![c].from = plan, ![c].at = "calculating"]
              /\ UNCHANGED browsers
    /\ UNCHANGED server

\* PreviewStore.put_for_origin: the oldest candidates leave a full store.
Put(kind, base, result) ==
    LET candidate == [id |-> created + 1, kind |-> kind, base |-> base, result |-> result]
        all == Append(previews, candidate)
    IN /\ created < MaxPreviews
       /\ created' = created + 1
       /\ IF Len(all) > PreviewLimit
            THEN /\ previews' = Tail(all)
                 /\ expired' = IF expired = 0 THEN 0 ELSE expired - 1
            ELSE previews' = all /\ UNCHANGED expired
       /\ UNCHANGED <<plan, offered, receipts>>

Stored(id) == {p \in Range(previews) : p.id = id}
Alive(id) == \E i \in DOMAIN previews : i > expired /\ previews[i].id = id

\* PreviewStore.get_for_origin: what it returns, or why it refuses.
Lookup(id, kind, base) ==
    IF ~Alive(id) THEN "preview_required"
    ELSE IF \A p \in Stored(id) : p.kind = kind /\ p.base = base THEN "found"
    ELSE "stale_preview"

Show(c, candidate) ==
    /\ calls' = [calls EXCEPT ![c] = Nothing]
    /\ IF calls[c].awaited
         THEN shown' = [shown EXCEPT ![calls[c].user] = @ \cup {candidate}]
         ELSE UNCHANGED shown

Simulate(c) ==
    /\ Reading(c, "calculating") /\ calls[c].kind = "simulate"
    /\ \E result \in Results :
         LET base == calls[c].from.revision
             candidate == [id |-> created + 1, kind |-> "simulate", base |-> base,
                           result |-> result]
         IN /\ Put("simulate", base, result)
            /\ Show(c, candidate)
            /\ simulation' = [simulation EXCEPT ![calls[c].user] =
                                IF calls[c].awaited THEN candidate.id ELSE @]
    /\ UNCHANGED <<sent, view, candidates, told>>

\* _require_expected_revision, on the staged copy.
ExpectedRevision(c) == calls[c].base = calls[c].from.revision

Staged(c, result) ==
    /\ calls' = [calls EXCEPT ![c].result = result, ![c].at = "calculated"]
    /\ UNCHANGED browsers

\* _simulate_and_apply_locked: the plan in force becomes what a revert returns to.
ApplyFinds(c) ==
    LET found == Lookup(calls[c].id, "simulate", calls[c].from.revision)
        candidate == CHOOSE p \in Stored(calls[c].id) : TRUE
    IN /\ Reading(c, "calculating") /\ calls[c].kind = "apply"
       /\ IF ~ExpectedRevision(c) THEN Tell(c, "stale")
          ELSE IF found # "found" THEN Tell(c, found)
          ELSE IF candidate.result \in NeedsApproval /\ ~calls[c].approve
            THEN Tell(c, "approval_required")
          ELSE Staged(c, candidate.result)
       /\ UNCHANGED server

\* plan_writer's 409: the gate report and the identity of the candidate it is
\* about, which withApprovalCandidate keeps for the operation.
Offer(c, candidate) ==
    LET k == calls[c]
    IN /\ Show(c, candidate)
       /\ candidates' = IF k.awaited
            THEN [candidates EXCEPT ![k.user] =
                    Forget(k.user, k.op) \cup {[op |-> k.op, id |-> candidate.id]}]
            ELSE candidates
       /\ UNCHANGED <<sent, view, simulation, told>>

\* plan_writer.calculate: the candidate an approval was asked for, not another
\* calculation; None when the store lost it or holds a simulation.
Prepared(c) ==
    LET stored == {p \in Stored(calls[c].id) : p.kind = "recalculate"}
    IN IF stored = {} THEN "none"
       ELSE Lookup(calls[c].id, "recalculate", calls[c].from.revision)

RecalculatePrepared(c) ==
    LET candidate == CHOOSE p \in Stored(calls[c].id) : TRUE
    IN /\ Reading(c, "calculating") /\ calls[c].kind = "recalculate"
       /\ Prepared(c) # "none"
       /\ IF Prepared(c) # "found" THEN Tell(c, Prepared(c))
          ELSE IF calls[c].approve THEN Staged(c, candidate.result)
          ELSE Offer(c, candidate)
       /\ UNCHANGED server

\* A mutant: an approval is taken for whatever the calculation returns.
PreviewNotRequired(c) == FALSE

\* _require_recompute_preview: an approval never applies to a new calculation.
PreviewRequired(c) == calls[c].id # 0 \/ calls[c].approve

\* _recompute_transactional: a result to approve is kept and offered.
Recalculate(c) ==
    /\ Reading(c, "calculating") /\ calls[c].kind = "recalculate"
    /\ Prepared(c) = "none"
    /\ ExpectedRevision(c) /\ ~PreviewRequired(c)
    /\ \E result \in Results :
         IF result \in NeedsApproval /\ ~calls[c].approve
           THEN /\ Put("recalculate", calls[c].base, result)
                /\ Offer(c, Last(previews'))
           ELSE /\ Staged(c, result)
                /\ UNCHANGED server

RecalculateRefused(c) ==
    /\ Reading(c, "calculating") /\ calls[c].kind = "recalculate"
    /\ Prepared(c) = "none"
    /\ ~ExpectedRevision(c) \/ PreviewRequired(c)
    /\ Tell(c, IF ExpectedRevision(c) THEN "preview_required" ELSE "stale")
    /\ UNCHANGED server

\* A mutant: what was saved is restored over later changes.
RevertibleAnyTime(c) == calls[c].from.saved # Nothing

\* can-revert: only while nothing was committed after what saved the plan.
Revertible(c) ==
    LET from == calls[c].from
    IN from.saved # Nothing /\ from.revision = from.saved.revision + 1

Revert(c) ==
    /\ Reading(c, "calculating") /\ calls[c].kind = "revert"
    /\ IF ~ExpectedRevision(c) THEN Tell(c, "stale")
       ELSE IF ~Revertible(c) THEN Tell(c, "refused")
       ELSE Staged(c, calls[c].from.saved.content)
    /\ UNCHANGED server

\* CopilotState.save_current: the plan in force, which a revert returns to.
SaveCurrent(state) == [revision |-> state.revision, content |-> state.content]

\* An apply saves the plan it replaces; a revert spends what was saved.
SavedBy(c) ==
    CASE calls[c].kind = "apply" -> SaveCurrent(calls[c].from)
      [] calls[c].kind = "revert" -> Nothing
      [] OTHER -> calls[c].from.saved

\* Whether the answer to a change says can_revert, of the plan in force.
OffersRevert(yes) == offered' = IF yes THEN plan.content ELSE Nothing

\* transactions._commit: the receipt first, then the image it started from.
Commit(c) ==
    /\ Reading(c, "calculated")
    /\ ReceiptAnswer(c) = "none" /\ calls[c].from.revision = plan.revision
    /\ plan.revision < MaxRevision
    /\ plan' = [revision |-> plan.revision + 1, content |-> calls[c].result,
                saved |-> SavedBy(c)]
    /\ OffersRevert(calls[c].kind = "apply")
    /\ receipts' = receipts \cup
         {[op |-> calls[c].op, kind |-> calls[c].kind, base |-> calls[c].base,
           id |-> calls[c].id]}
    /\ Tell(c, "applied")
    /\ UNCHANGED <<previews, expired, created>>

CommitRefused(c) ==
    /\ Reading(c, "calculated")
    /\ ReceiptAnswer(c) # "none" \/ calls[c].from.revision # plan.revision
    /\ Tell(c, IF ReceiptAnswer(c) # "none" THEN ReceiptAnswer(c) ELSE "stale")
    /\ UNCHANGED server

(* The writes outside this module, one step each (PlanCommit has their     *)
(* protocol), and what each does to the saved plan.                        *)
Write(saved, revertible) ==
    /\ plan.revision < OthersUntil
    /\ \E result \in Results \ NeedsApproval :
         plan' = [revision |-> plan.revision + 1, content |-> result, saved |-> saved]
    /\ OffersRevert(revertible)
    /\ UNCHANGED <<receipts, previews, expired, created, calls, browsers>>

\* apply_move and _apply_ctp_locked save the plan they change, like an apply.
MoveByHand == Write(SaveCurrent(plan), TRUE)
ApplyPromise == Write(SaveCurrent(plan), TRUE)

\* Master data, configuration and rules, the recalculation of another
\* planner, an applied replan: what was saved stays.
ChangeInputs == Write(plan.saved, FALSE)

\* A loaded file, a stored plan or scenario put in force: nothing is saved.
LoadOrRestore == Write(Nothing, FALSE)

OtherWrite == MoveByHand \/ ApplyPromise \/ ChangeInputs \/ LoadOrRestore

\* ttl_seconds after it was calculated: the oldest candidate first.
Expire ==
    /\ expired < Len(previews)
    /\ expired' = expired + 1
    /\ UNCHANGED <<plan, offered, receipts, previews, created, calls, browsers>>

\* The previews and the saved plan live in memory; plan and receipts do not.
Restart ==
    /\ plan' = [plan EXCEPT !.saved = Nothing]
    /\ previews' = <<>>
    /\ expired' = 0
    /\ calls' = [c \in Calls |-> Nothing]
    /\ UNCHANGED <<offered, receipts, created, browsers>>

-----------------------------------------------------------------------------
Ask(u, c) ==
    SendSimulate(u, c) \/ SendApply(u, c) \/ SendRecalculate(u, c) \/ SendRevert(u, c)

Serve(c) ==
    \/ Capture(c) \/ Simulate(c) \/ ApplyFinds(c) \/ RecalculatePrepared(c)
    \/ Recalculate(c) \/ RecalculateRefused(c) \/ Revert(c)
    \/ Commit(c) \/ CommitRefused(c)

Next ==
    \/ \E u \in Users, c \in Calls : Ask(u, c)
    \/ \E u \in Users : Refresh(u)
    \/ \E c \in Calls : GiveUp(c) \/ Vanish(c) \/ Serve(c)
    \/ Expire \/ OtherWrite \/ Restart

Spec == Init /\ [][Next]_vars

-----------------------------------------------------------------------------
(* The variables have their types; the store keeps its limit and its order *)
(* (PreviewStore.put_for_origin).                                          *)
TypeOK ==
    /\ plan \in States
    /\ offered \in Plans \cup {Nothing}
    /\ receipts \subseteq Receipts
    /\ previews \in Seq(Candidates) /\ Len(previews) <= PreviewLimit
    /\ \A i, j \in DOMAIN previews : i < j => previews[i].id < previews[j].id
    /\ expired \in 0..Len(previews) /\ created \in 0..MaxPreviews
    /\ calls \in [Calls -> Requests \cup {Nothing}]
    /\ sent \in 0..MaxRequests
    /\ view \in [Users -> Revisions]
    /\ candidates \in [Users -> SUBSET Offers]
    /\ simulation \in [Users -> Ids \cup {0}]
    /\ shown \in [Users -> SUBSET Candidates]
    /\ told \subseteq Answers

Commits(c) ==
    calls[c] # Nothing /\ calls'[c] = Nothing /\ plan'.revision = plan.revision + 1

(* A planner only ever gets the plan it was shown: an applied simulation   *)
(* and an approved recalculation are a candidate this very browser was     *)
(* shown, calculated on the plan being replaced, whatever was evicted, had *)
(* expired, was retried or restarted in between; and a result that needs   *)
(* an approval is not committed without one (plan_writer,                  *)
(* _require_recompute_preview, PreviewStore.get_for_origin).               *)
AppliedAsShown ==
    [][\A c \in Calls : Commits(c) /\ calls[c].kind # "revert" =>
         /\ plan'.content \in NeedsApproval => calls[c].approve
         /\ calls[c].kind = "apply" \/ plan'.content \in NeedsApproval =>
              \E s \in shown[calls[c].user] :
                s.result = plan'.content /\ s.base = plan.revision]_vars

(* A revert undoes the last change and no other: the content it restores   *)
(* is the one that change replaced, and that change was one of those that  *)
(* offer it, the application of a scenario, a move by hand or a promise.   *)
(* Work done in between, by the planner or by others, a load, a restored   *)
(* plan or an earlier revert is never undone with it or instead of it      *)
(* (_revert_simulation_locked, save_current).                              *)
RevertUndoesTheLastChange ==
    [][\A c \in Calls : Commits(c) /\ calls[c].kind = "revert" =>
         plan'.content = offered]_vars

(* A browser told that its operation is out of date can believe it: that   *)
(* operation has not changed the plan, not even through an earlier attempt *)
(* it gave up on (the receipt is looked for before the revision is         *)
(* compared, at the capture and again at the commit).                      *)
StaleAnswersAreTrue ==
    \A t \in told : t.answer = "stale" => \A r \in receipts : r.op # t.op
=============================================================================
