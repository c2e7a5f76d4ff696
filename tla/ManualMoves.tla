----------------------------- MODULE ManualMoves -----------------------------
(***************************************************************************)
(* Manual moves: backend/plans/manual_move_jobs.py and its API,            *)
(* backend/api/manual_plan.py.  A move is checked in the background on the *)
(* plan of its start, by one worker thread; the planner may cancel the     *)
(* check, and applies its candidate through plan_writer under the          *)
(* identifier "manual:<job>".  Jobs, candidates and cancellations live in  *)
(* memory; the table is pruned to its newest jobs, ended ones first.       *)
(***************************************************************************)
EXTENDS PlansStore

CONSTANTS
    Jobs,        \* checks of a move
    Calls,       \* concurrent applications
    Retained     \* _MAX_RETAINED_JOBS

ASSUME JobsAssumption == IsFiniteSet(Jobs)
ASSUME RetainedAssumption == Retained \in Nat \ {0}

VARIABLES
    job,         \* status and base revision of each check, in the order of their start
    table,       \* the retained jobs
    future,      \* of each check: in the executor's queue, or where its worker is
    cancelEvents, \* the cancellations asked for; a worker keeps its event
    moves,       \* the candidates kept
    told,        \* the cancellations confirmed to a planner
    receipts,    \* the applied moves                              (durable)
    calls        \* the applications under way

vars == <<rows, active, inserted, live, saving, job, table, future,
          cancelEvents, moves, told, receipts, calls>>

Terminal == {"ready", "applied", "failed", "cancelled"}
Statuses == Terminal \cup {"none", "queued", "running"}
Futures == {"none", "pending", "taken", "running", "checked", "stored"}
Checks == [status : Statuses, base : Nat, number : Nat]
Idle == [at |-> "idle"]
Applications == [at : {"captured", "calculated", "committed"}, job : Jobs, origin : Nat]

Init ==
    /\ StoreInit
    /\ job = [j \in Jobs |-> [status |-> "none", base |-> 0, number |-> 0]]
    /\ table = {} /\ future = [j \in Jobs |-> "none"]
    /\ cancelEvents = {} /\ moves = {} /\ told = {} /\ receipts = {}
    /\ calls = [c \in Calls |-> Idle]

-----------------------------------------------------------------------------
Held(j) == j \in table
Status(j) == IF Held(j) THEN job[j].status ELSE "none"

\* A mutant: a late worker writes over a cancellation.
UpdatedAnyway(j, s) == IF Held(j) THEN [job EXCEPT ![j].status = s] ELSE job

\* _update: a pruned job is gone, a cancelled one stays cancelled.
Updated(j, s) ==
    IF Held(j) /\ job[j].status # "cancelled" THEN [job EXCEPT ![j].status = s] ELSE job

Started == {j \in Jobs : job[j].status # "none"}
Older(i, j) == job[i].number < job[j].number

\* _prune_locked: the oldest ended jobs, as many as there are too many once a
\* new one is in.
Excess ==
    LET ended == {j \in table : job[j].status \in Terminal}
    IN {j \in ended :
          Cardinality({i \in ended : Older(i, j)}) + Retained < Cardinality(table) + 1}

\* start_move_preview_job: no await between the capture and the submission.
Start(j) ==
    /\ job[j].status = "none" /\ ~saving.on
    /\ job' = [job EXCEPT ![j] = [status |-> "queued", base |-> live,
                                  number |-> Cardinality(Started) + 1]]
    /\ table' = (table \ Excess) \cup {j}
    /\ moves' = moves \ Excess
    /\ future' = [future EXCEPT ![j] = "pending"]
    /\ UNCHANGED <<store, cancelEvents, told, receipts, calls>>

\* cancel: a future still queued is withdrawn; a running check is told.
Cancel(j) ==
    /\ Status(j) \in {"queued", "running"}
    /\ cancelEvents' = cancelEvents \cup {j}
    /\ future' = IF future[j] = "pending" THEN [future EXCEPT ![j] = "none"] ELSE future
    /\ job' = [job EXCEPT ![j].status = "cancelled"]
    /\ moves' = moves \ {j}
    /\ told' = told \cup {j}
    /\ UNCHANGED <<store, table, receipts, calls>>

-----------------------------------------------------------------------------
(* The worker: _run. *)
Working(j, at) == future[j] = at
GoesTo(j, at) == future' = [future EXCEPT ![j] = at]
Leave(j) == GoesTo(j, "none")
Elsewhere == <<store, table, cancelEvents, told, receipts, calls>>

\* The executor's only thread: the oldest work first.
Dequeues(j) ==
    /\ Working(j, "pending")
    /\ \A i \in Jobs : Working(i, "pending") /\ i # j => Older(j, i)
    /\ \A i \in Jobs : future[i] \in {"none", "pending"}
    /\ GoesTo(j, "taken")
    /\ UNCHANGED <<job, moves, Elsewhere>>

Takes(j) ==
    /\ Working(j, "taken")
    /\ IF j \in cancelEvents
         THEN Leave(j) /\ UNCHANGED job
         ELSE job' = Updated(j, "running") /\ GoesTo(j, "running")
    /\ UNCHANGED <<moves, Elsewhere>>

\* A mutant: an unexpected failure leaves the status as it was.
StopsSilently(j) ==
    /\ Working(j, "running")
    /\ \/ j \in cancelEvents /\ job' = Updated(j, "cancelled")
       \/ UNCHANGED job
    /\ Leave(j)
    /\ UNCHANGED <<moves, Elsewhere>>

\* move_lot with its progress calls: it stops at a cancellation it sees, or
\* fails (no such move, out of time), or returns a candidate.
Stops(j) ==
    /\ Working(j, "running")
    /\ \/ j \in cancelEvents /\ job' = Updated(j, "cancelled")
       \/ job' = Updated(j, "failed")
    /\ Leave(j)
    /\ UNCHANGED <<moves, Elsewhere>>

LastLook(j) ==
    /\ Working(j, "running") /\ j \notin cancelEvents
    /\ GoesTo(j, "checked")
    /\ UNCHANGED <<job, moves, Elsewhere>>

\* The candidate goes in first; then the row of a pruned job is not there.
Stores(j) ==
    /\ Working(j, "checked")
    /\ moves' = moves \cup {j}
    /\ GoesTo(j, IF Held(j) THEN "stored" ELSE "none")
    /\ UNCHANGED <<job, Elsewhere>>

Publishes(j) ==
    /\ Working(j, "stored")
    /\ job' = Updated(j, "ready")
    /\ Leave(j)
    /\ UNCHANGED <<moves, Elsewhere>>

Worker ==
    \E j \in Jobs :
        Dequeues(j) \/ Takes(j) \/ Stops(j) \/ LastLook(j) \/ Stores(j) \/ Publishes(j)

-----------------------------------------------------------------------------
(* move-apply, a plan_writer. *)
At(c, at) == calls[c].at = at
Becomes(c, call) == calls' = [calls EXCEPT ![c] = call]
Beside == <<job, table, future, cancelEvents, moves, told>>

\* The receipt of "manual:<job>" first; then the clone of the plan.
Captures(c, j) ==
    /\ At(c, "idle") /\ job[j].status # "none" /\ ~saving.on
    /\ j \notin receipts
    /\ Becomes(c, [at |-> "captured", job |-> j, origin |-> live])
    /\ UNCHANGED <<store, Beside, receipts>>

\* ManualMoveJobManager.result, against the clone.
Applicable(c) ==
    LET j == calls[c].job
    IN Status(j) = "ready" /\ j \in moves /\ job[j].base = calls[c].origin

Calculates(c) ==
    /\ At(c, "captured")
    /\ Becomes(c, IF Applicable(c) THEN [calls[c] EXCEPT !.at = "calculated"] ELSE Idle)
    /\ UNCHANGED <<store, Beside, receipts>>

Applies(c) ==
    /\ At(c, "calculated") /\ ~saving.on
    /\ calls[c].job \notin receipts /\ calls[c].origin = live
    /\ CommitSnapshot
    /\ receipts' = receipts \cup {calls[c].job}
    /\ Becomes(c, [calls[c] EXCEPT !.at = "committed"])
    /\ UNCHANGED Beside

Refused(c) ==
    /\ At(c, "calculated") /\ ~saving.on
    /\ calls[c].job \in receipts \/ calls[c].origin # live
    /\ Becomes(c, Idle)
    /\ UNCHANGED <<store, Beside, receipts>>

\* The callback after the commit: mark_applied.
Marks(c) ==
    /\ At(c, "committed")
    /\ job' = Updated(calls[c].job, "applied")
    /\ Becomes(c, Idle)
    /\ UNCHANGED <<store, table, future, cancelEvents, moves, told, receipts>>

-----------------------------------------------------------------------------
\* A commit of another thread (an executor, a load), outside the API's lock.
OtherCommit ==
    /\ CommitSnapshot
    /\ UNCHANGED <<Beside, receipts, calls>>

ByHand ==
    /\ SaveReads \/ SaveInserts \/ \E r \in rows : Delete(r)
    /\ UNCHANGED <<Beside, receipts, calls>>

\* What is in memory is gone; no job survives.
Restart ==
    /\ Reopen
    /\ job' = [j \in Jobs |-> IF job[j].status = "none" THEN job[j]
                              ELSE [job[j] EXCEPT !.status = "failed"]]
    /\ table' = {} /\ future' = [j \in Jobs |-> "none"]
    /\ cancelEvents' = {} /\ moves' = {}
    /\ calls' = [c \in Calls |-> Idle]
    /\ UNCHANGED <<told, receipts>>

Apply(c) == Calculates(c) \/ Applies(c) \/ Refused(c) \/ Marks(c)

Next ==
    \/ \E j \in Jobs : Start(j) \/ Cancel(j) \/ \E c \in Calls : Captures(c, j)
    \/ Worker
    \/ \E c \in Calls : Apply(c)
    \/ OtherCommit \/ ByHand \/ Restart

Spec == Init /\ [][Next]_vars
\* The executor's thread runs.
FairSpec == Spec /\ WF_vars(Worker)

-----------------------------------------------------------------------------
TypeOK ==
    /\ StoreTypeOK
    /\ job \in [Jobs -> Checks]
    /\ table \subseteq Jobs /\ future \in [Jobs -> Futures]
    /\ cancelEvents \subseteq Jobs /\ moves \subseteq Jobs
    /\ told \subseteq Jobs /\ receipts \subseteq Jobs
    /\ calls \in [Calls -> Applications \cup {Idle}]

(* A move changes the plan at most once, on the very plan it was checked   *)
(* against, and never after its cancellation was confirmed: not when the   *)
(* worker was past its last look at the cancellation, not when the job was *)
(* pruned or applied twice at the same time (_update, result, the receipt  *)
(* of plan_writer).                                                        *)
MovesAreAsChecked ==
    [][\A j \in receipts' \ receipts :
         /\ job[j].base = live /\ live' = live + 1
         /\ j \notin told]_vars

(* A check ends, one way or another: the single worker gets to it.         *)
ChecksEnd ==
    \A j \in Jobs : Status(j) \in {"queued", "running"} ~>
                      Status(j) \notin {"queued", "running"}
=============================================================================
