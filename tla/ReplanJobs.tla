----------------------------- MODULE ReplanJobs -----------------------------
(***************************************************************************)
(* Replanning in the background: backend/replan/jobs.py, behind the        *)
(* handlers of backend/api/replan.py.                                      *)
(*                                                                         *)
(* A job is a row of replan.db.  One worker thread calculates the jobs in  *)
(* order and leaves a candidate; a client applies the candidate, as one    *)
(* more write of PlanCommit, or cancels the job.  The plan and its         *)
(* receipts live in plans.db, and no transaction spans both databases: the *)
(* row is marked 'completed' after the commit, or never.                   *)
(*                                                                         *)
(* The plan is its revision here, and a commit is one step: AtomicPlan,    *)
(* which PlanCommit implements.                                            *)
(***************************************************************************)
EXTENDS Naturals, Sequences, FiniteSets

CONSTANTS
    Jobs,            \* job identifiers (uuid4, never used twice)
    Requests,        \* contents of a replanning request
    Calls,           \* concurrent requests to apply a candidate
    OperationIds,    \* how those name their operation: "replan", "request"
    RetentionLimit,  \* rows the table keeps beside the pending ones
    PidsReused,      \* may a new process get the identifier of an old one?
    MaxRevision,     \* bound on the commits of other writers
    MaxProcesses,    \* bound on restarts
    NoCall

ASSUME JobsAssumption == IsFiniteSet(Jobs)
ASSUME OperationsAssumption == OperationIds \subseteq {"replan", "request"}
ASSUME RetentionAssumption == RetentionLimit \in Nat \ {0}
ASSUME PidsAssumption == PidsReused \in BOOLEAN
ASSUME BoundsAssumption == MaxRevision \in Nat /\ MaxProcesses \in Nat \ {0}
ASSUME NoCallAssumption == NoCall \notin Calls

VARIABLES
    rows,        \* table replan_jobs                          (durable)
    rev,         \* revision of the active plan                (durable)
    receipts,    \* committed applications                     (durable)
    up,          \* the server runs
    process,     \* worker_id and worker_pid of the running, or last, process
    starting,    \* a start_replan between its capture and its row
    executor,    \* queue of the worker thread; its head is running
    phase,       \* how far the head is
    commitLock,
    calls,       \* each request to apply: where it is and what it carries
    toldApplied, \* jobs a client was told were applied
    toldCancelled

durable == <<rows, rev, receipts>>
worker == <<executor, phase>>
answers == <<toldApplied, toldCancelled>>
vars == <<rows, rev, receipts, up, process, starting, executor, phase,
          commitLock, calls, toldApplied, toldCancelled>>

-----------------------------------------------------------------------------
Ended == {"completed", "cancelled", "failed"}
Waiting == {"queued", "running"}
Statuses == Ended \cup Waiting \cup {"unused", "ready", "deleted"}
Processes == [id : Nat, pid : Nat]
Rows == [status : Statuses, base : Nat, request : Requests, process : Processes,
         created : Nat]
Receipts == [job : Jobs, operation : OperationIds, rev : Nat]
NoStart == [on |-> FALSE]
Starts == [on : {TRUE}, request : Requests, base : Nat]
Idle == [at |-> "idle"]
Applications == [at : {"calculating", "calculated", "committing", "projecting"},
                 job : Jobs, operation : OperationIds, origin : Nat]

Init ==
    /\ \E r \in Requests :
          rows = [j \in Jobs |-> [status |-> "unused", base |-> 0, request |-> r,
                                  process |-> [id |-> 0, pid |-> 0], created |-> 0]]
    /\ rev = 0
    /\ receipts = {}
    /\ up = TRUE
    /\ process = [id |-> 1, pid |-> 1]
    /\ starting = NoStart
    /\ executor = <<>>
    /\ phase = "queued"
    /\ commitLock = NoCall
    /\ calls = [c \in Calls |-> Idle]
    /\ toldApplied = {}
    /\ toldCancelled = {}

-----------------------------------------------------------------------------
(* ReplanJobStore.                                                         *)

(* Mutant: a row of another process is always taken for a live one. *)
NeverInterrupted(row) == FALSE

(* _row_is_interrupted: its worker is another one, whose process is gone.  *)
(* Of the processes that may carry a row's identifier only the server's    *)
(* own is in the model.                                                    *)
Interrupted(row) ==
    /\ row.status \in Waiting
    /\ row.process.id # process.id
    /\ row.process.pid # process.pid

(* update leaves an ended or deleted row as it is. *)
Updated(j, s) ==
    IF rows[j].status \in Ended \cup {"unused", "deleted"} THEN rows
    ELSE [rows EXCEPT ![j].status = s]

(* The rows the table holds. *)
Table(rs) == {j \in Jobs : rs[j].status \notin {"unused", "deleted"}}

(* _prune_locked: the pending rows stay, and the newest of the others. *)
Kept(rs) ==
    LET protected == {j \in Table(rs) : rs[j].status \in Waiting /\ ~Interrupted(rs[j])}
        newer(j) == {k \in Table(rs) \ protected : rs[k].created > rs[j].created}
    IN  {j \in Table(rs) :
            \/ j \in protected
            \/ Cardinality(newer(j)) + Cardinality(protected) < RetentionLimit}

Pruned(rs) ==
    [j \in Jobs |-> IF j \in Table(rs) \ Kept(rs)
                    THEN [rs[j] EXCEPT !.status = "deleted"] ELSE rs[j]]

(* _committed_job and get: what a client reads of a job.  Only a receipt   *)
(* under the job's own operation identifier is looked for.                 *)
CommittedJob(j) == \E r \in receipts : r.job = j /\ r.operation = "replan"

Status(j) ==
    IF CommittedJob(j) THEN "completed"
    ELSE IF Interrupted(rows[j]) THEN "failed" ELSE rows[j].status

-----------------------------------------------------------------------------
(* start_replan.  The event loop runs it to its end, but other writers     *)
(* commit in their own threads between its capture and its row.            *)
LoopFree == up /\ ~starting.on

StartCaptures(r) ==
    /\ LoopFree
    /\ commitLock = NoCall
    /\ starting' = [on |-> TRUE, request |-> r, base |-> rev]
    /\ UNCHANGED <<durable, up, process, worker, commitLock, calls, answers>>

(* Mutant: only a finished candidate is reused. *)
IsSameReady(j) ==
    /\ rows[j].request = starting.request
    /\ rows[j].base = starting.base
    /\ rows[j].status = "ready"

(* create_or_get: a pending job for the same request on the same plan. *)
IsSame(j) ==
    /\ rows[j].request = starting.request
    /\ rows[j].base = starting.base
    /\ rows[j].status \in Waiting \cup {"ready"}
    /\ ~Interrupted(rows[j])

StartDeduplicated ==
    /\ up /\ starting.on
    /\ \E j \in Table(rows) : IsSame(j)
    /\ starting' = NoStart
    /\ UNCHANGED <<durable, up, process, worker, commitLock, calls, answers>>

StartCreates(j) ==
    /\ up /\ starting.on
    /\ ~\E k \in Table(rows) : IsSame(k)
    /\ rows[j].status = "unused"
    /\ rows' = Pruned([rows EXCEPT ![j] =
                    [status |-> "queued", base |-> starting.base,
                     request |-> starting.request, process |-> process,
                     created |-> Cardinality({k \in Jobs : rows[k].created > 0}) + 1]])
    /\ executor' = Append(executor, j)
    /\ starting' = NoStart
    /\ UNCHANGED <<rev, receipts, up, process, phase, commitLock, calls, answers>>

(* The request is not valid, or there are no more identifiers (a bound). *)
StartRefused ==
    /\ up /\ starting.on
    /\ starting' = NoStart
    /\ UNCHANGED <<durable, up, process, worker, commitLock, calls, answers>>

-----------------------------------------------------------------------------
(* cancel, under commit_lock: a committed application wins.                *)

(* Mutant: the receipt is not looked for. *)
CancelAnyway(j) ==
    /\ LoopFree /\ commitLock = NoCall
    /\ j \in Table(rows)
    /\ rows' = Pruned(IF rows[j].status \in Waiting \cup {"ready"}
                      THEN [rows EXCEPT ![j].status = "cancelled"] ELSE rows)
    /\ toldCancelled' = IF rows'[j].status = "cancelled" THEN toldCancelled \cup {j}
                        ELSE toldCancelled
    /\ UNCHANGED <<rev, receipts, up, process, starting, worker, commitLock, calls, toldApplied>>

CancelCommitted(j) ==
    /\ LoopFree /\ commitLock = NoCall
    /\ CommittedJob(j)
    /\ toldApplied' = toldApplied \cup {j}
    /\ UNCHANGED <<durable, up, process, starting, worker, commitLock, calls, toldCancelled>>

(* The answer is the row after the pruning, if it is still there. *)
Cancel(j) ==
    /\ LoopFree /\ commitLock = NoCall
    /\ ~CommittedJob(j)
    /\ j \in Table(rows)
    /\ rows' = Pruned(IF rows[j].status \in Waiting \cup {"ready"}
                      THEN [rows EXCEPT ![j].status = "cancelled"] ELSE rows)
    /\ toldCancelled' = IF rows'[j].status = "cancelled" THEN toldCancelled \cup {j}
                        ELSE toldCancelled
    /\ UNCHANGED <<rev, receipts, up, process, starting, worker, commitLock, calls, toldApplied>>

-----------------------------------------------------------------------------
(* The worker thread: _run and _run_planning.                              *)

Running == up /\ executor # <<>>
Cancelled(j) == Status(j) \in Ended \/ j \notin Table(rows)
Leave == executor' = Tail(executor) /\ phase' = "queued"

(* The first look at the job, the second, and the last one. *)
WorkerLooks ==
    /\ Running
    /\ ~Cancelled(Head(executor))
    /\ \/ phase = "queued" /\ phase' = "preparing"
       \/ phase = "marked" /\ phase' = "planning"
       \/ phase = "planning" /\ phase' = "closing"
    /\ UNCHANGED <<durable, up, process, starting, executor, commitLock, calls, answers>>

(* A cancelled job is left, at a look or at a checkpoint of the planning. *)
WorkerAbandons ==
    /\ Running
    /\ phase \in {"queued", "marked", "planning"}
    /\ Cancelled(Head(executor))
    /\ Leave
    /\ UNCHANGED <<durable, up, process, starting, commitLock, calls, answers>>

WorkerMarks ==
    /\ Running
    /\ phase = "preparing"
    /\ rows' = Updated(Head(executor), "running")
    /\ phase' = "marked"
    /\ UNCHANGED <<rev, receipts, up, process, starting, executor, commitLock,
                   calls, answers>>

(* Mutant: an error is not recorded. *)
WorkerFailsSilently ==
    /\ Running
    /\ Leave
    /\ UNCHANGED <<durable, up, process, starting, commitLock, calls, answers>>

(* An exception, a candidate that fails its gates, or the budget ends. *)
WorkerFails ==
    /\ Running
    /\ rows' = Updated(Head(executor), "failed")
    /\ Leave
    /\ UNCHANGED <<rev, receipts, up, process, starting, commitLock, calls, answers>>

WorkerPublishes ==
    /\ Running
    /\ phase = "closing"
    /\ rows' = Updated(Head(executor), "ready")
    /\ Leave
    /\ UNCHANGED <<rev, receipts, up, process, starting, commitLock, calls, answers>>

-----------------------------------------------------------------------------
(* apply_replan, a plan_writer: the capture under commit_lock, the         *)
(* calculation without it, and the commit.                                 *)

Receipt(j, o) == \E r \in receipts : r.job = j /\ r.operation = o
Answer(c) == calls' = [calls EXCEPT ![c] = Idle]

ApplyReplayed(c, j, o) ==
    /\ LoopFree /\ commitLock = NoCall
    /\ calls[c].at = "idle"
    /\ Receipt(j, o)
    /\ toldApplied' = toldApplied \cup {j}
    /\ UNCHANGED <<durable, up, process, starting, worker, commitLock, calls, toldCancelled>>

ApplyCaptures(c, j, o) ==
    /\ LoopFree /\ commitLock = NoCall
    /\ calls[c].at = "idle"
    /\ rows[j].status # "unused"
    /\ ~Receipt(j, o)
    /\ calls' = [calls EXCEPT ![c] = [at |-> "calculating", job |-> j, operation |-> o,
                                      origin |-> rev]]
    /\ UNCHANGED <<durable, up, process, starting, worker, commitLock, answers>>

(* Mutant: the candidate's own base is not compared. *)
IsApplicableAnywhere(c) == Status(calls[c].job) = "ready"

(* _apply_locked: a ready candidate for the plan the write captured. *)
IsApplicable(c) ==
    /\ Status(calls[c].job) = "ready"
    /\ rows[calls[c].job].base = calls[c].origin

ApplyCalculates(c) ==
    /\ up
    /\ calls[c].at = "calculating"
    /\ IsApplicable(c)
    /\ calls' = [calls EXCEPT ![c].at = "calculated"]
    /\ UNCHANGED <<durable, up, process, starting, worker, commitLock, answers>>

(* A completed job is answered as it is: nothing to commit. *)
ApplyCompleted(c) ==
    /\ up
    /\ calls[c].at = "calculating"
    /\ Status(calls[c].job) = "completed"
    /\ toldApplied' = toldApplied \cup {calls[c].job}
    /\ Answer(c)
    /\ UNCHANGED <<durable, up, process, starting, worker, commitLock, toldCancelled>>

(* Not ready, another base, no approval, the budget, a plan that changed. *)
ApplyRefused(c) ==
    /\ up
    /\ calls[c].at \in {"calculating", "calculated"}
    /\ Answer(c)
    /\ UNCHANGED <<durable, up, process, starting, worker, commitLock, answers>>

ApplyReplayedAtCommit(c) ==
    /\ up /\ commitLock = NoCall
    /\ calls[c].at = "calculated"
    /\ Receipt(calls[c].job, calls[c].operation)
    /\ toldApplied' = toldApplied \cup {calls[c].job}
    /\ Answer(c)
    /\ UNCHANGED <<durable, up, process, starting, worker, commitLock, toldCancelled>>

(* _commit: the same plan, and validate_ready_for_commit. *)
ApplyValidates(c) ==
    /\ up /\ commitLock = NoCall
    /\ calls[c].at = "calculated"
    /\ ~Receipt(calls[c].job, calls[c].operation)
    /\ rev = calls[c].origin
    /\ Status(calls[c].job) = "ready"
    /\ commitLock' = c
    /\ calls' = [calls EXCEPT ![c].at = "committing"]
    /\ UNCHANGED <<durable, up, process, starting, worker, answers>>

ApplyCommits(c) ==
    /\ calls[c].at = "committing"
    /\ rev' = rev + 1
    /\ receipts' = receipts \cup {[job |-> calls[c].job, operation |-> calls[c].operation,
                                   rev |-> rev + 1]}
    /\ calls' = [calls EXCEPT ![c].at = "projecting"]
    /\ UNCHANGED <<rows, up, process, starting, worker, commitLock, answers>>

ApplyRollsBack(c) ==
    /\ calls[c].at = "committing"
    /\ commitLock' = NoCall
    /\ Answer(c)
    /\ UNCHANGED <<durable, up, process, starting, worker, answers>>

(* The callback after the commit, in the other database; its failure is    *)
(* logged only.                                                            *)
ApplyProjects(c) ==
    /\ calls[c].at = "projecting"
    /\ \/ rows' = Updated(calls[c].job, "completed")
       \/ UNCHANGED rows
    /\ commitLock' = NoCall
    /\ toldApplied' = toldApplied \cup {calls[c].job}
    /\ Answer(c)
    /\ UNCHANGED <<rev, receipts, up, process, starting, worker, toldCancelled>>

-----------------------------------------------------------------------------
OtherWrite ==
    /\ up /\ commitLock = NoCall
    /\ rev < MaxRevision
    /\ rev' = rev + 1
    /\ UNCHANGED <<rows, receipts, up, process, starting, worker, commitLock,
                   calls, answers>>

Crash ==
    /\ up
    /\ process.id < MaxProcesses
    /\ up' = FALSE
    /\ starting' = NoStart
    /\ executor' = <<>>
    /\ phase' = "queued"
    /\ commitLock' = NoCall
    /\ calls' = [c \in Calls |-> Idle]
    /\ UNCHANGED <<durable, process, answers>>

(* A new store: a new worker_id, and the process identifier it is given. *)
Restart ==
    /\ ~up
    /\ up' = TRUE
    /\ \E p \in 1..(process.id + 1) :
          /\ ~PidsReused => p = process.id + 1
          /\ process' = [id |-> process.id + 1, pid |-> p]
    /\ UNCHANGED <<durable, starting, worker, commitLock, calls, answers>>

-----------------------------------------------------------------------------
Start ==
    \/ \E r \in Requests : StartCaptures(r)
    \/ StartDeduplicated \/ StartRefused
    \/ \E j \in Jobs : StartCreates(j)

Work == WorkerLooks \/ WorkerAbandons \/ WorkerMarks \/ WorkerFails \/ WorkerPublishes

Arrive(c) ==
    \E j \in Jobs, o \in OperationIds : ApplyReplayed(c, j, o) \/ ApplyCaptures(c, j, o)

Apply(c) ==
    \/ ApplyCalculates(c) \/ ApplyCompleted(c) \/ ApplyRefused(c)
    \/ ApplyReplayedAtCommit(c) \/ ApplyValidates(c) \/ ApplyCommits(c)
    \/ ApplyRollsBack(c) \/ ApplyProjects(c)

Next ==
    \/ Start
    \/ \E j \in Jobs : Cancel(j) \/ CancelCommitted(j)
    \/ Work
    \/ \E c \in Calls : Arrive(c) \/ Apply(c)
    \/ OtherWrite
    \/ Crash \/ Restart

Spec == Init /\ [][Next]_vars

(***************************************************************************)
(* The worker thread runs on (its planning has a budget), and a stopped    *)
(* server is started again.                                                *)
(***************************************************************************)
Fairness == WF_vars(Work) /\ WF_vars(Restart)

FairSpec == Spec /\ Fairness

-----------------------------------------------------------------------------
(* Every variable has the type the code gives it.                          *)
TypeOK ==
    /\ rows \in [Jobs -> Rows]
    /\ rev \in Nat
    /\ receipts \subseteq Receipts
    /\ up \in BOOLEAN
    /\ process \in Processes
    /\ starting \in {NoStart} \cup Starts
    /\ executor \in Seq(Jobs)
    /\ phase \in {"queued", "preparing", "marked", "planning", "closing"}
    /\ commitLock \in Calls \cup {NoCall}
    /\ calls \in [Calls -> {Idle} \cup Applications]
    /\ toldApplied \subseteq Jobs
    /\ toldCancelled \subseteq Jobs

(* A candidate is applied at most once, whatever names the requests give   *)
(* their operation, and over the very plan it was calculated for.          *)
AppliedOnceOnItsBase ==
    \A r \in receipts :
        /\ r.rev = rows[r.job].base + 1
        /\ \A s \in receipts : s.job = r.job => s = r

(* A job somebody still waits for is in the hands of this server's worker, *)
(* so no client polls for ever the job of a process that died.             *)
NoOrphans ==
    up => \A j \in Jobs : Status(j) \in Waiting => \E i \in DOMAIN executor : executor[i] = j

(* One request on one plan has one job: a repeated click, a retry or a     *)
(* reloaded page gets the job there is, waiting or ready.                  *)
OneJobPerRequest ==
    \A j, k \in Jobs :
        /\ Status(j) \in Waiting \cup {"ready"}
        /\ Status(k) \in Waiting \cup {"ready"}
        /\ rows[j].request = rows[k].request
        /\ rows[j].base = rows[k].base
        => j = k

(* What a client is told of the end of a job is so: an application is      *)
(* durable, and a cancelled job was not and never will be applied under    *)
(* the job's own operation (the finding on AppliedReadsCompleted is about  *)
(* the other names).                                                       *)
AnswersHold ==
    \A j \in Jobs :
        /\ j \in toldApplied => \E r \in receipts : r.job = j
        /\ j \in toldCancelled => ~CommittedJob(j)

(* An applied job reads 'completed' as soon as its commit has ended, also  *)
(* when the process stopped, or the callback failed, before its row said   *)
(* so: the durable receipt wins over the status of the row.                *)
AppliedReadsCompleted ==
    up /\ commitLock = NoCall => \A r \in receipts : Status(r.job) = "completed"

(* Every job is calculated: it does not wait for ever.                     *)
JobsSettle == \A j \in Jobs : Status(j) \in Waiting ~> Status(j) \notin Waiting
=============================================================================
