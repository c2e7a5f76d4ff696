------------------------------ MODULE LoadJobs ------------------------------
(***************************************************************************)
(* The ISOP load manager, backend/loading/jobs.py: one upload at a time is *)
(* parsed, confirmed, calculated, possibly approved, and applied to the    *)
(* live plan.                                                              *)
(*                                                                         *)
(* Three kinds of thread meet here.  The event loop runs the API handlers  *)
(* and the coroutines of the jobs, each to its next await.  One executor   *)
(* thread runs parsing, calculation and analytics, in order, and posts its *)
(* messages to the loop in order.  Other plan writers (PlanCommit) change  *)
(* the plan and the configuration file from their own threads, under       *)
(* commit_lock; AtomicPlan, which PlanCommit implements, is why each of    *)
(* them is here two steps: the file, then everything else or nothing.      *)
(***************************************************************************)
EXTENDS Naturals, Sequences, FiniteSets

CONSTANTS
    Jobs,             \* load identifiers (UUIDs chosen by the client)
    Writers,          \* other plan writes, each committed at most once
    WritersRollBack,  \* may another write fail after it replaced the file?
    NoJob

ASSUME JobsAssumption == Jobs \cap Writers = {} /\ NoJob \notin Jobs \cup Writers
ASSUME RollBackAssumption == WritersRollBack \in BOOLEAN

VARIABLES
    status,      \* load_jobs.status                        (durable)
    report,      \* apply decision of the job's gate report (durable)
    plans,       \* jobs and writers whose plan was activated (durable)
    active,      \* the active plan: revision and configuration (durable)
    file,        \* the configuration file                  (durable)
    undo,        \* the one 'preparing' journal row         (durable)
    live,        \* CopilotState: revision and configuration
    commitLock,  \* holder of commit_lock
    up,          \* the process runs
    closed,      \* manager.closed
    activeId,    \* manager.active_id
    inputs,      \* LoadInputs of each job
    task,        \* where the job's coroutine is
    executor,    \* queue of the single worker thread; its head is running
    mailbox      \* messages of the worker to the event loop, in order

durable == <<status, report, plans, active, file, undo>>
manager == <<closed, activeId, inputs, task>>
worker == <<executor, mailbox>>
vars == <<status, report, plans, active, file, undo, live, commitLock, up,
          closed, activeId, inputs, task, executor, mailbox>>

-----------------------------------------------------------------------------
(* Mutant: a restart does not see that an applied job has ended. *)
TerminalButApplied == {"blocked", "failed", "cancelled", "stale"}
Terminal == {"applied", "blocked", "failed", "cancelled", "stale"}
Statuses == {"none", "preparing", "prepared", "queued", "running",
             "awaiting_approval"} \cup Terminal
Pending(j) == status[j] \notin Terminal \cup {"none"}

Contents == SUBSET (Jobs \cup Writers)
Plans == [rev : Nat, config : Contents]
Origins == [rev : Nat, config : Contents, file : Contents]
Decisions == {"apply", "approval", "blocked"}
Approvals == {"none", "granted", "invalid"}
Inputs == [origin : Origins, cancel : BOOLEAN, auto : BOOLEAN,
           approval : Approvals, config : Contents]
Tasks == {"none", "prepare", "parsing", "calculate", "computing", "apply",
          "analysing", "applying", "saving", "committing", "failing",
          "undone", "publishing"}
WorkItems == [job : Jobs, work : {"parse", "calculate", "analytics"},
              begun : BOOLEAN, config : Contents]
Messages == [job : Jobs, kind : {"started", "parsed", "computed", "analysed"},
             result : Decisions \cup {"ok", "error", "cancelled"}, config : Contents]
Journals == [owner : Jobs \cup Writers \cup {NoJob}, config : Contents]
NoOrigin == [rev |-> 0, config |-> {}, file |-> {}]
NoInputs == [origin |-> NoOrigin, cancel |-> FALSE, auto |-> FALSE,
             approval |-> "none", config |-> {}]
NoUndo == [owner |-> NoJob, config |-> {}]

Init ==
    /\ status = [j \in Jobs |-> "none"]
    /\ report = [j \in Jobs |-> "none"]
    /\ plans = {}
    /\ active = [rev |-> 0, config |-> {}]
    /\ file = {}
    /\ undo = NoUndo
    /\ live = [rev |-> 0, config |-> {}]
    /\ commitLock = NoJob
    /\ up = TRUE
    /\ closed = FALSE
    /\ activeId = NoJob
    /\ inputs = [j \in Jobs |-> NoInputs]
    /\ task = [j \in Jobs |-> "none"]
    /\ executor = <<>>
    /\ mailbox = <<>>

-----------------------------------------------------------------------------
(* The event loop runs one handler or coroutine at a time; the final       *)
(* section of _apply occupies it from commit_lock to publication.          *)
LoopFree == up /\ ~closed /\ commitLock \notin Jobs

(* _origin, read without commit_lock: another writer may be half way. *)
Origin == [rev |-> live.rev, config |-> live.config, file |-> file]

Live(j) == ~closed /\ ~inputs[j].cancel /\ status[j] \notin Terminal

(* Mutant: a newer plan is accepted. *)
OriginNotAhead(j) == inputs[j].origin.rev <= live.rev

OriginHolds(j) == inputs[j].origin = Origin

(* _update: a terminal job is no longer the active one. *)
Update(j, s) ==
    /\ status' = [status EXCEPT ![j] = s]
    /\ activeId' = IF s \in Terminal /\ activeId = j THEN NoJob ELSE activeId

Keep == UNCHANGED <<status, activeId>>

Go(j, step) == task' = [task EXCEPT ![j] = step]

(* The coroutine ends; nothing refers to the job's inputs any more. *)
Leave(j) == Go(j, "none") /\ inputs' = [inputs EXCEPT ![j] = NoInputs]

Submit(j, work) ==
    executor' = Append(executor, [job |-> j, work |-> work, begun |-> FALSE,
                                  config |-> {}])

-----------------------------------------------------------------------------
(* start, refused while another load is pending; a known identifier        *)
(* returns its job and changes nothing.                                    *)
Start(j) ==
    /\ LoopFree
    /\ status[j] = "none"
    /\ activeId = NoJob
    /\ \E auto \in BOOLEAN, approval \in Approvals :
          /\ ~auto => approval = "none"
          /\ inputs' = [inputs EXCEPT ![j] =
                [NoInputs EXCEPT !.origin = Origin, !.auto = auto, !.approval = approval]]
    /\ status' = [status EXCEPT ![j] = "preparing"]
    /\ activeId' = j
    /\ Go(j, "prepare")
    /\ UNCHANGED <<report, plans, active, file, undo, live, commitLock, up, closed, worker>>

(* _prepare, to the first await. *)
PrepareTask(j) ==
    /\ LoopFree
    /\ task[j] = "prepare"
    /\ \/ Live(j) /\ Submit(j, "parse") /\ Go(j, "parsing") /\ UNCHANGED inputs
       \/ ~Live(j) /\ Leave(j) /\ UNCHANGED executor
    /\ UNCHANGED <<durable, live, commitLock, up, closed, activeId, mailbox>>

(* confirm, by the client or by _prepare itself (auto_confirm). *)
Confirmed(j) ==
    IF OriginHolds(j) THEN Update(j, "queued") /\ Go(j, "calculate") /\ UNCHANGED inputs
                      ELSE Update(j, "stale") /\ Leave(j)

Confirm(j) ==
    /\ LoopFree
    /\ status[j] = "prepared"
    /\ Confirmed(j)
    /\ UNCHANGED <<report, plans, active, file, undo, live, commitLock, up, closed, worker>>

(* _calculate, to the first await. *)
CalculateTask(j) ==
    /\ LoopFree
    /\ task[j] = "calculate"
    /\ \/ Live(j) /\ Submit(j, "calculate") /\ Go(j, "computing") /\ UNCHANGED inputs
       \/ ~Live(j) /\ Leave(j) /\ UNCHANGED executor
    /\ UNCHANGED <<durable, live, commitLock, up, closed, activeId, mailbox>>

(* approve: the approved candidate is applied without another calculation. *)
Approve(j) ==
    /\ LoopFree
    /\ status[j] = "awaiting_approval"
    /\ \/ ~OriginHolds(j) /\ Update(j, "stale") /\ Leave(j)
       \/ /\ OriginHolds(j)
          /\ Update(j, "running")
          /\ inputs' = [inputs EXCEPT ![j].approval = "granted"]
          /\ Go(j, "apply")
    /\ UNCHANGED <<report, plans, active, file, undo, live, commitLock, up, closed, worker>>

(* _apply, to the first await. *)
ApplyTask(j) ==
    /\ LoopFree
    /\ task[j] = "apply"
    /\ \/ Live(j) /\ Submit(j, "analytics") /\ Go(j, "analysing") /\ UNCHANGED inputs
       \/ ~Live(j) /\ Leave(j) /\ UNCHANGED executor
    /\ UNCHANGED <<durable, live, commitLock, up, closed, activeId, mailbox>>

(* cancel: the event is set for whatever still runs; a job that waits for  *)
(* the client has no coroutine left to read it.                            *)
Cancel(j) ==
    /\ LoopFree
    /\ Pending(j)
    /\ Update(j, "cancelled")
    /\ inputs' = IF task[j] = "none" THEN [inputs EXCEPT ![j] = NoInputs]
                 ELSE [inputs EXCEPT ![j].cancel = TRUE]
    /\ UNCHANGED <<report, plans, active, file, undo, live, commitLock, up, closed,
                   task, worker>>

-----------------------------------------------------------------------------
(* The worker thread.                                                      *)

Working(work) == up /\ executor # <<>> /\ Head(executor).work = work
Post(kind, result, config) ==
    mailbox' = Append(mailbox, [job |-> Head(executor).job, kind |-> kind,
                                result |-> result, config |-> config])
Finish(kind, result, config) ==
    Post(kind, result, config) /\ executor' = Tail(executor)
Begun(config) == executor' = <<[Head(executor) EXCEPT !.begun = TRUE, !.config = config]>>
                             \o Tail(executor)

(* parse_upload reads the configuration file, without a lock. *)
ParseReads ==
    /\ Working("parse")
    /\ ~Head(executor).begun
    /\ Begun(file)
    /\ UNCHANGED <<durable, live, commitLock, up, manager, mailbox>>

(* It may align the eco lots of imported twins in the configuration. *)
ParseEnds ==
    /\ Working("parse")
    /\ Head(executor).begun
    /\ \/ Finish("parsed", "error", {})
       \/ Finish("parsed", "ok", Head(executor).config)
       \/ Finish("parsed", "ok", Head(executor).config \cup {Head(executor).job})
    /\ UNCHANGED <<durable, live, commitLock, up, manager>>

Cancelled(j) == closed \/ inputs[j].cancel

CalculationStarts ==
    /\ Working("calculate")
    /\ ~Head(executor).begun
    /\ IF Cancelled(Head(executor).job)
       THEN Finish("computed", "cancelled", {})
       ELSE Post("started", "ok", {}) /\ Begun({})
    /\ UNCHANGED <<durable, live, commitLock, up, manager>>

(* A cancelled calculation ends when it next looks at the event, or        *)
(* normally.                                                               *)
CalculationEnds ==
    /\ Working("calculate")
    /\ Head(executor).begun
    /\ \E result \in Decisions \cup {"error", "cancelled"} :
          /\ result = "cancelled" => Cancelled(Head(executor).job)
          /\ Finish("computed", result, {})
    /\ UNCHANGED <<durable, live, commitLock, up, manager>>

AnalyticsEnds ==
    /\ Working("analytics")
    /\ \E result \in {"ok", "error", "cancelled"} :
          /\ result = "cancelled" => Cancelled(Head(executor).job)
          /\ Finish("analysed", result, {})
    /\ UNCHANGED <<durable, live, commitLock, up, manager>>

-----------------------------------------------------------------------------
(* The loop takes the worker's next message.                               *)

Message(kind) == LoopFree /\ mailbox # <<>> /\ Head(mailbox).kind = kind

(* _worker_started *)
WorkerStarted ==
    /\ Message("started")
    /\ LET j == Head(mailbox).job IN
          IF Live(j) THEN Update(j, "running") ELSE Keep
    /\ mailbox' = Tail(mailbox)
    /\ UNCHANGED <<report, plans, active, file, undo, live, commitLock, up, closed,
                   inputs, task, executor>>

(* _fail leaves a terminal job as it is. *)
FailJob(j) == IF status[j] \in Terminal THEN Keep ELSE Update(j, "failed")

(* The rest of _prepare. *)
Parsed ==
    /\ Message("parsed")
    /\ LET m == Head(mailbox)
           j == m.job
       IN \/ m.result = "error" /\ FailJob(j) /\ Leave(j)
          \/ m.result = "ok" /\ ~Live(j) /\ Keep /\ Leave(j)
          \/ m.result = "ok" /\ Live(j) /\ ~OriginHolds(j) /\ Update(j, "stale") /\ Leave(j)
          \/ /\ m.result = "ok" /\ Live(j) /\ OriginHolds(j)
             /\ inputs' = [inputs EXCEPT ![j].config = m.config]
             /\ IF inputs[j].auto THEN Update(j, "queued") /\ Go(j, "calculate")
                                  ELSE Update(j, "prepared") /\ Go(j, "none")
    /\ mailbox' = Tail(mailbox)
    /\ UNCHANGED <<report, plans, active, file, undo, live, commitLock, up, closed, executor>>

(* Mutant: exceptions are applied without an approval. *)
AuthorizedUnlessBlocked(j, decision) == decision # "blocked"

(* The rest of _calculate: the decision of the gates, and authorize_application. *)
Authorized(j, decision) ==
    \/ decision = "apply"
    \/ decision = "approval" /\ inputs[j].approval = "granted"

Decide(j, decision) ==
    \/ /\ Authorized(j, decision)
       /\ Submit(j, "analytics") /\ Go(j, "analysing")
       /\ UNCHANGED <<inputs, status, activeId>>
    \/ /\ decision = "approval" /\ inputs[j].approval = "none"
       /\ Update(j, "awaiting_approval") /\ Go(j, "none")
       /\ UNCHANGED <<inputs, executor>>
    \/ /\ \/ decision = "blocked"
          \/ decision = "approval" /\ inputs[j].approval = "invalid"
       /\ Update(j, "blocked") /\ Leave(j) /\ UNCHANGED executor

Computed ==
    /\ Message("computed")
    /\ LET m == Head(mailbox)
           j == m.job
       IN \/ /\ m.result = "error" /\ FailJob(j) /\ Leave(j)
             /\ UNCHANGED <<report, executor>>
          \/ /\ m.result = "cancelled" /\ Keep /\ Leave(j)
             /\ UNCHANGED <<report, executor>>
          \/ /\ m.result \in Decisions /\ ~Live(j) /\ Keep /\ Leave(j)
             /\ UNCHANGED <<report, executor>>
          \/ /\ m.result \in Decisions /\ Live(j) /\ ~OriginHolds(j)
             /\ Update(j, "stale") /\ Leave(j)
             /\ UNCHANGED <<report, executor>>
          \/ /\ m.result \in Decisions /\ Live(j) /\ OriginHolds(j)
             /\ report' = [report EXCEPT ![j] = m.result]
             /\ Decide(j, m.result)
    /\ mailbox' = Tail(mailbox)
    /\ UNCHANGED <<plans, active, file, undo, live, commitLock, up, closed>>

Analysed ==
    /\ Message("analysed")
    /\ LET m == Head(mailbox)
           j == m.job
       IN \/ m.result = "error" /\ FailJob(j) /\ Leave(j)
          \/ m.result = "cancelled" /\ Keep /\ Leave(j)
          \/ m.result = "ok" /\ Keep /\ Go(j, "applying") /\ UNCHANGED inputs
    /\ mailbox' = Tail(mailbox)
    /\ UNCHANGED <<report, plans, active, file, undo, live, commitLock, up, closed, executor>>

-----------------------------------------------------------------------------
(* The final section of _apply, under both locks and without an await.     *)

(* Mutant: a job whose origin changed is dropped without an answer. *)
ApplyDropped(j) ==
    /\ LoopFree /\ commitLock = NoJob
    /\ task[j] = "applying"
    /\ ~Live(j) \/ ~OriginHolds(j)
    /\ Keep
    /\ Leave(j)
    /\ UNCHANGED <<report, plans, active, file, undo, live, commitLock, up, closed, worker>>

ApplyRefused(j) ==
    /\ LoopFree /\ commitLock = NoJob
    /\ task[j] = "applying"
    /\ \/ ~Live(j) /\ Keep
       \/ Live(j) /\ ~OriginHolds(j) /\ Update(j, "stale")
    /\ Leave(j)
    /\ UNCHANGED <<report, plans, active, file, undo, live, commitLock, up, closed, worker>>

(* prepare_mutation *)
ApplyBegins(j) ==
    /\ LoopFree /\ commitLock = NoJob
    /\ task[j] = "applying"
    /\ Live(j) /\ OriginHolds(j)
    /\ commitLock' = j
    /\ undo' = [owner |-> j, config |-> file]
    /\ Go(j, "saving")
    /\ UNCHANGED <<status, report, plans, active, file, live, up, closed, activeId,
                   inputs, worker>>

ConfigChanged(j) == live.config # inputs[j].config

SaveConfig(j) ==
    /\ task[j] = "saving"
    /\ file' = IF ConfigChanged(j) THEN inputs[j].config ELSE file
    /\ Go(j, "committing")
    /\ UNCHANGED <<status, report, plans, active, undo, live, commitLock, up, closed,
                   activeId, inputs, worker>>

SaveFails(j) ==
    /\ task[j] \in {"saving", "committing"}
    /\ Go(j, "failing")
    /\ UNCHANGED <<durable, live, commitLock, up, closed, activeId, inputs, worker>>

(* commit_load: plan, receipt, active pointer and journal in one           *)
(* transaction, refused unless the job is running.                         *)
CommitLoad(j) ==
    /\ task[j] = "committing"
    /\ status[j] = "running"
    /\ status' = [status EXCEPT ![j] = "applied"]
    /\ plans' = plans \cup {j}
    /\ active' = [rev |-> inputs[j].origin.rev + 1, config |-> inputs[j].config]
    /\ undo' = NoUndo
    /\ \/ Go(j, "publishing")
       \/ Go(j, "failing")
    /\ UNCHANGED <<report, file, live, commitLock, up, closed, activeId, inputs, worker>>

(* The durable receipt is authoritative. *)
RecognizeLoad(j) ==
    /\ task[j] = "failing"
    /\ status[j] = "applied"
    /\ Go(j, "publishing")
    /\ UNCHANGED <<durable, live, commitLock, up, closed, activeId, inputs, worker>>

(* Mutant: the rollback leaves the new configuration in the file. *)
UndoNothing(j) ==
    /\ task[j] = "failing"
    /\ status[j] # "applied"
    /\ Go(j, "undone")
    /\ UNCHANGED <<status, report, plans, active, file, undo, live, commitLock, up, closed,
                   activeId, inputs, worker>>

UndoSave(j) ==
    /\ task[j] = "failing"
    /\ status[j] # "applied"
    /\ file' = IF ConfigChanged(j) THEN undo.config ELSE file
    /\ Go(j, "undone")
    /\ UNCHANGED <<status, report, plans, active, undo, live, commitLock, up, closed,
                   activeId, inputs, worker>>

AbortLoad(j) ==
    /\ task[j] = "undone"
    /\ undo' = NoUndo
    /\ commitLock' = NoJob
    /\ FailJob(j)
    /\ Leave(j)
    /\ UNCHANGED <<report, plans, active, file, live, up, closed, worker>>

PublishLoad(j) ==
    /\ task[j] = "publishing"
    /\ live' = [rev |-> inputs[j].origin.rev + 1, config |-> inputs[j].config]
    /\ commitLock' = NoJob
    /\ activeId' = IF activeId = j THEN NoJob ELSE activeId
    /\ Leave(j)
    /\ UNCHANGED <<durable, up, closed, worker>>

-----------------------------------------------------------------------------
(* Other plan writers: plan_writer and run_sync_mutation, in the states    *)
(* that matter to a load.                                                  *)

WriterReplacesFile(w) ==
    /\ up /\ commitLock = NoJob
    /\ w \notin plans
    /\ commitLock' = w
    /\ undo' = [owner |-> w, config |-> file]
    /\ file' = live.config \cup {w}
    /\ UNCHANGED <<status, report, plans, active, live, up, manager, worker>>

WriterCommits(w) ==
    /\ commitLock = w
    /\ plans' = plans \cup {w}
    /\ active' = [rev |-> live.rev + 1, config |-> live.config \cup {w}]
    /\ live' = active'
    /\ undo' = NoUndo
    /\ commitLock' = NoJob
    /\ UNCHANGED <<status, report, file, up, manager, worker>>

WriterRollsBack(w) ==
    /\ WritersRollBack
    /\ commitLock = w
    /\ file' = undo.config
    /\ undo' = NoUndo
    /\ commitLock' = NoJob
    /\ UNCHANGED <<status, report, plans, active, live, up, manager, worker>>

-----------------------------------------------------------------------------
(* close: pending jobs fail, their coroutines are cancelled. *)
Close ==
    /\ LoopFree
    /\ closed' = TRUE
    /\ activeId' = NoJob
    /\ status' = [j \in Jobs |-> IF Pending(j) THEN "failed" ELSE status[j]]
    /\ inputs' = [j \in Jobs |-> NoInputs]
    /\ task' = [j \in Jobs |-> "none"]
    /\ mailbox' = <<>>
    /\ UNCHANGED <<report, plans, active, file, undo, live, commitLock, up, executor>>

(* The process stops, with or without close. *)
Crash ==
    /\ up
    /\ up' = FALSE
    /\ closed' = FALSE
    /\ live' = [rev |-> 0, config |-> {}]
    /\ commitLock' = NoJob
    /\ activeId' = NoJob
    /\ inputs' = [j \in Jobs |-> NoInputs]
    /\ task' = [j \in Jobs |-> "none"]
    /\ executor' = <<>>
    /\ mailbox' = <<>>
    /\ UNCHANGED durable

(* lifespan: the journal is undone, the active plan restored with the      *)
(* configuration of the file, and the manager fails what was interrupted.  *)
Restart ==
    /\ ~up
    /\ up' = TRUE
    /\ file' = IF undo.owner = NoJob THEN file ELSE undo.config
    /\ undo' = NoUndo
    /\ active' = IF file' = active.config THEN active
                 ELSE [rev |-> active.rev + 1, config |-> file']
    /\ live' = active'
    /\ status' = [j \in Jobs |-> IF Pending(j) THEN "failed" ELSE status[j]]
    /\ UNCHANGED <<report, plans, commitLock, manager, worker>>

-----------------------------------------------------------------------------
Client(j) == Start(j) \/ Confirm(j) \/ Approve(j) \/ Cancel(j)

Coroutine(j) ==
    \/ PrepareTask(j) \/ CalculateTask(j) \/ ApplyTask(j)
    \/ ApplyRefused(j) \/ ApplyBegins(j) \/ SaveConfig(j)
    \/ CommitLoad(j) \/ RecognizeLoad(j) \/ UndoSave(j) \/ AbortLoad(j)
    \/ PublishLoad(j)

Worker == ParseReads \/ ParseEnds \/ CalculationStarts \/ CalculationEnds \/ AnalyticsEnds

Deliver == WorkerStarted \/ Parsed \/ Computed \/ Analysed

Writer(w) == WriterReplacesFile(w) \/ WriterCommits(w) \/ WriterRollsBack(w)

Next ==
    \/ \E j \in Jobs : Client(j) \/ Coroutine(j) \/ SaveFails(j)
    \/ Worker \/ Deliver
    \/ \E w \in Writers : Writer(w)
    \/ Close \/ Crash \/ Restart

Spec == Init /\ [][Next]_vars

(***************************************************************************)
(* The loop runs every ready coroutine and every message, the worker every *)
(* call it is given (a calculation has a budget), a writer that holds      *)
(* commit_lock goes on, and a stopped server is started again.  Clients    *)
(* owe nothing.                                                            *)
(***************************************************************************)
Fairness ==
    /\ \A j \in Jobs : WF_vars(Coroutine(j))
    /\ WF_vars(Worker)
    /\ WF_vars(Deliver)
    /\ \A w \in Writers : WF_vars(WriterCommits(w) \/ WriterRollsBack(w))
    /\ WF_vars(Restart)

FairSpec == Spec /\ Fairness

-----------------------------------------------------------------------------
(* Every variable has the type the code gives it.                          *)
TypeOK ==
    /\ status \in [Jobs -> Statuses]
    /\ report \in [Jobs -> Decisions \cup {"none"}]
    /\ plans \subseteq Jobs \cup Writers
    /\ active \in Plans
    /\ file \in Contents
    /\ undo \in Journals
    /\ live \in Plans
    /\ commitLock \in Jobs \cup Writers \cup {NoJob}
    /\ up \in BOOLEAN /\ closed \in BOOLEAN
    /\ activeId \in Jobs \cup {NoJob}
    /\ inputs \in [Jobs -> Inputs]
    /\ task \in [Jobs -> Tasks]
    /\ executor \in Seq(WorkItems)
    /\ mailbox \in Seq(Messages)

(* A job says it was applied exactly when its plan was activated: at every *)
(* instant, crash or lost acknowledgement included.                        *)
AppliedIffActivated ==
    \A j \in Jobs : status[j] = "applied" <=> j \in plans

(* With nobody in a write window the live plan is the active one and the   *)
(* file holds its configuration.                                           *)
PlanAndFileAgree ==
    up /\ commitLock = NoJob => live = active /\ file = active.config /\ undo = NoUndo

(* A load never drops the configuration change of another committed write. *)
NoWriteLost == \A w \in Writers : w \in plans /\ (up => commitLock = NoJob) => w \in active.config

(* A load is applied over the very plan it was started on, and only with   *)
(* the gates' consent or an approval of the exceptions they report.        *)
AppliedAsAgreed ==
    [][\A j \in Jobs : j \in plans' \ plans =>
            /\ inputs[j].origin.rev = active.rev
            /\ inputs[j].origin.config = active.config
            /\ active'.rev = active.rev + 1
            /\ \/ report[j] = "apply"
               \/ report[j] = "approval" /\ inputs[j].approval = "granted"]_vars

(* A load never hangs: it ends, or waits for its client.                   *)
LoadsSettle ==
    \A j \in Jobs : status[j] \in {"preparing", "queued", "running"} ~>
        status[j] \in Terminal \cup {"prepared", "awaiting_approval"}
=============================================================================
