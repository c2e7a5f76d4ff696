--------------------------- MODULE LoadJobsProofs ---------------------------
(***************************************************************************)
(* Proofs about LoadJobs, for every set of loads and of other writers.     *)
(*                                                                         *)
(* Journal and Window say what each step of a write window has done to the *)
(* file, the plan and the journal.  Grounded follows the configuration of  *)
(* a load from the file it was parsed with.  Outstanding says that the     *)
(* worker holds at most one call of a load and which step of its coroutine *)
(* waits for the answer, so that an answer is never taken by another step; *)
(* Agreed rests on it.                                                     *)
(***************************************************************************)
EXTENDS LoadJobs, TLAPS

USE JobsAssumption, RollBackAssumption

(* The steps of _apply that hold commit_lock.                              *)
LockTasks == {"saving", "committing", "failing", "undone", "publishing"}

(* A stopped server, and a closed manager, have no coroutines.             *)
Quiet ==
    /\ ~up \/ closed => \A j \in Jobs : task[j] = "none" /\ inputs[j] = NoInputs
    /\ ~up => commitLock = NoJob

Locking == \A j \in Jobs : task[j] \in LockTasks <=> commitLock = j

(* The journal names the configuration of the active plan until the end of *)
(* the write window; without a journal the file holds it.                  *)
Journal ==
    IF undo.owner = NoJob THEN undo = NoUndo /\ file = active.config
                          ELSE undo.config = active.config

(* What the steps of the write window of a load have done: before the      *)
(* commit and after it.                                                    *)
Planned(j) == [rev |-> inputs[j].origin.rev + 1, config |-> inputs[j].config]
Committed(j) == active = Planned(j) /\ undo = NoUndo /\ file = inputs[j].config
Uncommitted(j) ==
    /\ live = active /\ undo.owner = j
    /\ task[j] \in {"saving", "undone"} => file = active.config
    /\ task[j] = "committing" => file = inputs[j].config
    /\ task[j] = "failing" => file \in {active.config, inputs[j].config}
LoadWindow ==
    \A j \in Jobs : task[j] \in LockTasks =>
        /\ inputs[j].origin.rev = live.rev /\ inputs[j].origin.config = live.config
        /\ IF status[j] = "applied" THEN task[j] \in {"failing", "publishing"} /\ Committed(j)
                                    ELSE task[j] # "publishing" /\ Uncommitted(j)

WriterWindow ==
    \A w \in Writers : commitLock = w =>
        undo.owner = w /\ file = live.config \cup {w} /\ live = active

Idle == up /\ commitLock = NoJob => undo = NoUndo /\ live = active

(* What a load was parsed with includes the plan it started from.          *)
Filled(j) == inputs[j].origin.config \subseteq inputs[j].config
Grounded ==
    /\ up => live.config \subseteq file
    /\ \A j \in Jobs : inputs[j].origin.config \subseteq live.config
    /\ \A j \in Jobs : ~Filled(j) => task[j] \in {"prepare", "parsing"}
    /\ \A i \in DOMAIN executor :
          executor[i].work = "parse" /\ executor[i].begun =>
            inputs[executor[i].job].origin.config \subseteq executor[i].config
    /\ \A i \in DOMAIN mailbox :
          mailbox[i].kind = "parsed" /\ mailbox[i].result = "ok" =>
            inputs[mailbox[i].job].origin.config \subseteq mailbox[i].config

(* Writes are kept.                                                        *)
Kept == plans \cap Writers \subseteq active.config

(* The step that waits for a call, and for the message of its end.         *)
WaitsForWork(work) ==
    IF work = "parse" THEN "parsing" ELSE IF work = "calculate" THEN "computing" ELSE "analysing"
WaitsForMessage(kind) ==
    IF kind = "parsed" THEN "parsing" ELSE IF kind = "computed" THEN "computing" ELSE "analysing"
Ends(m) == m.kind # "started"

Outstanding ==
    ~closed =>
        /\ \A i \in DOMAIN executor : task[executor[i].job] = WaitsForWork(executor[i].work)
        /\ \A i \in DOMAIN mailbox :
              Ends(mailbox[i]) => task[mailbox[i].job] = WaitsForMessage(mailbox[i].kind)
        /\ \A i, k \in DOMAIN executor : executor[i].job = executor[k].job => i = k
        /\ \A i, k \in DOMAIN mailbox :
              Ends(mailbox[i]) /\ Ends(mailbox[k]) /\ mailbox[i].job = mailbox[k].job => i = k
        /\ \A i \in DOMAIN executor, k \in DOMAIN mailbox :
              Ends(mailbox[k]) => executor[i].job # mailbox[k].job

(* A load that waits for its client, or does not exist, has no coroutine.  *)
Waiting ==
    \A j \in Jobs : status[j] \in {"none", "prepared", "awaiting_approval"} => task[j] = "none"

(* Past its decision a load has the consent it needs.                      *)
Consent(j) ==
    \/ report[j] = "apply"
    \/ report[j] = "approval" /\ inputs[j].approval = "granted"
Decided == {"apply", "analysing", "applying"} \cup LockTasks
Agreed ==
    \A j \in Jobs :
        /\ status[j] = "awaiting_approval" => report[j] = "approval"
        /\ task[j] \in Decided => Consent(j)

-----------------------------------------------------------------------------
(* The steps of a coroutine and the queues of the worker.                  *)

LEMMA UpdateEffect ==
    ASSUME TypeOK, NEW j \in Jobs, NEW s \in Statuses, Update(j, s)
    PROVE  /\ status' \in [Jobs -> Statuses]
           /\ activeId' \in Jobs \cup {NoJob}
           /\ status'[j] = s
           /\ \A k \in Jobs \ {j} : status'[k] = status[k]
BY DEF TypeOK, Update

LEMMA GoEffect ==
    ASSUME TypeOK, NEW j \in Jobs, NEW step \in Tasks, Go(j, step)
    PROVE  /\ task' \in [Jobs -> Tasks]
           /\ task'[j] = step
           /\ \A k \in Jobs \ {j} : task'[k] = task[k]
BY DEF TypeOK, Go

LEMMA NoInputsType == NoInputs \in Inputs /\ NoInputs.origin.config = {}
BY DEF NoInputs, NoOrigin, Inputs, Origins, Approvals, Contents

LEMMA LeaveEffect ==
    ASSUME TypeOK, NEW j \in Jobs, Leave(j)
    PROVE  /\ task' \in [Jobs -> Tasks] /\ inputs' \in [Jobs -> Inputs]
           /\ task'[j] = "none" /\ inputs'[j] = NoInputs
           /\ \A k \in Jobs \ {j} : task'[k] = task[k] /\ inputs'[k] = inputs[k]
<1>1. Go(j, "none") /\ inputs' = [inputs EXCEPT ![j] = NoInputs]
    BY DEF Leave
<1>2. /\ task' \in [Jobs -> Tasks] /\ task'[j] = "none"
      /\ \A k \in Jobs \ {j} : task'[k] = task[k]
    BY <1>1, GoEffect DEF Tasks
<1>3. QED
    BY <1>1, <1>2, NoInputsType DEF TypeOK

LEMMA InputFields ==
    ASSUME TypeOK, NEW j \in Jobs
    PROVE  /\ inputs[j] \in Inputs
           /\ inputs[j].origin \in Origins /\ inputs[j].cancel \in BOOLEAN
           /\ inputs[j].auto \in BOOLEAN /\ inputs[j].approval \in Approvals
           /\ inputs[j].config \in Contents
           /\ inputs[j].origin.rev \in Nat /\ inputs[j].origin.config \in Contents
           /\ inputs[j].origin.file \in Contents
BY DEF TypeOK, Inputs, Origins

LEMMA PlanFields ==
    ASSUME TypeOK
    PROVE  /\ live.rev \in Nat /\ live.config \in Contents
           /\ active.rev \in Nat /\ active.config \in Contents
           /\ undo.owner \in Jobs \cup Writers \cup {NoJob} /\ undo.config \in Contents
BY DEF TypeOK, Plans, Journals

LEMMA AppendItem ==
    ASSUME NEW S, NEW q \in Seq(S), NEW e \in S
    PROVE  /\ Append(q, e) \in Seq(S)
           /\ DOMAIN q = 1..Len(q) /\ Len(q) \in Nat
           /\ DOMAIN Append(q, e) = 1..(Len(q) + 1)
           /\ \A i \in 1..Len(q) : Append(q, e)[i] = q[i]
           /\ Append(q, e)[Len(q) + 1] = e
OBVIOUS

LEMMA TailItems ==
    ASSUME NEW S, NEW q \in Seq(S), q # <<>>
    PROVE  /\ Tail(q) \in Seq(S) /\ Head(q) \in S /\ Head(q) = q[1]
           /\ Len(q) \in Nat \ {0}
           /\ DOMAIN q = 1..Len(q) /\ 1 \in DOMAIN q
           /\ DOMAIN Tail(q) = 1..(Len(q) - 1)
           /\ \A i \in 1..(Len(q) - 1) : Tail(q)[i] = q[i + 1]
OBVIOUS

LEMMA HeadReplaced ==
    ASSUME NEW S, NEW q \in Seq(S), q # <<>>, NEW e \in S
    PROVE  /\ <<e>> \o Tail(q) \in Seq(S)
           /\ DOMAIN (<<e>> \o Tail(q)) = DOMAIN q
           /\ (<<e>> \o Tail(q))[1] = e
           /\ \A i \in DOMAIN q \ {1} : (<<e>> \o Tail(q))[i] = q[i]
OBVIOUS

LEMMA WorkFields ==
    ASSUME NEW e \in WorkItems
    PROVE  /\ e.job \in Jobs /\ e.work \in {"parse", "calculate", "analytics"}
           /\ e.begun \in BOOLEAN /\ e.config \in Contents
BY DEF WorkItems

LEMMA MessageFields ==
    ASSUME NEW m \in Messages
    PROVE  /\ m.job \in Jobs /\ m.kind \in {"started", "parsed", "computed", "analysed"}
           /\ m.result \in Decisions \cup {"ok", "error", "cancelled"} /\ m.config \in Contents
BY DEF Messages

LEMMA SubmitEffect ==
    ASSUME TypeOK, NEW j \in Jobs, NEW work \in {"parse", "calculate", "analytics"},
           Submit(j, work)
    PROVE  /\ executor' \in Seq(WorkItems)
           /\ DOMAIN executor = 1..Len(executor) /\ Len(executor) \in Nat
           /\ DOMAIN executor' = 1..(Len(executor) + 1)
           /\ \A i \in DOMAIN executor : executor'[i] = executor[i]
           /\ executor'[Len(executor) + 1].job = j
           /\ executor'[Len(executor) + 1].work = work
           /\ executor'[Len(executor) + 1].begun = FALSE
<1> DEFINE e == [job |-> j, work |-> work, begun |-> FALSE, config |-> {}]
<1>1. e \in WorkItems /\ executor' = Append(executor, e) /\ executor \in Seq(WorkItems)
    BY DEF Submit, WorkItems, Contents, TypeOK
<1>2. /\ Append(executor, e) \in Seq(WorkItems)
      /\ DOMAIN executor = 1..Len(executor) /\ Len(executor) \in Nat
      /\ DOMAIN Append(executor, e) = 1..(Len(executor) + 1)
      /\ \A i \in 1..Len(executor) : Append(executor, e)[i] = executor[i]
      /\ Append(executor, e)[Len(executor) + 1] = e
    BY <1>1, AppendItem
<1>3. e.job = j /\ e.work = work /\ e.begun = FALSE
    OBVIOUS
<1>4. QED
    BY <1>1, <1>2, <1>3

LEMMA PostEffect ==
    ASSUME TypeOK, executor # <<>>, NEW kind \in {"started", "parsed", "computed", "analysed"},
           NEW result \in Decisions \cup {"ok", "error", "cancelled"}, NEW config \in Contents,
           Post(kind, result, config)
    PROVE  /\ mailbox' \in Seq(Messages)
           /\ DOMAIN mailbox = 1..Len(mailbox) /\ Len(mailbox) \in Nat
           /\ DOMAIN mailbox' = 1..(Len(mailbox) + 1)
           /\ \A i \in DOMAIN mailbox : mailbox'[i] = mailbox[i]
           /\ mailbox'[Len(mailbox) + 1].job = executor[1].job
           /\ mailbox'[Len(mailbox) + 1].kind = kind
           /\ mailbox'[Len(mailbox) + 1].result = result
           /\ mailbox'[Len(mailbox) + 1].config = config
<1> DEFINE m == [job |-> Head(executor).job, kind |-> kind, result |-> result,
                 config |-> config]
<1>1. executor \in Seq(WorkItems) /\ mailbox \in Seq(Messages)
    BY DEF TypeOK
<1>2. Head(executor) \in WorkItems /\ Head(executor) = executor[1]
    BY <1>1, TailItems
<1>3. m \in Messages
    BY <1>2, WorkFields DEF Messages
<1>4. mailbox' = Append(mailbox, m)
    BY DEF Post
<1>5. /\ Append(mailbox, m) \in Seq(Messages)
      /\ DOMAIN mailbox = 1..Len(mailbox) /\ Len(mailbox) \in Nat
      /\ DOMAIN Append(mailbox, m) = 1..(Len(mailbox) + 1)
      /\ \A i \in 1..Len(mailbox) : Append(mailbox, m)[i] = mailbox[i]
      /\ Append(mailbox, m)[Len(mailbox) + 1] = m
    BY <1>1, <1>3, AppendItem
<1>6. m.job = executor[1].job /\ m.kind = kind /\ m.result = result /\ m.config = config
    BY <1>2
<1>7. QED
    BY <1>4, <1>5, <1>6

LEMMA FinishEffect ==
    ASSUME TypeOK, executor # <<>>,
           NEW kind, NEW result, NEW config, Finish(kind, result, config)
    PROVE  /\ executor' \in Seq(WorkItems)
           /\ Len(executor) \in Nat \ {0}
           /\ DOMAIN executor = 1..Len(executor)
           /\ DOMAIN executor' = 1..(Len(executor) - 1)
           /\ \A i \in DOMAIN executor' : executor'[i] = executor[i + 1]
<1>1. executor \in Seq(WorkItems) /\ executor' = Tail(executor)
    BY DEF TypeOK, Finish
<1>2. QED
    BY <1>1, TailItems

LEMMA BegunEffect ==
    ASSUME TypeOK, executor # <<>>, NEW config \in Contents, Begun(config)
    PROVE  /\ executor' \in Seq(WorkItems)
           /\ DOMAIN executor' = DOMAIN executor
           /\ executor'[1] = [executor[1] EXCEPT !.begun = TRUE, !.config = config]
           /\ \A i \in DOMAIN executor \ {1} : executor'[i] = executor[i]
<1> DEFINE e == [Head(executor) EXCEPT !.begun = TRUE, !.config = config]
<1>1. executor \in Seq(WorkItems) /\ executor' = <<e>> \o Tail(executor)
    BY DEF TypeOK, Begun
<1>2. Head(executor) \in WorkItems /\ Head(executor) = executor[1]
    BY <1>1, TailItems
<1>3. e \in WorkItems
    BY <1>2 DEF WorkItems
<1>4. QED
    BY <1>1, <1>2, <1>3, HeadReplaced

LEMMA FirstWork ==
    ASSUME TypeOK, executor # <<>>
    PROVE  /\ Head(executor) = executor[1] /\ executor[1] \in WorkItems
           /\ executor[1].job \in Jobs /\ executor[1].config \in Contents
           /\ 1 \in DOMAIN executor
<1>1. executor \in Seq(WorkItems)
    BY DEF TypeOK
<1>2. Head(executor) = executor[1] /\ executor[1] \in WorkItems /\ 1 \in DOMAIN executor
    BY <1>1, TailItems
<1>3. QED
    BY <1>2, WorkFields

LEMMA FirstMessage ==
    ASSUME TypeOK, mailbox # <<>>
    PROVE  /\ Head(mailbox) = mailbox[1] /\ mailbox[1] \in Messages
           /\ mailbox[1].job \in Jobs /\ mailbox[1].config \in Contents
           /\ mailbox[1].result \in Decisions \cup {"ok", "error", "cancelled"}
           /\ Len(mailbox) \in Nat \ {0} /\ DOMAIN mailbox = 1..Len(mailbox)
           /\ 1 \in DOMAIN mailbox
           /\ Tail(mailbox) \in Seq(Messages)
           /\ DOMAIN Tail(mailbox) = 1..(Len(mailbox) - 1)
           /\ \A i \in DOMAIN Tail(mailbox) : Tail(mailbox)[i] = mailbox[i + 1]
<1>1. mailbox \in Seq(Messages)
    BY DEF TypeOK
<1>2. /\ Head(mailbox) = mailbox[1] /\ mailbox[1] \in Messages
      /\ Len(mailbox) \in Nat \ {0} /\ DOMAIN mailbox = 1..Len(mailbox)
      /\ 1 \in DOMAIN mailbox
      /\ Tail(mailbox) \in Seq(Messages)
      /\ DOMAIN Tail(mailbox) = 1..(Len(mailbox) - 1)
      /\ \A i \in DOMAIN Tail(mailbox) : Tail(mailbox)[i] = mailbox[i + 1]
    BY <1>1, TailItems
<1>3. QED
    BY <1>2, MessageFields

LEMMA OriginType ==
    ASSUME TypeOK PROVE Origin \in Origins
BY PlanFields DEF Origin, Origins, TypeOK

-----------------------------------------------------------------------------
(* Types.                                                                  *)

LEMMA TypedInit == Init => TypeOK
<1> SUFFICES ASSUME Init PROVE TypeOK
    OBVIOUS
<1>1. executor \in Seq(WorkItems) /\ mailbox \in Seq(Messages)
    BY DEF Init
<1>2. active \in Plans /\ live \in Plans /\ undo \in Journals
    BY DEF Init, Plans, Journals, NoUndo, Contents
<1>3. inputs \in [Jobs -> Inputs]
    BY NoInputsType DEF Init
<1>4. status \in [Jobs -> Statuses] /\ task \in [Jobs -> Tasks]
    BY DEF Init, Statuses, Tasks
<1>5. QED
    BY <1>1, <1>2, <1>3, <1>4 DEF Init, TypeOK, Contents

LEMMA TypedStep == TypeOK /\ [Next]_vars => TypeOK'
<1> SUFFICES ASSUME TypeOK, [Next]_vars PROVE TypeOK'
    OBVIOUS
<1>1. ASSUME NEW j \in Jobs, Start(j) PROVE TypeOK'
  <2>1. PICK auto \in BOOLEAN, approval \in Approvals :
           inputs' = [inputs EXCEPT ![j] =
                [NoInputs EXCEPT !.origin = Origin, !.auto = auto, !.approval = approval]]
    BY <1>1 DEF Start
  <2>2. [NoInputs EXCEPT !.origin = Origin, !.auto = auto, !.approval = approval] \in Inputs
    BY OriginType, NoInputsType DEF Inputs
  <2>3. inputs' \in [Jobs -> Inputs]
    BY <2>1, <2>2 DEF TypeOK
  <2>4. task' \in [Jobs -> Tasks]
    BY <1>1, GoEffect DEF Start, Tasks
  <2>5. status' \in [Jobs -> Statuses] /\ activeId' \in Jobs \cup {NoJob}
    BY <1>1 DEF Start, Statuses, TypeOK
  <2>6. UNCHANGED <<report, plans, active, file, undo, live, commitLock, up, closed, executor,
                    mailbox>>
    BY <1>1 DEF Start, worker
  <2>7. QED
    BY <2>3, <2>4, <2>5, <2>6 DEF TypeOK
<1>2. ASSUME NEW j \in Jobs, NEW work \in {"parse", "calculate", "analytics"},
             NEW step \in {"parsing", "computing", "analysing"},
             \/ Submit(j, work) /\ Go(j, step) /\ UNCHANGED inputs
             \/ Leave(j) /\ UNCHANGED executor,
             UNCHANGED <<durable, live, commitLock, up, closed, activeId, mailbox>>
      PROVE  TypeOK'
  <2>1. executor' \in Seq(WorkItems)
    BY <1>2, SubmitEffect DEF TypeOK
  <2>2. task' \in [Jobs -> Tasks] /\ inputs' \in [Jobs -> Inputs]
    <3>1. CASE Go(j, step) /\ UNCHANGED inputs
      BY <3>1, GoEffect DEF TypeOK, Tasks
    <3>2. CASE Leave(j)
      BY <3>2, LeaveEffect
    <3>3. QED
      BY <1>2, <3>1, <3>2
  <2>3. QED
    BY <1>2, <2>1, <2>2 DEF TypeOK, durable
<1>3. ASSUME NEW j \in Jobs, PrepareTask(j) \/ CalculateTask(j) \/ ApplyTask(j) PROVE TypeOK'
  <2>1. UNCHANGED <<durable, live, commitLock, up, closed, activeId, mailbox>>
    BY <1>3 DEF PrepareTask, CalculateTask, ApplyTask
  <2>2. \E work \in {"parse", "calculate", "analytics"},
           step \in {"parsing", "computing", "analysing"} :
             \/ Submit(j, work) /\ Go(j, step) /\ UNCHANGED inputs
             \/ Leave(j) /\ UNCHANGED executor
    BY <1>3 DEF PrepareTask, CalculateTask, ApplyTask
  <2>3. QED
    BY <1>2, <2>1, <2>2
<1>4. ASSUME NEW j \in Jobs, Confirm(j) \/ ApplyRefused(j) PROVE TypeOK'
  <2>1. UNCHANGED <<report, plans, active, file, undo, live, commitLock, up, closed, executor,
                    mailbox>>
    BY <1>4 DEF Confirm, ApplyRefused, worker
  <2>2. status' \in [Jobs -> Statuses] /\ activeId' \in Jobs \cup {NoJob}
    BY <1>4, UpdateEffect DEF Confirm, Confirmed, ApplyRefused, Keep, Statuses, Terminal, TypeOK
  <2>3. task' \in [Jobs -> Tasks] /\ inputs' \in [Jobs -> Inputs]
    <3>1. \/ Leave(j)
          \/ Go(j, "calculate") /\ UNCHANGED inputs
      BY <1>4 DEF Confirm, Confirmed, ApplyRefused
    <3>2. QED
      BY <3>1, LeaveEffect, GoEffect DEF TypeOK, Tasks
  <2>4. QED
    BY <2>1, <2>2, <2>3 DEF TypeOK
<1>5. ASSUME NEW j \in Jobs, Approve(j) PROVE TypeOK'
  <2>1. UNCHANGED <<report, plans, active, file, undo, live, commitLock, up, closed, executor,
                    mailbox>>
    BY <1>5 DEF Approve, worker
  <2>2. status' \in [Jobs -> Statuses] /\ activeId' \in Jobs \cup {NoJob}
    BY <1>5, UpdateEffect DEF Approve, Statuses, Terminal
  <2>3. task' \in [Jobs -> Tasks] /\ inputs' \in [Jobs -> Inputs]
    <3>1. CASE Leave(j)
      BY <3>1, LeaveEffect
    <3>2. CASE Go(j, "apply") /\ inputs' = [inputs EXCEPT ![j].approval = "granted"]
      <4>1. [inputs[j] EXCEPT !.approval = "granted"] \in Inputs
        BY InputFields DEF Inputs, Approvals
      <4>2. inputs' \in [Jobs -> Inputs]
        BY <3>2, <4>1 DEF TypeOK
      <4>3. QED
        BY <3>2, <4>2, GoEffect DEF Tasks
    <3>3. QED
      BY <1>5, <3>1, <3>2 DEF Approve
  <2>4. QED
    BY <2>1, <2>2, <2>3 DEF TypeOK
<1>6. ASSUME NEW j \in Jobs, Cancel(j) PROVE TypeOK'
  <2>1. UNCHANGED <<report, plans, active, file, undo, live, commitLock, up, closed, task,
                    executor, mailbox>>
    BY <1>6 DEF Cancel, worker
  <2>2. status' \in [Jobs -> Statuses] /\ activeId' \in Jobs \cup {NoJob}
    BY <1>6, UpdateEffect DEF Cancel, Statuses, Terminal
  <2>3. inputs' \in [Jobs -> Inputs]
    <3>1. [inputs[j] EXCEPT !.cancel = TRUE] \in Inputs
      BY InputFields DEF Inputs
    <3>2. QED
      BY <1>6, <3>1, NoInputsType DEF Cancel, TypeOK
  <2>4. QED
    BY <2>1, <2>2, <2>3 DEF TypeOK
<1>7. ASSUME ParseReads PROVE TypeOK'
  <2>1. executor' \in Seq(WorkItems)
    BY <1>7, BegunEffect DEF ParseReads, Working, TypeOK
  <2>2. QED
    BY <1>7, <2>1 DEF ParseReads, TypeOK, durable, manager
<1>8. ASSUME ParseEnds PROVE TypeOK'
  <2>1. PICK result \in {"error", "ok"}, config \in Contents : Finish("parsed", result, config)
    <3>1. Head(executor).config \in Contents /\ Head(executor).job \in Jobs /\ {} \in Contents
      BY <1>8, FirstWork DEF ParseEnds, Working, Contents
    <3>2. Head(executor).config \cup {Head(executor).job} \in Contents
      BY <3>1 DEF Contents
    <3>3. QED
      BY <1>8, <3>1, <3>2 DEF ParseEnds
  <2>2. executor # <<>> /\ UNCHANGED <<durable, live, commitLock, up, manager>>
    BY <1>8 DEF ParseEnds, Working
  <2>3. executor' \in Seq(WorkItems) /\ mailbox' \in Seq(Messages)
    BY <2>1, <2>2, FinishEffect, PostEffect DEF Finish
  <2>4. QED
    BY <2>2, <2>3 DEF TypeOK, durable, manager
<1>9. ASSUME CalculationStarts PROVE TypeOK'
  <2>1. executor # <<>> /\ UNCHANGED <<durable, live, commitLock, up, manager>> /\ {} \in Contents
    BY <1>9 DEF CalculationStarts, Working, Contents
  <2>2. executor' \in Seq(WorkItems) /\ mailbox' \in Seq(Messages)
    <3>1. CASE Finish("computed", "cancelled", {})
      BY <3>1, <2>1, FinishEffect, PostEffect DEF Finish
    <3>2. CASE Post("started", "ok", {}) /\ Begun({})
      BY <3>2, <2>1, BegunEffect, PostEffect
    <3>3. QED
      BY <1>9, <3>1, <3>2 DEF CalculationStarts
  <2>3. QED
    BY <2>1, <2>2 DEF TypeOK, durable, manager
<1>10. ASSUME CalculationEnds \/ AnalyticsEnds PROVE TypeOK'
  <2>1. executor # <<>> /\ UNCHANGED <<durable, live, commitLock, up, manager>> /\ {} \in Contents
    BY <1>10 DEF CalculationEnds, AnalyticsEnds, Working, Contents
  <2>2. PICK kind \in {"computed", "analysed"},
             result \in Decisions \cup {"ok", "error", "cancelled"} : Finish(kind, result, {})
    BY <1>10 DEF CalculationEnds, AnalyticsEnds
  <2>3. executor' \in Seq(WorkItems) /\ mailbox' \in Seq(Messages)
    BY <2>1, <2>2, FinishEffect, PostEffect DEF Finish
  <2>4. QED
    BY <2>1, <2>3 DEF TypeOK, durable, manager
<1>11. ASSUME WorkerStarted PROVE TypeOK'
  <2>1. mailbox # <<>>
    BY <1>11 DEF WorkerStarted, Message
  <2>2. mailbox' \in Seq(Messages)
    BY <1>11, <2>1, FirstMessage DEF WorkerStarted
  <2>3. status' \in [Jobs -> Statuses] /\ activeId' \in Jobs \cup {NoJob}
    BY <1>11, <2>1, FirstMessage, UpdateEffect DEF WorkerStarted, Keep, TypeOK, Statuses
  <2>4. QED
    BY <1>11, <2>2, <2>3 DEF WorkerStarted, TypeOK
<1>12. ASSUME NEW j \in Jobs,
              \/ Keep \/ FailJob(j) \/ \E s \in Statuses : Update(j, s)
       PROVE  status' \in [Jobs -> Statuses] /\ activeId' \in Jobs \cup {NoJob}
  <2>1. CASE Keep
    BY <2>1 DEF Keep, TypeOK
  <2>2. CASE \E s \in Statuses : Update(j, s)
    BY <2>2, UpdateEffect
  <2>3. CASE FailJob(j)
    BY <2>1, <2>2, <2>3 DEF FailJob, Statuses, Terminal
  <2>4. QED
    BY <1>12, <2>1, <2>2, <2>3
<1>13. ASSUME Parsed PROVE TypeOK'
  <2> DEFINE m == Head(mailbox)
             j == m.job
  <2>1. mailbox # <<>> /\ mailbox' = Tail(mailbox)
    BY <1>13 DEF Parsed, Message
  <2>2. mailbox' \in Seq(Messages) /\ j \in Jobs /\ m.config \in Contents
    BY <2>1, FirstMessage
  <2>3. \/ Keep \/ FailJob(j) \/ \E s \in Statuses : Update(j, s)
    BY <1>13 DEF Parsed, Statuses, Terminal
  <2>4. status' \in [Jobs -> Statuses] /\ activeId' \in Jobs \cup {NoJob}
    BY <2>2, <2>3, <1>12
  <2>5. \/ Leave(j)
        \/ /\ inputs' = [inputs EXCEPT ![j].config = m.config]
           /\ Go(j, "calculate") \/ Go(j, "none")
    BY <1>13 DEF Parsed
  <2>6. task' \in [Jobs -> Tasks] /\ inputs' \in [Jobs -> Inputs]
    <3>1. CASE Leave(j)
      BY <3>1, <2>2, LeaveEffect
    <3>2. CASE /\ inputs' = [inputs EXCEPT ![j].config = m.config]
               /\ Go(j, "calculate") \/ Go(j, "none")
      <4>1. [inputs[j] EXCEPT !.config = m.config] \in Inputs
        BY <2>2, InputFields DEF Inputs
      <4>2. inputs' \in [Jobs -> Inputs]
        BY <3>2, <2>2, <4>1 DEF TypeOK
      <4>3. QED
        BY <3>2, <2>2, <4>2, GoEffect DEF Tasks
    <3>3. QED
      BY <2>5, <3>1, <3>2
  <2>7. UNCHANGED <<report, plans, active, file, undo, live, commitLock, up, closed, executor>>
    BY <1>13 DEF Parsed
  <2>8. QED
    BY <2>2, <2>4, <2>6, <2>7 DEF TypeOK
<1>14. ASSUME Computed PROVE TypeOK'
  <2> DEFINE m == Head(mailbox)
             j == m.job
  <2>1. mailbox # <<>> /\ mailbox' = Tail(mailbox)
    BY <1>14 DEF Computed, Message
  <2>2. mailbox' \in Seq(Messages) /\ j \in Jobs
    BY <2>1, FirstMessage
  <2>3. \/ Keep \/ FailJob(j) \/ \E s \in Statuses : Update(j, s)
    BY <1>14 DEF Computed, Decide, Keep, Statuses, Terminal
  <2>4. status' \in [Jobs -> Statuses] /\ activeId' \in Jobs \cup {NoJob}
    BY <2>2, <2>3, <1>12
  <2>5. /\ \/ Leave(j)
           \/ UNCHANGED inputs /\ (Go(j, "analysing") \/ Go(j, "none"))
        /\ UNCHANGED executor \/ Submit(j, "analytics")
        /\ \/ UNCHANGED report
           \/ m.result \in Decisions /\ report' = [report EXCEPT ![j] = m.result]
    BY <1>14 DEF Computed, Decide
  <2>6. task' \in [Jobs -> Tasks] /\ inputs' \in [Jobs -> Inputs]
    <3>1. CASE Leave(j)
      BY <3>1, <2>2, LeaveEffect
    <3>2. CASE UNCHANGED inputs /\ (Go(j, "analysing") \/ Go(j, "none"))
      BY <3>2, <2>2, GoEffect DEF Tasks, TypeOK
    <3>3. QED
      BY <2>5, <3>1, <3>2
  <2>7. executor' \in Seq(WorkItems)
    BY <2>2, <2>5, SubmitEffect DEF TypeOK
  <2>8. report' \in [Jobs -> Decisions \cup {"none"}]
    BY <2>2, <2>5 DEF TypeOK
  <2>9. UNCHANGED <<plans, active, file, undo, live, commitLock, up, closed>>
    BY <1>14 DEF Computed
  <2>10. QED
    BY <2>2, <2>4, <2>6, <2>7, <2>8, <2>9 DEF TypeOK
<1>15. ASSUME Analysed PROVE TypeOK'
  <2> DEFINE m == Head(mailbox)
             j == m.job
  <2>1. mailbox # <<>> /\ mailbox' = Tail(mailbox)
    BY <1>15 DEF Analysed, Message
  <2>2. mailbox' \in Seq(Messages) /\ j \in Jobs
    BY <2>1, FirstMessage
  <2>3. /\ Keep \/ FailJob(j)
        /\ \/ Leave(j)
           \/ UNCHANGED inputs /\ Go(j, "applying")
    BY <1>15 DEF Analysed
  <2>4. status' \in [Jobs -> Statuses] /\ activeId' \in Jobs \cup {NoJob}
    BY <2>2, <2>3, <1>12
  <2>5. task' \in [Jobs -> Tasks] /\ inputs' \in [Jobs -> Inputs]
    <3>1. CASE Leave(j)
      BY <3>1, <2>2, LeaveEffect
    <3>2. CASE UNCHANGED inputs /\ Go(j, "applying")
      BY <3>2, <2>2, GoEffect DEF Tasks, TypeOK
    <3>3. QED
      BY <2>3, <3>1, <3>2
  <2>6. UNCHANGED <<report, plans, active, file, undo, live, commitLock, up, closed, executor>>
    BY <1>15 DEF Analysed
  <2>7. QED
    BY <2>2, <2>4, <2>5, <2>6 DEF TypeOK
<1>16. ASSUME NEW j \in Jobs, ApplyBegins(j) PROVE TypeOK'
  <2>1. undo' \in Journals
    BY <1>16 DEF ApplyBegins, Journals, TypeOK
  <2>2. task' \in [Jobs -> Tasks]
    BY <1>16, GoEffect DEF ApplyBegins, Tasks
  <2>3. QED
    BY <1>16, <2>1, <2>2 DEF ApplyBegins, TypeOK, worker
<1>17. ASSUME NEW j \in Jobs, SaveConfig(j) \/ SaveFails(j) \/ RecognizeLoad(j) \/ UndoSave(j)
       PROVE  TypeOK'
  <2>1. \E step \in {"committing", "failing", "publishing", "undone"} : Go(j, step)
    BY <1>17 DEF SaveConfig, SaveFails, RecognizeLoad, UndoSave
  <2>2. task' \in [Jobs -> Tasks]
    BY <2>1, GoEffect DEF Tasks
  <2>3. file' \in Contents
    <3>1. file' \in {file, inputs[j].config, undo.config}
      BY <1>17 DEF SaveConfig, SaveFails, RecognizeLoad, UndoSave, durable
    <3>2. QED
      BY <3>1, InputFields, PlanFields DEF TypeOK
  <2>4. UNCHANGED <<status, report, plans, active, undo, live, commitLock, up, closed, activeId,
                    inputs, executor, mailbox>>
    BY <1>17 DEF SaveConfig, SaveFails, RecognizeLoad, UndoSave, durable, worker
  <2>5. QED
    BY <2>2, <2>3, <2>4 DEF TypeOK
<1>18. ASSUME NEW j \in Jobs, CommitLoad(j) PROVE TypeOK'
  <2>1. task' \in [Jobs -> Tasks]
    BY <1>18, GoEffect DEF CommitLoad, Tasks
  <2>2. active' \in Plans /\ undo' \in Journals
    BY <1>18, InputFields DEF CommitLoad, Plans, Journals, NoUndo, Contents
  <2>3. status' \in [Jobs -> Statuses] /\ plans' \subseteq Jobs \cup Writers
    BY <1>18 DEF CommitLoad, TypeOK, Statuses, Terminal
  <2>4. QED
    BY <1>18, <2>1, <2>2, <2>3 DEF CommitLoad, TypeOK, worker
<1>19. ASSUME NEW j \in Jobs, AbortLoad(j) PROVE TypeOK'
  <2>1. status' \in [Jobs -> Statuses] /\ activeId' \in Jobs \cup {NoJob}
    BY <1>19, <1>12 DEF AbortLoad
  <2>2. task' \in [Jobs -> Tasks] /\ inputs' \in [Jobs -> Inputs]
    BY <1>19, LeaveEffect DEF AbortLoad
  <2>3. undo' \in Journals
    BY <1>19 DEF AbortLoad, Journals, NoUndo, Contents
  <2>4. QED
    BY <1>19, <2>1, <2>2, <2>3 DEF AbortLoad, TypeOK, worker
<1>20. ASSUME NEW j \in Jobs, PublishLoad(j) PROVE TypeOK'
  <2>1. task' \in [Jobs -> Tasks] /\ inputs' \in [Jobs -> Inputs]
    BY <1>20, LeaveEffect DEF PublishLoad
  <2>2. live' \in Plans
    BY <1>20, InputFields DEF PublishLoad, Plans
  <2>3. activeId' \in Jobs \cup {NoJob}
    BY <1>20 DEF PublishLoad, TypeOK
  <2>4. QED
    BY <1>20, <2>1, <2>2, <2>3 DEF PublishLoad, TypeOK, worker, durable
<1>21. ASSUME NEW w \in Writers, WriterReplacesFile(w) PROVE TypeOK'
  <2>1. undo' \in Journals
    BY <1>21 DEF WriterReplacesFile, Journals, TypeOK
  <2>2. file' \in Contents
    BY <1>21, PlanFields DEF WriterReplacesFile, Contents
  <2>3. QED
    BY <1>21, <2>1, <2>2 DEF WriterReplacesFile, TypeOK, worker, manager
<1>22. ASSUME NEW w \in Writers, WriterCommits(w) PROVE TypeOK'
  <2>1. live.config \cup {w} \in Contents
    BY PlanFields DEF Contents
  <2>2. active' \in Plans /\ live' \in Plans
    BY <1>22, <2>1, PlanFields DEF WriterCommits, Plans
  <2>3. undo' \in Journals
    BY <1>22 DEF WriterCommits, Journals, NoUndo, Contents
  <2>4. QED
    BY <1>22, <2>2, <2>3 DEF WriterCommits, TypeOK, worker, manager
<1>23. ASSUME NEW w \in Writers, WriterRollsBack(w) PROVE TypeOK'
  <2>1. undo' \in Journals
    BY <1>23 DEF WriterRollsBack, Journals, NoUndo, Contents
  <2>2. QED
    BY <1>23, <2>1, PlanFields DEF WriterRollsBack, TypeOK, worker, manager
<1>24. status \in [Jobs -> Statuses] =>
         [j \in Jobs |-> IF Pending(j) THEN "failed" ELSE status[j]] \in [Jobs -> Statuses]
    BY DEF Statuses, Terminal
<1>25. ASSUME Close PROVE TypeOK'
  <2>1. mailbox' \in Seq(Messages)
    BY <1>25 DEF Close
  <2>2. status' \in [Jobs -> Statuses]
    BY <1>25, <1>24 DEF Close, TypeOK
  <2>3. inputs' \in [Jobs -> Inputs] /\ task' \in [Jobs -> Tasks]
    BY <1>25, NoInputsType DEF Close, Tasks
  <2>4. QED
    BY <1>25, <2>1, <2>2, <2>3 DEF Close, TypeOK
<1>26. ASSUME Crash PROVE TypeOK'
  <2>1. mailbox' \in Seq(Messages) /\ executor' \in Seq(WorkItems)
    BY <1>26 DEF Crash
  <2>2. inputs' \in [Jobs -> Inputs] /\ task' \in [Jobs -> Tasks]
    BY <1>26, NoInputsType DEF Crash, Tasks
  <2>3. live' \in Plans
    BY <1>26 DEF Crash, Plans, Contents
  <2>4. QED
    BY <1>26, <2>1, <2>2, <2>3 DEF Crash, TypeOK, durable
<1>27. ASSUME Restart PROVE TypeOK'
  <2>1. file' \in Contents
    BY <1>27, PlanFields DEF Restart, TypeOK
  <2>2. active' \in Plans /\ live' \in Plans
    BY <1>27, <2>1, PlanFields DEF Restart, TypeOK, Plans
  <2>3. undo' \in Journals
    BY <1>27 DEF Restart, Journals, NoUndo, Contents
  <2>4. status' \in [Jobs -> Statuses]
    BY <1>27, <1>24 DEF Restart, TypeOK
  <2>5. QED
    BY <1>27, <2>1, <2>2, <2>3, <2>4 DEF Restart, TypeOK, worker, manager
<1>28. CASE UNCHANGED vars
    BY <1>28 DEF TypeOK, vars
<1>29. QED
    BY <1>1, <1>3, <1>4, <1>5, <1>6, <1>7, <1>8, <1>9, <1>10, <1>11, <1>13, <1>14, <1>15,
       <1>16, <1>17, <1>18, <1>19, <1>20, <1>21, <1>22, <1>23, <1>25, <1>26, <1>27, <1>28
    DEF Next, Client, Coroutine, Worker, Deliver, Writer

(* The state of LoadJobManager, of its worker and of the store keeps its   *)
(* type, through every failure, shutdown and crash.                        *)
THEOREM LoadTypes == Spec => []TypeOK
BY TypedInit, TypedStep, PTL DEF Spec

-----------------------------------------------------------------------------
(* Applied loads, and who holds commit_lock.                               *)

(* The steps of the event loop outside the write window of a load.         *)
LoopStep ==
    \/ \E j \in Jobs : \/ Client(j) \/ PrepareTask(j) \/ CalculateTask(j) \/ ApplyTask(j)
                       \/ ApplyRefused(j)
    \/ Deliver

LoopEffect ==
    /\ LoopFree
    /\ UNCHANGED <<plans, active, file, undo, live, commitLock, up, closed>>
    /\ \A k \in Jobs : status'[k] = "applied" <=> status[k] = "applied"
    /\ \A k \in Jobs : task'[k] \in LockTasks => task[k] \in LockTasks

Held == TypeOK /\ AppliedIffActivated /\ Quiet /\ Locking

LEMMA NotApplied ==
    ASSUME TypeOK, NEW j \in Jobs,
           \/ Keep
           \/ FailJob(j)
           \/ status[j] # "applied" /\ \E s \in Statuses \ {"applied"} : Update(j, s)
    PROVE  \A k \in Jobs : status'[k] = "applied" <=> status[k] = "applied"
<1>1. CASE status[j] # "applied" /\ \E s \in Statuses \ {"applied"} : Update(j, s)
    BY <1>1, UpdateEffect
<1>2. CASE Keep
    BY <1>2 DEF Keep
<1>3. CASE FailJob(j) /\ ~Keep
  <2>1. status[j] # "applied" /\ Update(j, "failed")
    BY <1>3 DEF FailJob, Terminal
  <2>2. QED
    BY <2>1, <1>1 DEF Statuses, Terminal
<1>4. QED
    BY <1>1, <1>2, <1>3

LEMMA LoopStepEffect == TypeOK /\ LoopStep => LoopEffect
<1> SUFFICES ASSUME TypeOK, LoopStep PROVE LoopEffect
    OBVIOUS
<1>1. ASSUME NEW j \in Jobs, Start(j) PROVE LoopEffect
  <2>1. \A k \in Jobs : status'[k] = "applied" <=> status[k] = "applied"
    BY <1>1 DEF Start, TypeOK
  <2>2. \A k \in Jobs : task'[k] \in LockTasks => task[k] \in LockTasks
    BY <1>1, GoEffect DEF Start, LockTasks, Tasks
  <2>3. QED
    BY <1>1, <2>1, <2>2 DEF Start, LoopEffect
<1>2. ASSUME NEW j \in Jobs, PrepareTask(j) \/ CalculateTask(j) \/ ApplyTask(j) PROVE LoopEffect
  <2>1. /\ LoopFree
        /\ UNCHANGED <<durable, live, commitLock, up, closed>>
        /\ Leave(j) \/ \E step \in {"parsing", "computing", "analysing"} : Go(j, step)
    BY <1>2 DEF PrepareTask, CalculateTask, ApplyTask
  <2>2. \A k \in Jobs : task'[k] \in LockTasks => task[k] \in LockTasks
    BY <2>1, GoEffect, LeaveEffect DEF LockTasks, Tasks
  <2>3. QED
    BY <2>1, <2>2 DEF durable, LoopEffect
<1>3. ASSUME NEW j \in Jobs, Confirm(j) \/ Approve(j) \/ ApplyRefused(j) PROVE LoopEffect
  <2>1. /\ LoopFree
        /\ UNCHANGED <<plans, active, file, undo, live, commitLock, up, closed>>
        /\ Leave(j) \/ \E step \in {"calculate", "apply"} : Go(j, step)
        /\ \/ Keep
           \/ status[j] # "applied" /\ \E s \in Statuses \ {"applied"} : Update(j, s)
    BY <1>3 DEF Confirm, Confirmed, Approve, ApplyRefused, Live, Statuses, Terminal
  <2>2. \A k \in Jobs : task'[k] \in LockTasks => task[k] \in LockTasks
    BY <2>1, GoEffect, LeaveEffect DEF LockTasks, Tasks
  <2>3. QED
    BY <2>1, <2>2, NotApplied DEF LoopEffect
<1>4. ASSUME NEW j \in Jobs, Cancel(j) PROVE LoopEffect
  <2>1. status[j] # "applied" /\ Update(j, "cancelled") /\ "cancelled" \in Statuses \ {"applied"}
    BY <1>4 DEF Cancel, Pending, Terminal, Statuses
  <2>2. \A k \in Jobs : status'[k] = "applied" <=> status[k] = "applied"
    BY <2>1, NotApplied
  <2>3. QED
    BY <1>4, <2>2 DEF Cancel, LoopEffect
<1>5. ASSUME Deliver PROVE LoopEffect
  <2> DEFINE j == Head(mailbox).job
  <2>1. mailbox # <<>> /\ LoopFree
    BY <1>5 DEF Deliver, WorkerStarted, Parsed, Computed, Analysed, Message
  <2>2. j \in Jobs
    BY <2>1, FirstMessage
  <2>3. UNCHANGED <<plans, active, file, undo, live, commitLock, up, closed>>
    BY <1>5 DEF Deliver, WorkerStarted, Parsed, Computed, Analysed
  <2>4. \/ Keep
        \/ FailJob(j)
        \/ status[j] # "applied" /\ \E s \in Statuses \ {"applied"} : Update(j, s)
    <3>1. CASE WorkerStarted
      BY <3>1 DEF WorkerStarted, Live, Statuses, Terminal
    <3>2. CASE Parsed
      BY <3>2 DEF Parsed, Live, Statuses, Terminal
    <3>3. CASE Computed
      BY <3>3 DEF Computed, Decide, Keep, Live, Statuses, Terminal
    <3>4. CASE Analysed
      BY <3>4 DEF Analysed
    <3>5. QED
      BY <1>5, <3>1, <3>2, <3>3, <3>4 DEF Deliver
  <2>5. \/ UNCHANGED task
        \/ Leave(j)
        \/ \E step \in {"none", "calculate", "analysing", "applying"} : Go(j, step)
    BY <1>5 DEF Deliver, WorkerStarted, Parsed, Computed, Decide, Analysed
  <2>6. \A k \in Jobs : task'[k] \in LockTasks => task[k] \in LockTasks
    BY <2>2, <2>5, GoEffect, LeaveEffect DEF LockTasks, Tasks
  <2>7. QED
    BY <2>1, <2>2, <2>3, <2>4, <2>6, NotApplied DEF LoopEffect
<1>6. QED
    BY <1>1, <1>2, <1>3, <1>4, <1>5 DEF LoopStep, Client

LEMMA HeldInit == Init => Held
BY TypedInit DEF Held, Init, AppliedIffActivated, Quiet, Locking, LockTasks

LEMMA HeldStep == Held /\ [Next]_vars => Held'
<1> SUFFICES ASSUME Held, [Next]_vars PROVE Held'
    OBVIOUS
<1>0. TypeOK /\ TypeOK' /\ AppliedIffActivated /\ Quiet /\ Locking
    BY TypedStep DEF Held
<1> USE <1>0
<1>1. CASE LoopStep
  <2>1. /\ LoopFree
        /\ UNCHANGED <<plans, active, file, undo, live, commitLock, up, closed>>
        /\ \A k \in Jobs : status'[k] = "applied" <=> status[k] = "applied"
        /\ \A k \in Jobs : task'[k] \in LockTasks => task[k] \in LockTasks
    BY <1>1, LoopStepEffect DEF LoopEffect
  <2>2. AppliedIffActivated' /\ Quiet'
    BY <2>1 DEF AppliedIffActivated, Quiet, LoopFree
  <2>3. Locking'
    BY <2>1 DEF Locking, LoopFree
  <2>4. QED
    BY <2>2, <2>3 DEF Held
<1>2. CASE Worker
  <2>1. UNCHANGED <<durable, live, commitLock, up, manager>>
    BY <1>2 DEF Worker, ParseReads, ParseEnds, CalculationStarts, CalculationEnds, AnalyticsEnds
  <2>2. QED
    BY <2>1 DEF Held, AppliedIffActivated, Quiet, Locking, durable, manager
<1>3. ASSUME NEW j \in Jobs, ApplyBegins(j) PROVE Held'
  <2>1. task'[j] = "saving" /\ \A k \in Jobs \ {j} : task'[k] = task[k]
    BY <1>3, GoEffect DEF ApplyBegins, Tasks
  <2>2. up /\ ~closed /\ commitLock = NoJob /\ commitLock' = j
        /\ UNCHANGED <<status, plans, up, closed, inputs>>
    BY <1>3 DEF ApplyBegins, LoopFree
  <2>3. Locking'
    BY <2>1, <2>2 DEF Locking, LockTasks
  <2>4. QED
    BY <2>2, <2>3 DEF Held, AppliedIffActivated, Quiet
<1>4. ASSUME NEW j \in Jobs, task[j] \in LockTasks
      PROVE  /\ up /\ ~closed /\ commitLock = j
             /\ \A k \in Jobs \ {j} : task[k] \notin LockTasks
    BY <1>4 DEF Quiet, Locking, LockTasks
<1>5. ASSUME NEW j \in Jobs,
             SaveConfig(j) \/ SaveFails(j) \/ RecognizeLoad(j) \/ UndoSave(j) \/ CommitLoad(j)
      PROVE  Held'
  <2>1. task[j] \in LockTasks /\ UNCHANGED <<commitLock, up, closed, inputs>>
    BY <1>5 DEF SaveConfig, SaveFails, RecognizeLoad, UndoSave, CommitLoad, LockTasks
  <2>2. \E step \in LockTasks : Go(j, step)
    BY <1>5 DEF SaveConfig, SaveFails, RecognizeLoad, UndoSave, CommitLoad, LockTasks
  <2>3. task'[j] \in LockTasks /\ \A k \in Jobs \ {j} : task'[k] = task[k]
    BY <2>2, GoEffect DEF LockTasks, Tasks
  <2>4. Locking' /\ Quiet'
    BY <1>4, <2>1, <2>3 DEF Locking, Quiet
  <2>5. AppliedIffActivated'
    BY <1>5 DEF AppliedIffActivated, SaveConfig, SaveFails, RecognizeLoad, UndoSave, CommitLoad,
                durable, TypeOK
  <2>6. QED
    BY <2>4, <2>5 DEF Held
<1>6. ASSUME NEW j \in Jobs, AbortLoad(j) \/ PublishLoad(j) PROVE Held'
  <2>1. /\ task[j] \in LockTasks /\ commitLock' = NoJob /\ Leave(j)
        /\ UNCHANGED <<plans, up, closed>>
    BY <1>6 DEF AbortLoad, PublishLoad, LockTasks, durable
  <2>2. task'[j] = "none" /\ \A k \in Jobs \ {j} : task'[k] = task[k]
    BY <2>1, LeaveEffect
  <2>3. Locking' /\ Quiet'
    BY <1>4, <2>1, <2>2 DEF Locking, Quiet, LockTasks
  <2>4. \A k \in Jobs : status'[k] = "applied" <=> status[k] = "applied"
    BY <1>6, NotApplied DEF AbortLoad, PublishLoad, durable
  <2>5. AppliedIffActivated'
    BY <2>1, <2>4 DEF AppliedIffActivated
  <2>6. QED
    BY <2>3, <2>5 DEF Held
<1>7. ASSUME NEW w \in Writers, Writer(w) PROVE Held'
  <2>1. UNCHANGED <<status, up, closed, task, inputs>> /\ w \notin Jobs
    BY <1>7 DEF Writer, WriterReplacesFile, WriterCommits, WriterRollsBack, manager
  <2>2. plans' = plans \/ plans' = plans \cup {w}
    BY <1>7 DEF Writer, WriterReplacesFile, WriterCommits, WriterRollsBack
  <2>3. up /\ commitLock \notin Jobs /\ commitLock' \notin Jobs
    BY <1>7, <2>1 DEF Writer, WriterReplacesFile, WriterCommits, WriterRollsBack, Quiet
  <2>4. AppliedIffActivated'
    BY <2>1, <2>2 DEF AppliedIffActivated
  <2>5. Locking' /\ Quiet'
    BY <2>1, <2>3 DEF Locking, Quiet
  <2>6. QED
    BY <2>4, <2>5 DEF Held
<1>8. \A j \in Jobs :
        (IF Pending(j) THEN "failed" ELSE status[j]) = "applied" <=> status[j] = "applied"
    BY DEF Pending, Terminal
<1>9. CASE Close
  <2>1. AppliedIffActivated'
    BY <1>8, <1>9 DEF Close, AppliedIffActivated
  <2>2. Quiet' /\ Locking'
    BY <1>9 DEF Close, Quiet, Locking, LoopFree, LockTasks
  <2>3. QED
    BY <2>1, <2>2 DEF Held
<1>10. CASE Crash
    BY <1>10 DEF Crash, Held, AppliedIffActivated, Quiet, Locking, LockTasks, durable
<1>11. CASE Restart
  <2>1. AppliedIffActivated'
    BY <1>8, <1>11 DEF Restart, AppliedIffActivated
  <2>2. Quiet' /\ Locking'
    BY <1>11 DEF Restart, Quiet, Locking, LockTasks, manager
  <2>3. QED
    BY <2>1, <2>2 DEF Held
<1>12. CASE UNCHANGED vars
    BY <1>12 DEF vars, Held, AppliedIffActivated, Quiet, Locking
<1>13. QED
    BY <1>1, <1>2, <1>3, <1>5, <1>6, <1>7, <1>9, <1>10, <1>11, <1>12
    DEF Next, Coroutine, LoopStep

(* A load says it was applied exactly when its plan was activated: the row *)
(* and the pointer change in one transaction (commit_load), and none of    *)
(* _fail, cancel, close and the restart takes the word back.               *)
THEOREM AppliedMeansActivated == Spec => []AppliedIffActivated
<1>1. Held => AppliedIffActivated
    BY DEF Held
<1>2. QED
    BY <1>1, HeldInit, HeldStep, PTL DEF Spec

-----------------------------------------------------------------------------
(* The write windows.                                                      *)

Windows == Journal /\ LoadWindow /\ WriterWindow /\ Idle
Windowed == Held /\ Windows

LEMMA WindowedInit == Init => Windowed
BY HeldInit DEF Windowed, Windows, Init, Journal, LoadWindow, WriterWindow, Idle, NoUndo, LockTasks

LEMMA HoldsTheLock ==
    ASSUME Held, NEW j \in Jobs, task[j] \in LockTasks
    PROVE  /\ up /\ ~closed /\ commitLock = j
           /\ \A k \in Jobs \ {j} : task[k] \notin LockTasks
           /\ \A w \in Writers : commitLock # w
BY DEF Held, Quiet, Locking, LockTasks

LEMMA NoLoadWindow ==
    ASSUME Held, commitLock \notin Jobs
    PROVE  \A j \in Jobs : task[j] \notin LockTasks
BY DEF Held, Locking

LEMMA WindowedStep == Windowed /\ [Next]_vars => Windowed'
<1> SUFFICES ASSUME Windowed, [Next]_vars PROVE Windows'
    BY HeldStep DEF Windowed
<1>0. TypeOK /\ TypeOK' /\ Held /\ Held' /\ Journal /\ LoadWindow /\ WriterWindow /\ Idle
    BY HeldStep DEF Windowed, Windows, Held
<1> USE <1>0
<1>1. CASE LoopStep
  <2>1. /\ UNCHANGED <<active, file, undo, live, commitLock, up>>
        /\ commitLock \notin Jobs
    BY <1>1, LoopStepEffect DEF LoopEffect, LoopFree
  <2>2. \A j \in Jobs : task'[j] \notin LockTasks
    BY <1>1, <2>1, LoopStepEffect, NoLoadWindow DEF LoopEffect
  <2>3. QED
    BY <2>1, <2>2 DEF Windows, Journal, LoadWindow, WriterWindow, Idle
<1>2. CASE Worker
  <2>1. UNCHANGED <<durable, live, commitLock, up, manager>>
    BY <1>2 DEF Worker, ParseReads, ParseEnds, CalculationStarts, CalculationEnds, AnalyticsEnds
  <2>2. QED
    BY <2>1 DEF Windows, Journal, LoadWindow, WriterWindow, Idle, durable, manager, Planned,
                Committed, Uncommitted
<1>3. ASSUME NEW j \in Jobs, ApplyBegins(j) PROVE Windows'
  <2>1. /\ up /\ commitLock = NoJob /\ commitLock' = j
        /\ undo' = [owner |-> j, config |-> file] /\ status[j] # "applied"
        /\ UNCHANGED <<status, active, file, live, inputs>>
    BY <1>3 DEF ApplyBegins, LoopFree, Live, Terminal
  <2>2. task'[j] = "saving" /\ \A k \in Jobs \ {j} : task'[k] = task[k]
    BY <1>3, GoEffect DEF ApplyBegins, Tasks
  <2>3. undo = NoUndo /\ live = active /\ file = active.config
    BY <2>1 DEF Idle, Journal, NoUndo
  <2>4. Journal' /\ WriterWindow' /\ Idle'
    BY <2>1, <2>3 DEF Journal, WriterWindow, Idle
  <2>5. inputs[j].origin.rev = live.rev /\ inputs[j].origin.config = live.config
    BY <1>3 DEF ApplyBegins, OriginHolds, Origin
  <2>6. Uncommitted(j)'
    BY <2>1, <2>2, <2>3 DEF Uncommitted
  <2>7. \A k \in Jobs \ {j} : task'[k] \notin LockTasks
    BY <2>1, <2>2, NoLoadWindow
  <2>8. LoadWindow'
    BY <2>1, <2>2, <2>5, <2>6, <2>7 DEF LoadWindow
  <2>9. QED
    BY <2>4, <2>8 DEF Windows
<1>4. ASSUME NEW j \in Jobs, task[j] \in LockTasks
      PROVE  /\ up /\ commitLock = j
             /\ \A k \in Jobs \ {j} : task[k] \notin LockTasks
             /\ \A w \in Writers : commitLock # w
             /\ inputs[j].origin.rev = live.rev /\ inputs[j].origin.config = live.config
             /\ IF status[j] = "applied" THEN task[j] \in {"failing", "publishing"} /\ Committed(j)
                                         ELSE task[j] # "publishing" /\ Uncommitted(j)
    BY <1>4, HoldsTheLock DEF LoadWindow
<1>5. ASSUME NEW j \in Jobs, task[j] \in LockTasks, UNCHANGED <<commitLock, inputs, live>>,
             \A k \in Jobs \ {j} : task'[k] = task[k],
             IF status'[j] = "applied" THEN task'[j] \in {"failing", "publishing"} /\ Committed(j)'
                                       ELSE task'[j] # "publishing" /\ Uncommitted(j)'
      PROVE  LoadWindow' /\ WriterWindow' /\ Idle'
  <2>1. /\ commitLock' = j
        /\ inputs'[j].origin.rev = live'.rev /\ inputs'[j].origin.config = live'.config
        /\ \A k \in Jobs \ {j} : task'[k] \notin LockTasks
    BY <1>4, <1>5
  <2>2. LoadWindow'
    BY <1>5, <2>1 DEF LoadWindow
  <2>3. WriterWindow' /\ Idle'
    BY <1>4, <1>5, <2>1 DEF WriterWindow, Idle
  <2>4. QED
    BY <2>2, <2>3
<1>6. ASSUME NEW j \in Jobs, SaveConfig(j) PROVE Windows'
  <2>1. /\ task[j] = "saving" /\ task[j] \in LockTasks
        /\ UNCHANGED <<commitLock, inputs, live, active, undo, status>>
    BY <1>6 DEF SaveConfig, LockTasks
  <2>2. task'[j] = "committing" /\ \A k \in Jobs \ {j} : task'[k] = task[k]
    BY <1>6, GoEffect DEF SaveConfig, Tasks
  <2>3. status[j] # "applied" /\ live = active /\ undo.owner = j /\ file = active.config
    BY <1>4, <2>1 DEF Uncommitted
  <2>4. file' = inputs[j].config
    BY <1>6, <2>3 DEF SaveConfig, ConfigChanged
  <2>5. Uncommitted(j)'
    BY <2>1, <2>2, <2>3, <2>4 DEF Uncommitted
  <2>6. Journal'
    BY <2>1, <2>3 DEF Journal
  <2>7. QED
    BY <1>5, <2>1, <2>2, <2>3, <2>5, <2>6 DEF Windows
<1>7. ASSUME NEW j \in Jobs, SaveFails(j) PROVE Windows'
  <2>1. /\ task[j] \in {"saving", "committing"} /\ task[j] \in LockTasks
        /\ UNCHANGED <<commitLock, inputs, live, active, undo, status, file>>
    BY <1>7 DEF SaveFails, LockTasks, durable
  <2>2. task'[j] = "failing" /\ \A k \in Jobs \ {j} : task'[k] = task[k]
    BY <1>7, GoEffect DEF SaveFails, Tasks
  <2>3. status[j] # "applied" /\ Uncommitted(j)
    BY <1>4, <2>1
  <2>4. Uncommitted(j)'
    BY <2>1, <2>2, <2>3 DEF Uncommitted
  <2>5. Journal'
    BY <2>1 DEF Journal
  <2>6. QED
    BY <1>5, <2>1, <2>2, <2>3, <2>4, <2>5 DEF Windows
<1>8. ASSUME NEW j \in Jobs, CommitLoad(j) PROVE Windows'
  <2>1. /\ task[j] = "committing" /\ task[j] \in LockTasks /\ status[j] # "applied"
        /\ status'[j] = "applied" /\ active' = Planned(j) /\ undo' = NoUndo
        /\ UNCHANGED <<commitLock, inputs, live, file>>
    BY <1>8 DEF CommitLoad, LockTasks, Planned, TypeOK
  <2>2. /\ task'[j] \in {"failing", "publishing"}
        /\ \A k \in Jobs \ {j} : task'[k] = task[k]
    BY <1>8, GoEffect DEF CommitLoad, Tasks
  <2>3. file = inputs[j].config
    BY <1>4, <2>1 DEF Uncommitted
  <2>4. Committed(j)'
    BY <2>1, <2>3 DEF Committed, Planned
  <2>5. Journal'
    BY <2>1, <2>3 DEF Journal, Planned, NoUndo
  <2>6. QED
    BY <1>5, <2>1, <2>2, <2>4, <2>5 DEF Windows
<1>9. ASSUME NEW j \in Jobs, RecognizeLoad(j) PROVE Windows'
  <2>1. /\ task[j] = "failing" /\ task[j] \in LockTasks /\ status[j] = "applied"
        /\ UNCHANGED <<commitLock, inputs, live, active, undo, status, file>>
    BY <1>9 DEF RecognizeLoad, LockTasks, durable
  <2>2. task'[j] = "publishing" /\ \A k \in Jobs \ {j} : task'[k] = task[k]
    BY <1>9, GoEffect DEF RecognizeLoad, Tasks
  <2>3. Committed(j)'
    BY <1>4, <2>1 DEF Committed, Planned
  <2>4. Journal'
    BY <2>1 DEF Journal
  <2>5. QED
    BY <1>5, <2>1, <2>2, <2>3, <2>4 DEF Windows
<1>10. ASSUME NEW j \in Jobs, UndoSave(j) PROVE Windows'
  <2>1. /\ task[j] = "failing" /\ task[j] \in LockTasks /\ status[j] # "applied"
        /\ UNCHANGED <<commitLock, inputs, live, active, undo, status>>
    BY <1>10 DEF UndoSave, LockTasks
  <2>2. task'[j] = "undone" /\ \A k \in Jobs \ {j} : task'[k] = task[k]
    BY <1>10, GoEffect DEF UndoSave, Tasks
  <2>3. live = active /\ undo.owner = j /\ file \in {active.config, inputs[j].config}
    BY <1>4, <2>1 DEF Uncommitted
  <2>4. undo.config = active.config
    BY <2>3 DEF Journal
  <2>5. file' = active.config
    BY <1>10, <2>3, <2>4 DEF UndoSave, ConfigChanged
  <2>6. Uncommitted(j)'
    BY <2>1, <2>2, <2>3, <2>5 DEF Uncommitted
  <2>7. Journal'
    BY <2>1, <2>3, <2>4 DEF Journal
  <2>8. QED
    BY <1>5, <2>1, <2>2, <2>6, <2>7 DEF Windows
<1>11. ASSUME NEW j \in Jobs, AbortLoad(j) \/ PublishLoad(j) PROVE Windows'
  <2>1. task[j] \in LockTasks /\ commitLock' = NoJob /\ UNCHANGED <<active, file>>
    BY <1>11 DEF AbortLoad, PublishLoad, LockTasks, durable
  <2>2. undo' = NoUndo /\ file = active.config /\ live' = active
    <3>1. CASE AbortLoad(j)
      <4>1. task[j] = "undone" /\ undo' = NoUndo /\ live' = live
        BY <3>1 DEF AbortLoad
      <4>2. QED
        BY <1>4, <2>1, <4>1 DEF Uncommitted
    <3>2. CASE PublishLoad(j)
      <4>1. task[j] = "publishing" /\ undo' = undo /\ live' = Planned(j)
        BY <3>2 DEF PublishLoad, durable, Planned
      <4>2. QED
        BY <1>4, <2>1, <4>1 DEF Committed, Planned
    <3>3. QED
      BY <1>11, <3>1, <3>2
  <2>3. Journal' /\ WriterWindow' /\ Idle'
    BY <2>1, <2>2 DEF Journal, WriterWindow, Idle, NoUndo
  <2>4. LoadWindow'
    BY <2>1 DEF LoadWindow, Held, Locking
  <2>5. QED
    BY <2>3, <2>4 DEF Windows
<1>12. ASSUME NEW w \in Writers, WriterReplacesFile(w) PROVE Windows'
  <2>1. /\ up /\ commitLock = NoJob /\ commitLock' = w /\ undo' = [owner |-> w, config |-> file]
        /\ file' = live.config \cup {w} /\ UNCHANGED <<active, live>>
    BY <1>12 DEF WriterReplacesFile
  <2>2. live = active /\ file = active.config
    BY <2>1 DEF Idle, Journal, NoUndo
  <2>3. Journal' /\ WriterWindow' /\ Idle'
    BY <2>1, <2>2 DEF Journal, WriterWindow, Idle
  <2>4. LoadWindow'
    BY <2>1 DEF LoadWindow, Held, Locking
  <2>5. QED
    BY <2>3, <2>4 DEF Windows
<1>13. ASSUME NEW w \in Writers, WriterCommits(w) \/ WriterRollsBack(w) PROVE Windows'
  <2>1. commitLock = w /\ commitLock' = NoJob /\ undo' = NoUndo
    BY <1>13 DEF WriterCommits, WriterRollsBack
  <2>2. undo.owner = w /\ file = live.config \cup {w} /\ live = active
    BY <2>1 DEF WriterWindow
  <2>3. undo.config = active.config
    BY <2>2 DEF Journal
  <2>4. live' = active' /\ file' = active'.config
    BY <1>13, <2>2, <2>3 DEF WriterCommits, WriterRollsBack
  <2>5. Journal' /\ WriterWindow' /\ Idle'
    BY <2>1, <2>4 DEF Journal, WriterWindow, Idle, NoUndo
  <2>6. LoadWindow'
    BY <2>1 DEF LoadWindow, Held, Locking
  <2>7. QED
    BY <2>5, <2>6 DEF Windows
<1>14. CASE Close
  <2>1. UNCHANGED <<active, file, undo, live, commitLock, up>> /\ \A j \in Jobs : task'[j] = "none"
    BY <1>14 DEF Close
  <2>2. QED
    BY <2>1 DEF Windows, Journal, LoadWindow, WriterWindow, Idle, LockTasks
<1>15. CASE Crash
  <2>1. /\ UNCHANGED <<active, file, undo>> /\ commitLock' = NoJob /\ ~up'
        /\ \A j \in Jobs : task'[j] = "none"
    BY <1>15 DEF Crash, durable
  <2>2. QED
    BY <2>1 DEF Windows, Journal, LoadWindow, WriterWindow, Idle, LockTasks
<1>16. CASE Restart
  <2>1. file' = active.config
    BY <1>16 DEF Restart, Journal
  <2>2. live' = active' /\ active' = active /\ undo' = NoUndo /\ commitLock' = NoJob
    BY <1>16, <2>1 DEF Restart, Held, Quiet
  <2>3. Journal' /\ WriterWindow' /\ Idle'
    BY <2>1, <2>2 DEF Journal, WriterWindow, Idle, NoUndo
  <2>4. LoadWindow'
    BY <2>2 DEF LoadWindow, Held, Locking
  <2>5. QED
    BY <2>3, <2>4 DEF Windows
<1>17. CASE UNCHANGED vars
    BY <1>17 DEF vars, Windows, Journal, LoadWindow, WriterWindow, Idle, Planned, Committed,
                 Uncommitted
<1>18. QED
    BY <1>1, <1>2, <1>3, <1>6, <1>7, <1>8, <1>9, <1>10, <1>11, <1>12, <1>13, <1>14, <1>15,
       <1>16, <1>17
    DEF Next, Coroutine, LoopStep, Writer

(* With nobody in the write window of _apply or of _commit, the live plan  *)
(* is the active one and the file holds its configuration: what save_config*)
(* wrote is kept with the transaction or put back without it.              *)
THEOREM PlanFileAgreement == Spec => []PlanAndFileAgree
<1>1. Windowed => PlanAndFileAgree
    BY DEF Windowed, Windows, Idle, Journal, PlanAndFileAgree, NoUndo
<1>2. QED
    BY <1>1, WindowedInit, WindowedStep, PTL DEF Spec

-----------------------------------------------------------------------------
(* The calls the worker owes.                                              *)

Answering == {"parsing", "computing", "analysing"}

LEMMA WaitingSteps ==
    /\ \A work : WaitsForWork(work) \in Answering
    /\ \A kind : WaitsForMessage(kind) \in Answering
BY DEF WaitsForWork, WaitsForMessage, Answering

LEMMA OutstandingSame ==
    ASSUME TypeOK, Outstanding, UNCHANGED <<executor, mailbox, closed>>,
           NEW j \in Jobs, task[j] \notin Answering,
           \A k \in Jobs \ {j} : task'[k] = task[k]
    PROVE  Outstanding'
<1> SUFFICES ASSUME ~closed PROVE Outstanding'
    BY DEF Outstanding
<1>1. executor \in Seq(WorkItems) /\ mailbox \in Seq(Messages)
    BY DEF TypeOK
<1>2. \A i \in DOMAIN executor : executor[i].job \in Jobs
    BY <1>1, WorkFields
<1>3. \A i \in DOMAIN mailbox : mailbox[i].job \in Jobs
    BY <1>1, MessageFields
<1>4. \A i \in DOMAIN executor : executor[i].job # j
    BY WaitingSteps DEF Outstanding
<1>5. \A i \in DOMAIN mailbox : Ends(mailbox[i]) => mailbox[i].job # j
    BY WaitingSteps DEF Outstanding
<1>6. QED
    BY <1>2, <1>3, <1>4, <1>5 DEF Outstanding

LEMMA OutstandingSubmitted ==
    ASSUME TypeOK, Outstanding, UNCHANGED <<mailbox, closed>>,
           NEW j \in Jobs, task[j] \notin Answering,
           NEW work \in {"parse", "calculate", "analytics"}, Submit(j, work),
           task'[j] = WaitsForWork(work), \A k \in Jobs \ {j} : task'[k] = task[k]
    PROVE  Outstanding'
<1> SUFFICES ASSUME ~closed PROVE Outstanding'
    BY DEF Outstanding
<1>1. executor \in Seq(WorkItems) /\ mailbox \in Seq(Messages)
    BY DEF TypeOK
<1>2. \A i \in DOMAIN executor : executor[i].job \in Jobs
    BY <1>1, WorkFields
<1>3. \A i \in DOMAIN mailbox : mailbox[i].job \in Jobs
    BY <1>1, MessageFields
<1>4. \A i \in DOMAIN executor : executor[i].job # j
    BY WaitingSteps DEF Outstanding
<1>5. \A i \in DOMAIN mailbox : Ends(mailbox[i]) => mailbox[i].job # j
    BY WaitingSteps DEF Outstanding
<1> DEFINE n == Len(executor) + 1
<1>6. /\ DOMAIN executor = 1..Len(executor) /\ Len(executor) \in Nat
      /\ DOMAIN executor' = 1..n
      /\ \A i \in DOMAIN executor : executor'[i] = executor[i]
      /\ executor'[n].job = j /\ executor'[n].work = work
    BY SubmitEffect
<1>7. \A i \in DOMAIN executor' : i # n => i \in DOMAIN executor
    BY <1>6
<1>8. \A i \in DOMAIN executor' : task'[executor'[i].job] = WaitsForWork(executor'[i].work)
    BY <1>2, <1>4, <1>6, <1>7 DEF Outstanding
<1>9. \A i, k \in DOMAIN executor' : executor'[i].job = executor'[k].job => i = k
    BY <1>4, <1>6, <1>7 DEF Outstanding
<1>10. \A i \in DOMAIN executor', k \in DOMAIN mailbox' :
         Ends(mailbox'[k]) => executor'[i].job # mailbox'[k].job
    BY <1>5, <1>6, <1>7 DEF Outstanding
<1>11. \A i \in DOMAIN mailbox' :
         Ends(mailbox'[i]) => task'[mailbox'[i].job] = WaitsForMessage(mailbox'[i].kind)
    BY <1>3, <1>5 DEF Outstanding
<1>12. \A i, k \in DOMAIN mailbox' :
         Ends(mailbox'[i]) /\ Ends(mailbox'[k]) /\ mailbox'[i].job = mailbox'[k].job => i = k
    BY DEF Outstanding
<1>13. QED
    BY <1>8, <1>9, <1>10, <1>11, <1>12 DEF Outstanding

(* The worker ends its call and posts the answer.                          *)
LEMMA OutstandingHandedOver ==
    ASSUME TypeOK, Outstanding, UNCHANGED <<task, closed>>, executor # <<>>,
           NEW kind \in {"parsed", "computed", "analysed"},
           NEW result \in Decisions \cup {"ok", "error", "cancelled"}, NEW config \in Contents,
           Finish(kind, result, config),
           WaitsForWork(executor[1].work) = WaitsForMessage(kind)
    PROVE  Outstanding'
<1> SUFFICES ASSUME ~closed PROVE Outstanding'
    BY DEF Outstanding
<1> DEFINE n == Len(mailbox) + 1
<1>1. /\ DOMAIN mailbox = 1..Len(mailbox) /\ Len(mailbox) \in Nat
      /\ DOMAIN mailbox' = 1..n
      /\ \A i \in DOMAIN mailbox : mailbox'[i] = mailbox[i]
      /\ mailbox'[n].job = executor[1].job /\ mailbox'[n].kind = kind
  <2>1. Post(kind, result, config)
    BY DEF Finish
  <2>2. kind \in {"started", "parsed", "computed", "analysed"}
    OBVIOUS
  <2>3. QED
    BY <2>1, <2>2, PostEffect
<1>2. /\ Len(executor) \in Nat \ {0}
      /\ DOMAIN executor = 1..Len(executor)
      /\ DOMAIN executor' = 1..(Len(executor) - 1)
      /\ \A i \in DOMAIN executor' : executor'[i] = executor[i + 1]
    BY FinishEffect
<1>3. \A i \in DOMAIN executor' : i + 1 \in DOMAIN executor /\ i + 1 # 1
    BY <1>2
<1>4. \A i \in DOMAIN mailbox' : i # n => i \in DOMAIN mailbox
    BY <1>1
<1>5. \A i \in DOMAIN executor' : executor'[i].job # executor[1].job
    BY <1>2, <1>3 DEF Outstanding
<1>6. \A i \in DOMAIN mailbox : Ends(mailbox[i]) => mailbox[i].job # executor[1].job
    BY <1>2 DEF Outstanding
<1>7. \A i \in DOMAIN executor' : task'[executor'[i].job] = WaitsForWork(executor'[i].work)
    BY <1>2, <1>3 DEF Outstanding
<1>8. \A i, k \in DOMAIN executor' : executor'[i].job = executor'[k].job => i = k
  <2>1. \A i, k \in DOMAIN executor' : executor[i + 1].job = executor[k + 1].job => i + 1 = k + 1
    BY <1>3 DEF Outstanding
  <2>2. \A i, k \in DOMAIN executor' : i + 1 = k + 1 => i = k
    BY <1>2
  <2>3. QED
    BY <1>2, <2>1, <2>2
<1>9. \A i \in DOMAIN executor', k \in DOMAIN mailbox' :
         Ends(mailbox'[k]) => executor'[i].job # mailbox'[k].job
    BY <1>1, <1>2, <1>3, <1>4, <1>5 DEF Outstanding
<1>10. \A i \in DOMAIN mailbox' :
         Ends(mailbox'[i]) => task'[mailbox'[i].job] = WaitsForMessage(mailbox'[i].kind)
    BY <1>1, <1>2, <1>4 DEF Outstanding
<1>11. \A i, k \in DOMAIN mailbox' :
         Ends(mailbox'[i]) /\ Ends(mailbox'[k]) /\ mailbox'[i].job = mailbox'[k].job => i = k
    BY <1>1, <1>4, <1>6 DEF Outstanding
<1>12. QED
    BY <1>7, <1>8, <1>9, <1>10, <1>11 DEF Outstanding

(* The worker goes on with its call.                                       *)
LEMMA OutstandingBegun ==
    ASSUME TypeOK, Outstanding, UNCHANGED <<task, closed>>, executor # <<>>,
           NEW config \in Contents, Begun(config),
           \/ UNCHANGED mailbox
           \/ Post("started", "ok", {})
    PROVE  Outstanding'
<1> SUFFICES ASSUME ~closed PROVE Outstanding'
    BY DEF Outstanding
<1>1. 1 \in DOMAIN executor /\ executor[1] \in WorkItems
    BY FirstWork
<1>2. /\ DOMAIN executor' = DOMAIN executor
      /\ executor'[1] = [executor[1] EXCEPT !.begun = TRUE, !.config = config]
      /\ \A i \in DOMAIN executor \ {1} : executor'[i] = executor[i]
    BY BegunEffect
<1>3. executor'[1].job = executor[1].job /\ executor'[1].work = executor[1].work
    BY <1>1, <1>2 DEF WorkItems
<1>4. \A i \in DOMAIN executor' : /\ i \in DOMAIN executor
                                  /\ executor'[i].job = executor[i].job
                                  /\ executor'[i].work = executor[i].work
    BY <1>2, <1>3
<1>5. \A i \in DOMAIN mailbox' : Ends(mailbox'[i]) => i \in DOMAIN mailbox /\ mailbox'[i] = mailbox[i]
  <2>1. CASE UNCHANGED mailbox
    BY <2>1
  <2>2. CASE Post("started", "ok", {})
    <3>1. {} \in Contents
      BY DEF Contents
    <3>2. "started" \in {"started", "parsed", "computed", "analysed"}
          /\ "ok" \in Decisions \cup {"ok", "error", "cancelled"}
      OBVIOUS
    <3>3. /\ DOMAIN mailbox = 1..Len(mailbox) /\ Len(mailbox) \in Nat
          /\ DOMAIN mailbox' = 1..(Len(mailbox) + 1)
          /\ \A i \in DOMAIN mailbox : mailbox'[i] = mailbox[i]
          /\ mailbox'[Len(mailbox) + 1].kind = "started"
      BY <2>2, <3>1, <3>2, PostEffect
    <3>4. QED
      BY <3>3 DEF Ends
  <2>3. QED
    BY <2>1, <2>2
<1>6. QED
    BY <1>4, <1>5 DEF Outstanding

(* The loop takes the first message: the end of a call, whose load has no  *)
(* other, or the news that a calculation began.                            *)
LEMMA OutstandingTaken ==
    ASSUME TypeOK, Outstanding, UNCHANGED <<executor, closed>>, ~closed,
           mailbox # <<>>, mailbox' = Tail(mailbox),
           \/ UNCHANGED task
           \/ /\ Ends(mailbox[1])
              /\ \A k \in Jobs \ {mailbox[1].job} : task'[k] = task[k]
    PROVE  Outstanding'
<1>1. /\ DOMAIN mailbox = 1..Len(mailbox) /\ Len(mailbox) \in Nat \ {0} /\ 1 \in DOMAIN mailbox
      /\ DOMAIN mailbox' = 1..(Len(mailbox) - 1)
      /\ \A i \in DOMAIN mailbox' : mailbox'[i] = mailbox[i + 1]
    BY FirstMessage
<1>2. \A i \in DOMAIN mailbox' : i + 1 \in DOMAIN mailbox /\ i + 1 # 1
    BY <1>1
<1>3. executor \in Seq(WorkItems) /\ mailbox \in Seq(Messages)
    BY DEF TypeOK
<1>4. \A i \in DOMAIN executor : executor[i].job \in Jobs
    BY <1>3, WorkFields
<1>5. \A i \in DOMAIN mailbox : mailbox[i].job \in Jobs
    BY <1>3, MessageFields
<1>6. \A i \in DOMAIN executor : task'[executor[i].job] = task[executor[i].job]
    BY <1>1, <1>4 DEF Outstanding
<1>7. \A i \in DOMAIN mailbox' : Ends(mailbox'[i]) => task'[mailbox'[i].job] = task[mailbox'[i].job]
    BY <1>1, <1>2, <1>5 DEF Outstanding
<1>8. \A i \in DOMAIN executor' : task'[executor'[i].job] = WaitsForWork(executor'[i].work)
    BY <1>6 DEF Outstanding
<1>9. \A i \in DOMAIN mailbox' :
         Ends(mailbox'[i]) => task'[mailbox'[i].job] = WaitsForMessage(mailbox'[i].kind)
    BY <1>1, <1>2, <1>7 DEF Outstanding
<1>10. \A i, k \in DOMAIN mailbox' :
         Ends(mailbox'[i]) /\ Ends(mailbox'[k]) /\ mailbox'[i].job = mailbox'[k].job => i = k
  <2>1. \A i, k \in DOMAIN mailbox :
          Ends(mailbox[i]) /\ Ends(mailbox[k]) /\ mailbox[i].job = mailbox[k].job => i = k
    BY DEF Outstanding
  <2>2. ASSUME NEW i \in DOMAIN mailbox', NEW k \in DOMAIN mailbox',
               Ends(mailbox'[i]), Ends(mailbox'[k]), mailbox'[i].job = mailbox'[k].job
        PROVE  i = k
    <3>1. /\ i + 1 \in DOMAIN mailbox /\ mailbox'[i] = mailbox[i + 1]
          /\ k + 1 \in DOMAIN mailbox /\ mailbox'[k] = mailbox[k + 1]
      BY <1>1, <1>2
    <3>2. i + 1 = k + 1
      BY <2>1, <2>2, <3>1
    <3>3. i \in Nat /\ k \in Nat
      BY <1>1
    <3>4. QED
      BY <3>2, <3>3
  <2>3. QED
    BY <2>2
<1>11. \A i \in DOMAIN executor', k \in DOMAIN mailbox' :
         Ends(mailbox'[k]) => executor'[i].job # mailbox'[k].job
    BY <1>1, <1>2 DEF Outstanding
<1>12. \A i, k \in DOMAIN executor' : executor'[i].job = executor'[k].job => i = k
    BY DEF Outstanding
<1>13. QED
    BY <1>8, <1>9, <1>10, <1>11, <1>12 DEF Outstanding

(* The loop takes the end of a calculation and asks for the analytics.     *)
LEMMA OutstandingTakenSubmitted ==
    ASSUME TypeOK, Outstanding, UNCHANGED closed, ~closed,
           mailbox # <<>>, mailbox' = Tail(mailbox), Ends(mailbox[1]),
           Submit(mailbox[1].job, "analytics"), task'[mailbox[1].job] = "analysing",
           \A k \in Jobs \ {mailbox[1].job} : task'[k] = task[k]
    PROVE  Outstanding'
<1> DEFINE j == mailbox[1].job
           n == Len(executor) + 1
<1>1. /\ DOMAIN mailbox = 1..Len(mailbox) /\ Len(mailbox) \in Nat \ {0} /\ 1 \in DOMAIN mailbox
      /\ DOMAIN mailbox' = 1..(Len(mailbox) - 1) /\ j \in Jobs
      /\ \A i \in DOMAIN mailbox' : mailbox'[i] = mailbox[i + 1]
    BY FirstMessage
<1>2. \A i \in DOMAIN mailbox' : i + 1 \in DOMAIN mailbox /\ i + 1 # 1
    BY <1>1
<1>3. /\ DOMAIN executor = 1..Len(executor) /\ Len(executor) \in Nat
      /\ DOMAIN executor' = 1..n
      /\ \A i \in DOMAIN executor : executor'[i] = executor[i]
      /\ executor'[n].job = j /\ executor'[n].work = "analytics"
    BY <1>1, SubmitEffect
<1>4. \A i \in DOMAIN executor' : i # n => i \in DOMAIN executor
    BY <1>3
<1>5. executor \in Seq(WorkItems) /\ mailbox \in Seq(Messages)
    BY DEF TypeOK
<1>6. \A i \in DOMAIN executor : executor[i].job \in Jobs
    BY <1>5, WorkFields
<1>7. \A i \in DOMAIN mailbox : mailbox[i].job \in Jobs
    BY <1>5, MessageFields
<1>8. \A i \in DOMAIN executor : executor[i].job # j
    BY <1>1 DEF Outstanding
<1>9. \A i \in DOMAIN mailbox : Ends(mailbox[i]) /\ i # 1 => mailbox[i].job # j
    BY <1>1 DEF Outstanding
<1>10. \A i \in DOMAIN executor' : task'[executor'[i].job] = WaitsForWork(executor'[i].work)
  <2>1. task'[executor'[n].job] = WaitsForWork(executor'[n].work)
    BY <1>3 DEF WaitsForWork
  <2>2. \A i \in DOMAIN executor : task'[executor'[i].job] = WaitsForWork(executor'[i].work)
    BY <1>3, <1>6, <1>8 DEF Outstanding
  <2>3. QED
    BY <1>4, <2>1, <2>2
<1>11. \A i \in DOMAIN mailbox' :
         Ends(mailbox'[i]) => task'[mailbox'[i].job] = WaitsForMessage(mailbox'[i].kind)
    BY <1>1, <1>2, <1>7, <1>9 DEF Outstanding
<1>12. \A i, k \in DOMAIN executor' : executor'[i].job = executor'[k].job => i = k
    BY <1>3, <1>4, <1>8 DEF Outstanding
<1>13. \A i, k \in DOMAIN mailbox' :
         Ends(mailbox'[i]) /\ Ends(mailbox'[k]) /\ mailbox'[i].job = mailbox'[k].job => i = k
  <2>1. \A i, k \in DOMAIN mailbox :
          Ends(mailbox[i]) /\ Ends(mailbox[k]) /\ mailbox[i].job = mailbox[k].job => i = k
    BY DEF Outstanding
  <2>2. ASSUME NEW i \in DOMAIN mailbox', NEW k \in DOMAIN mailbox',
               Ends(mailbox'[i]), Ends(mailbox'[k]), mailbox'[i].job = mailbox'[k].job
        PROVE  i = k
    <3>1. /\ i + 1 \in DOMAIN mailbox /\ mailbox'[i] = mailbox[i + 1]
          /\ k + 1 \in DOMAIN mailbox /\ mailbox'[k] = mailbox[k + 1]
      BY <1>1, <1>2
    <3>2. i + 1 = k + 1
      BY <2>1, <2>2, <3>1
    <3>3. i \in Nat /\ k \in Nat
      BY <1>1
    <3>4. QED
      BY <3>2, <3>3
  <2>3. QED
    BY <2>2
<1>14. \A i \in DOMAIN executor', k \in DOMAIN mailbox' :
         Ends(mailbox'[k]) => executor'[i].job # mailbox'[k].job
    BY <1>1, <1>2, <1>3, <1>4, <1>9 DEF Outstanding
<1>15. QED
    BY <1>10, <1>11, <1>12, <1>13, <1>14 DEF Outstanding

(* A load that waits for its client has no coroutine, and every call of    *)
(* the worker one that waits for it.                                       *)
Queued == TypeOK /\ Waiting /\ Outstanding

LEMMA QueuedInit == Init => Queued
BY TypedInit DEF Queued, Init, Waiting, Outstanding

LEMMA WaitingSame ==
    ASSUME Waiting, UNCHANGED status, \A k \in Jobs : task'[k] = "none" \/ task[k] # "none"
    PROVE  Waiting'
BY DEF Waiting

LEMMA WaitingMoved ==
    ASSUME TypeOK, Waiting, NEW j \in Jobs,
           \/ task'[j] = "none"
           \/ status'[j] \notin {"none", "prepared", "awaiting_approval"},
           \A k \in Jobs \ {j} : task'[k] = task[k] /\ status'[k] = status[k]
    PROVE  Waiting'
BY DEF Waiting

LEMMA QueuedStep == Queued /\ [Next]_vars => Queued'
<1> SUFFICES ASSUME Queued, [Next]_vars PROVE Waiting' /\ Outstanding'
    BY TypedStep DEF Queued
<1>0. TypeOK /\ Waiting /\ Outstanding
    BY DEF Queued
<1> USE <1>0
<1>1. ASSUME NEW j \in Jobs, Start(j) PROVE Waiting' /\ Outstanding'
  <2>1. task'[j] = "prepare" /\ \A k \in Jobs \ {j} : task'[k] = task[k]
    BY <1>1, GoEffect DEF Start, Tasks
  <2>2. /\ status'[j] = "preparing" /\ \A k \in Jobs \ {j} : status'[k] = status[k]
        /\ task[j] = "none" /\ UNCHANGED <<executor, mailbox, closed>>
    BY <1>1 DEF Start, TypeOK, Waiting, worker
  <2>3. Waiting'
    BY <2>1, <2>2, WaitingMoved
  <2>4. Outstanding'
    BY <2>1, <2>2, OutstandingSame DEF Answering
  <2>5. QED
    BY <2>3, <2>4
<1>2. ASSUME NEW j \in Jobs, PrepareTask(j) \/ CalculateTask(j) \/ ApplyTask(j)
      PROVE Waiting' /\ Outstanding'
  <2>1. /\ task[j] \notin Answering /\ task[j] # "none"
        /\ UNCHANGED <<status, closed, mailbox>>
    BY <1>2 DEF PrepareTask, CalculateTask, ApplyTask, Answering, durable
  <2>2. CASE Leave(j) /\ UNCHANGED executor
    <3>1. task'[j] = "none" /\ \A k \in Jobs \ {j} : task'[k] = task[k]
      BY <2>2, LeaveEffect
    <3>2. QED
      BY <2>1, <2>2, <3>1, WaitingSame, OutstandingSame
  <2>3. ASSUME NEW work \in {"parse", "calculate", "analytics"},
               Submit(j, work), Go(j, WaitsForWork(work))
        PROVE  Waiting' /\ Outstanding'
    <3>1. task'[j] = WaitsForWork(work) /\ \A k \in Jobs \ {j} : task'[k] = task[k]
      BY <2>3, GoEffect DEF WaitsForWork, Tasks
    <3>2. QED
      BY <2>1, <2>3, <3>1, WaitingSame, OutstandingSubmitted
  <2>4. \/ Leave(j) /\ UNCHANGED executor
        \/ \E work \in {"parse", "calculate", "analytics"} :
             Submit(j, work) /\ Go(j, WaitsForWork(work))
    BY <1>2 DEF PrepareTask, CalculateTask, ApplyTask, WaitsForWork
  <2>5. QED
    BY <2>2, <2>3, <2>4
<1>3. ASSUME NEW j \in Jobs, Confirm(j) \/ Approve(j) PROVE Waiting' /\ Outstanding'
  <2>1. task[j] = "none" /\ UNCHANGED <<executor, mailbox, closed>>
    BY <1>3 DEF Confirm, Approve, Waiting, worker
  <2>2. /\ Leave(j) \/ \E step \in {"calculate", "apply"} : Go(j, step)
        /\ \E s \in {"queued", "running", "stale"} : Update(j, s)
    BY <1>3 DEF Confirm, Confirmed, Approve
  <2>3. \A k \in Jobs \ {j} : task'[k] = task[k]
    BY <2>2, GoEffect, LeaveEffect DEF Tasks
  <2>4. /\ status'[j] \notin {"none", "prepared", "awaiting_approval"}
        /\ \A k \in Jobs \ {j} : status'[k] = status[k]
    BY <2>2, UpdateEffect DEF Statuses, Terminal
  <2>5. QED
    BY <2>1, <2>3, <2>4, WaitingMoved, OutstandingSame DEF Answering
<1>4. ASSUME NEW j \in Jobs, Cancel(j) PROVE Waiting' /\ Outstanding'
  <2>1. UNCHANGED <<executor, mailbox, closed, task>> /\ Update(j, "cancelled")
    BY <1>4 DEF Cancel, worker
  <2>2. status'[j] = "cancelled" /\ \A k \in Jobs \ {j} : status'[k] = status[k]
    BY <2>1, UpdateEffect DEF Statuses, Terminal
  <2>3. Waiting'
    BY <2>1, <2>2, WaitingMoved
  <2>4. Outstanding'
    BY <2>1 DEF Outstanding
  <2>5. QED
    BY <2>3, <2>4
<1>5. ASSUME NEW j \in Jobs, ApplyRefused(j) PROVE Waiting' /\ Outstanding'
  <2>1. /\ task[j] = "applying" /\ UNCHANGED <<executor, mailbox, closed>> /\ Leave(j)
        /\ Keep \/ Update(j, "stale")
    BY <1>5 DEF ApplyRefused, worker
  <2>2. task'[j] = "none" /\ \A k \in Jobs \ {j} : task'[k] = task[k]
    BY <2>1, LeaveEffect
  <2>3. \A k \in Jobs \ {j} : status'[k] = status[k]
    BY <2>1, UpdateEffect DEF Keep, Statuses, Terminal
  <2>4. QED
    BY <2>1, <2>2, <2>3, WaitingMoved, OutstandingSame DEF Answering
<1>6. ASSUME ParseReads PROVE Waiting' /\ Outstanding'
  <2>1. executor # <<>> /\ UNCHANGED <<status, closed, task, mailbox>> /\ Begun(file)
    BY <1>6 DEF ParseReads, Working, durable, manager
  <2>2. file \in Contents
    BY DEF TypeOK
  <2>3. QED
    BY <2>1, <2>2, WaitingSame, OutstandingBegun
<1>7. ASSUME NEW kind \in {"parsed", "computed", "analysed"},
             NEW result \in Decisions \cup {"ok", "error", "cancelled"}, NEW config \in Contents,
             executor # <<>>, Finish(kind, result, config), UNCHANGED <<durable, manager>>,
             WaitsForWork(executor[1].work) = WaitsForMessage(kind)
      PROVE  Waiting' /\ Outstanding'
  <2>1. UNCHANGED <<status, closed, task>>
    BY <1>7 DEF durable, manager
  <2>2. QED
    BY <1>7, <2>1, WaitingSame, OutstandingHandedOver
<1>8. ASSUME ParseEnds PROVE Waiting' /\ Outstanding'
  <2>1. /\ executor # <<>> /\ UNCHANGED <<durable, manager>>
        /\ Head(executor).work = "parse"
    BY <1>8 DEF ParseEnds, Working
  <2>2. /\ executor[1].work = "parse" /\ executor[1].config \in Contents
        /\ executor[1].job \in Jobs /\ Head(executor) = executor[1]
    BY <2>1, FirstWork
  <2>3. {} \in Contents /\ executor[1].config \cup {executor[1].job} \in Contents
    BY <2>2 DEF Contents
  <2>4. \E result \in Decisions \cup {"ok", "error", "cancelled"}, config \in Contents :
           Finish("parsed", result, config)
    BY <1>8, <2>2, <2>3 DEF ParseEnds
  <2>5. WaitsForWork(executor[1].work) = WaitsForMessage("parsed")
    BY <2>2 DEF WaitsForWork, WaitsForMessage
  <2>6. QED
    BY <1>7, <2>1, <2>4, <2>5
<1>9. ASSUME CalculationStarts \/ CalculationEnds PROVE Waiting' /\ Outstanding'
  <2>1. /\ executor # <<>> /\ UNCHANGED <<durable, manager>>
        /\ Head(executor).work = "calculate"
    BY <1>9 DEF CalculationStarts, CalculationEnds, Working
  <2>2. executor[1].work = "calculate" /\ {} \in Contents
    BY <2>1, FirstWork DEF Contents
  <2>3. \/ Post("started", "ok", {}) /\ Begun({})
        \/ \E result \in Decisions \cup {"ok", "error", "cancelled"} :
             Finish("computed", result, {})
    BY <1>9 DEF CalculationStarts, CalculationEnds
  <2>4. WaitsForWork(executor[1].work) = WaitsForMessage("computed")
    BY <2>2 DEF WaitsForWork, WaitsForMessage
  <2>5. CASE Post("started", "ok", {}) /\ Begun({})
    BY <2>1, <2>2, <2>5, WaitingSame, OutstandingBegun DEF durable, manager
  <2>6. QED
    BY <1>7, <2>1, <2>2, <2>3, <2>4, <2>5
<1>10. ASSUME AnalyticsEnds PROVE Waiting' /\ Outstanding'
  <2>1. /\ executor # <<>> /\ UNCHANGED <<durable, manager>>
        /\ Head(executor).work = "analytics"
    BY <1>10 DEF AnalyticsEnds, Working
  <2>2. executor[1].work = "analytics" /\ {} \in Contents
    BY <2>1, FirstWork DEF Contents
  <2>3. \E result \in Decisions \cup {"ok", "error", "cancelled"} : Finish("analysed", result, {})
    BY <1>10 DEF AnalyticsEnds
  <2>4. WaitsForWork(executor[1].work) = WaitsForMessage("analysed")
    BY <2>2 DEF WaitsForWork, WaitsForMessage
  <2>5. QED
    BY <1>7, <2>1, <2>2, <2>3, <2>4
<1>11. ASSUME NEW kind, Message(kind), mailbox' = Tail(mailbox)
       PROVE  /\ mailbox # <<>> /\ ~closed /\ Head(mailbox) = mailbox[1]
              /\ mailbox[1].job \in Jobs /\ mailbox[1].kind = kind
              /\ kind # "started" => /\ Ends(mailbox[1])
                                     /\ task[mailbox[1].job] = WaitsForMessage(kind)
  <2>1. mailbox # <<>> /\ ~closed /\ Head(mailbox).kind = kind
    BY <1>11 DEF Message, LoopFree
  <2>2. /\ Head(mailbox) = mailbox[1] /\ mailbox[1].job \in Jobs /\ 1 \in DOMAIN mailbox
    BY <2>1, FirstMessage
  <2>3. QED
    BY <2>1, <2>2 DEF Outstanding, Ends
<1>12. ASSUME WorkerStarted PROVE Waiting' /\ Outstanding'
  <2> DEFINE j == mailbox[1].job
  <2>1. /\ mailbox # <<>> /\ ~closed /\ j \in Jobs /\ Head(mailbox).job = j
        /\ mailbox' = Tail(mailbox) /\ UNCHANGED <<executor, closed, task>>
    BY <1>11, <1>12 DEF WorkerStarted
  <2>2. Keep \/ Update(j, "running")
    BY <1>12, <2>1 DEF WorkerStarted
  <2>3. CASE Keep
    BY <2>1, <2>3, WaitingSame, OutstandingTaken DEF Keep
  <2>4. CASE Update(j, "running")
    <3>1. status'[j] = "running" /\ \A k \in Jobs \ {j} : status'[k] = status[k]
      BY <2>1, <2>4, UpdateEffect DEF Statuses
    <3>2. Waiting'
      BY <2>1, <3>1, WaitingMoved
    <3>3. QED
      BY <2>1, <3>2, OutstandingTaken
  <2>5. QED
    BY <2>2, <2>3, <2>4
<1>13. ASSUME NEW j \in Jobs, Keep \/ FailJob(j) \/ \E s \in Statuses : Update(j, s)
       PROVE  \A k \in Jobs \ {j} : status'[k] = status[k]
  <2>1. CASE Keep
    BY <2>1 DEF Keep
  <2>2. CASE \E s \in Statuses : Update(j, s)
    BY <2>2, UpdateEffect
  <2>3. CASE FailJob(j)
    BY <2>1, <2>2, <2>3 DEF FailJob, Statuses, Terminal
  <2>4. QED
    BY <1>13, <2>1, <2>2, <2>3
<1>14. ASSUME Parsed \/ Analysed PROVE Waiting' /\ Outstanding'
  <2> DEFINE j == mailbox[1].job
  <2>1. /\ mailbox # <<>> /\ ~closed /\ j \in Jobs /\ Head(mailbox) = mailbox[1]
        /\ Ends(mailbox[1]) /\ task[j] # "none"
        /\ mailbox' = Tail(mailbox) /\ UNCHANGED <<executor, closed>>
    BY <1>11, <1>14 DEF Parsed, Analysed, WaitsForMessage
  <2>2. /\ Keep \/ FailJob(j) \/ \E s \in Statuses : Update(j, s)
        /\ \/ Leave(j)
           \/ Go(j, "none")
           \/ Go(j, "applying") /\ Keep
           \/ Go(j, "calculate") /\ Update(j, "queued")
    BY <1>14, <2>1 DEF Parsed, Analysed, Statuses, Terminal
  <2>3. \A k \in Jobs \ {j} : task'[k] = task[k] /\ status'[k] = status[k]
    BY <1>13, <2>1, <2>2, GoEffect, LeaveEffect DEF Tasks
  <2>4. Outstanding'
    BY <2>1, <2>3, OutstandingTaken
  <2>5. CASE Leave(j) \/ Go(j, "none")
    <3>1. task'[j] = "none"
      BY <2>1, <2>5, GoEffect, LeaveEffect DEF Tasks
    <3>2. QED
      BY <2>1, <2>3, <2>4, <3>1, WaitingMoved
  <2>6. CASE Go(j, "applying") /\ Keep
    BY <2>1, <2>3, <2>4, <2>6, WaitingSame DEF Keep
  <2>7. CASE Go(j, "calculate") /\ Update(j, "queued")
    <3>1. status'[j] = "queued"
      BY <2>1, <2>7, UpdateEffect DEF Statuses
    <3>2. QED
      BY <2>1, <2>3, <2>4, <3>1, WaitingMoved
  <2>8. QED
    BY <2>2, <2>5, <2>6, <2>7
<1>15. ASSUME Computed PROVE Waiting' /\ Outstanding'
  <2> DEFINE j == mailbox[1].job
  <2>1. /\ mailbox # <<>> /\ ~closed /\ j \in Jobs /\ Head(mailbox) = mailbox[1]
        /\ Ends(mailbox[1]) /\ task[j] # "none"
        /\ mailbox' = Tail(mailbox) /\ UNCHANGED <<closed>>
    BY <1>11, <1>15 DEF Computed, WaitsForMessage
  <2>2. /\ Keep \/ FailJob(j) \/ \E s \in Statuses : Update(j, s)
        /\ \/ (Leave(j) \/ Go(j, "none")) /\ UNCHANGED executor
           \/ Go(j, "analysing") /\ Submit(j, "analytics") /\ UNCHANGED status
    BY <1>15, <2>1 DEF Computed, Decide, Keep, Statuses, Terminal
  <2>3. \A k \in Jobs \ {j} : task'[k] = task[k] /\ status'[k] = status[k]
    BY <1>13, <2>1, <2>2, GoEffect, LeaveEffect DEF Tasks
  <2>4. CASE (Leave(j) \/ Go(j, "none")) /\ UNCHANGED executor
    <3>1. task'[j] = "none"
      BY <2>1, <2>4, GoEffect, LeaveEffect DEF Tasks
    <3>2. QED
      BY <2>1, <2>3, <2>4, <3>1, WaitingMoved, OutstandingTaken
  <2>5. CASE Go(j, "analysing") /\ Submit(j, "analytics") /\ UNCHANGED status
    <3>1. task'[j] = "analysing"
      BY <2>1, <2>5, GoEffect DEF Tasks
    <3>2. Waiting'
      BY <2>1, <2>3, <2>5, WaitingSame
    <3>3. Outstanding'
      BY <2>1, <2>3, <2>5, <3>1, OutstandingTakenSubmitted
    <3>4. QED
      BY <3>2, <3>3
  <2>6. QED
    BY <2>2, <2>4, <2>5
<1>16. ASSUME NEW j \in Jobs,
              \/ ApplyBegins(j) \/ SaveConfig(j) \/ SaveFails(j) \/ RecognizeLoad(j)
              \/ UndoSave(j) \/ CommitLoad(j) \/ AbortLoad(j) \/ PublishLoad(j)
       PROVE  Waiting' /\ Outstanding'
  <2>1. /\ task[j] \notin Answering /\ task[j] # "none"
        /\ UNCHANGED <<executor, mailbox, closed>>
    BY <1>16 DEF ApplyBegins, SaveConfig, SaveFails, RecognizeLoad, UndoSave, CommitLoad, AbortLoad,
                 PublishLoad, Answering, worker
  <2>2. Leave(j) \/ \E step \in LockTasks : Go(j, step)
    BY <1>16 DEF ApplyBegins, SaveConfig, SaveFails, RecognizeLoad, UndoSave, CommitLoad, AbortLoad,
                 PublishLoad, LockTasks
  <2>3. \A k \in Jobs \ {j} : task'[k] = task[k]
    BY <2>2, GoEffect, LeaveEffect DEF LockTasks, Tasks
  <2>4. \/ UNCHANGED status
        \/ CommitLoad(j)
        \/ FailJob(j) /\ Leave(j)
    BY <1>16 DEF ApplyBegins, SaveConfig, SaveFails, RecognizeLoad, UndoSave, AbortLoad,
                 PublishLoad, durable
  <2>5. Outstanding'
    BY <2>1, <2>3, OutstandingSame
  <2>6. CASE UNCHANGED status
    BY <2>1, <2>3, <2>5, <2>6, WaitingSame
  <2>7. CASE CommitLoad(j)
    <3>1. status'[j] = "applied" /\ \A k \in Jobs \ {j} : status'[k] = status[k]
      BY <2>7 DEF CommitLoad, TypeOK
    <3>2. QED
      BY <2>3, <2>5, <3>1, WaitingMoved
  <2>8. CASE FailJob(j) /\ Leave(j)
    <3>1. task'[j] = "none" /\ \A k \in Jobs \ {j} : status'[k] = status[k]
      BY <1>13, <2>8, LeaveEffect
    <3>2. QED
      BY <2>3, <2>5, <3>1, WaitingMoved
  <2>9. QED
    BY <2>4, <2>6, <2>7, <2>8
<1>17. ASSUME NEW w \in Writers, Writer(w) PROVE Waiting' /\ Outstanding'
    BY <1>17 DEF Writer, WriterReplacesFile, WriterCommits, WriterRollsBack, manager, worker,
                 Waiting, Outstanding
<1>18. CASE Close
    BY <1>18 DEF Close, Waiting, Outstanding
<1>19. CASE Crash
    BY <1>19 DEF Crash, Waiting, Outstanding
<1>20. CASE Restart
  <2>1. UNCHANGED <<closed, task, executor, mailbox>>
    BY <1>20 DEF Restart, manager, worker
  <2>2. \A j \in Jobs : status'[j] \in {"none", "prepared", "awaiting_approval"} =>
                          status'[j] = status[j]
    BY <1>20 DEF Restart
  <2>3. QED
    BY <2>1, <2>2 DEF Waiting, Outstanding
<1>21. CASE UNCHANGED vars
    BY <1>21 DEF vars, Waiting, Outstanding
<1>22. QED
    BY <1>1, <1>2, <1>3, <1>4, <1>5, <1>6, <1>8, <1>9, <1>10, <1>12, <1>14, <1>15, <1>16, <1>17,
       <1>18, <1>19, <1>20, <1>21
    DEF Next, Client, Coroutine, Worker, Deliver

-----------------------------------------------------------------------------
(* The configuration of a load.                                            *)

Whole == Windowed /\ Queued /\ Grounded /\ Kept

LEMMA WholeInit == Init => Whole
<1> SUFFICES ASSUME Init PROVE Grounded /\ Kept
    BY WindowedInit, QueuedInit DEF Whole
<1>1. \A j \in Jobs : inputs[j] = NoInputs
    BY DEF Init
<1>2. NoInputs.origin.config = {}
    BY NoInputsType
<1>3. QED
    BY <1>1, <1>2 DEF Init, Grounded, Kept, Filled

LEMMA GroundedSame ==
    ASSUME Grounded,
           up' => live'.config \subseteq file',
           \/ live.config \subseteq live'.config
           \/ \A j \in Jobs : inputs'[j] = NoInputs,
           \A j \in Jobs :
             \/ inputs'[j] = NoInputs
             \/ /\ inputs'[j].origin = inputs[j].origin /\ inputs'[j].config = inputs[j].config
                /\ task[j] \in {"prepare", "parsing"} => task'[j] \in {"prepare", "parsing"},
           TypeOK',
           \A i \in DOMAIN executor' :
             \/ ~(executor'[i].work = "parse" /\ executor'[i].begun)
             \/ \E k \in DOMAIN executor : executor'[i] = executor[k],
           \A i \in DOMAIN mailbox' :
             \/ mailbox'[i].kind # "parsed"
             \/ \E k \in DOMAIN mailbox : mailbox'[i] = mailbox[k]
    PROVE  Grounded'
<1>1. NoInputs.origin.config = {}
    BY NoInputsType
<1>2. \A j \in Jobs : inputs'[j].origin.config \subseteq live'.config
    BY <1>1 DEF Grounded
<1>3. \A j \in Jobs : ~Filled(j)' => task'[j] \in {"prepare", "parsing"}
    BY <1>1 DEF Grounded, Filled
<1>4. \A j \in Jobs : inputs'[j].origin.config \subseteq inputs[j].origin.config
    BY <1>1
<1>5. \A i \in DOMAIN executor' : executor'[i].job \in Jobs
    BY WorkFields DEF TypeOK
<1>6. \A i \in DOMAIN mailbox' : mailbox'[i].job \in Jobs
    BY MessageFields DEF TypeOK
<1>7. \A i \in DOMAIN executor' :
          executor'[i].work = "parse" /\ executor'[i].begun =>
            inputs'[executor'[i].job].origin.config \subseteq executor'[i].config
  <2>1. SUFFICES ASSUME NEW i \in DOMAIN executor', executor'[i].work = "parse", executor'[i].begun
                 PROVE  inputs'[executor'[i].job].origin.config \subseteq executor'[i].config
      OBVIOUS
  <2>2. PICK k \in DOMAIN executor : executor'[i] = executor[k]
    BY <2>1
  <2>3. inputs[executor[k].job].origin.config \subseteq executor[k].config
    BY <2>1, <2>2 DEF Grounded
  <2>4. QED
    BY <1>4, <1>5, <2>2, <2>3
<1>8. \A i \in DOMAIN mailbox' :
          mailbox'[i].kind = "parsed" /\ mailbox'[i].result = "ok" =>
            inputs'[mailbox'[i].job].origin.config \subseteq mailbox'[i].config
  <2>1. SUFFICES ASSUME NEW i \in DOMAIN mailbox',
                        mailbox'[i].kind = "parsed", mailbox'[i].result = "ok"
                 PROVE  inputs'[mailbox'[i].job].origin.config \subseteq mailbox'[i].config
      OBVIOUS
  <2>2. PICK k \in DOMAIN mailbox : mailbox'[i] = mailbox[k]
    BY <2>1
  <2>3. inputs[mailbox[k].job].origin.config \subseteq mailbox[k].config
    BY <2>1, <2>2 DEF Grounded
  <2>4. QED
    BY <1>4, <1>6, <2>2, <2>3
<1>9. QED
    BY <1>2, <1>3, <1>7, <1>8 DEF Grounded

LEMMA WholeStep == Whole /\ [Next]_vars => Whole'
<1> SUFFICES ASSUME Whole, [Next]_vars PROVE Grounded' /\ Kept'
    BY WindowedStep, QueuedStep DEF Whole
<1>0. /\ TypeOK /\ TypeOK' /\ Held /\ Waiting /\ Outstanding /\ Grounded /\ Kept
      /\ Journal /\ LoadWindow /\ WriterWindow /\ Idle /\ Quiet
    BY WindowedStep DEF Whole, Windowed, Windows, Held, Queued
<1> USE <1>0
<1>1. ASSUME LoopFree, UNCHANGED <<plans, active, file, live, up>>
      PROVE  Kept' /\ (up' => live'.config \subseteq file') /\ live.config \subseteq live'.config
    BY <1>1 DEF Kept, Grounded
<1>2. ASSUME NEW j \in Jobs, Start(j) PROVE Grounded' /\ Kept'
  <2>1. PICK auto \in BOOLEAN, approval \in Approvals :
           inputs' = [inputs EXCEPT ![j] =
                [NoInputs EXCEPT !.origin = Origin, !.auto = auto, !.approval = approval]]
    BY <1>2 DEF Start
  <2> DEFINE x == [NoInputs EXCEPT !.origin = Origin, !.auto = auto, !.approval = approval]
  <2>2. inputs'[j].origin = Origin /\ \A k \in Jobs \ {j} : inputs'[k] = inputs[k]
    <3>1. x.origin = Origin
      BY DEF NoInputs
    <3>2. inputs'[j] = x
      BY <2>1 DEF TypeOK
    <3>3. QED
      BY <2>1, <3>1, <3>2 DEF TypeOK
  <2>3. /\ LoopFree /\ task[j] = "none" /\ ~closed
        /\ UNCHANGED <<plans, active, file, live, up, executor, mailbox>>
    BY <1>2 DEF Start, Waiting, worker, LoopFree
  <2>4. inputs'[j].origin.config = live.config
    BY <2>2 DEF Origin
  <2>5. task'[j] = "prepare" /\ \A k \in Jobs \ {j} : task'[k] = task[k]
    BY <1>2, GoEffect DEF Start, Tasks
  <2>6. \A i \in DOMAIN executor : executor[i].job \in Jobs \ {j}
    BY <2>3, WaitingSteps, WorkFields DEF Outstanding, TypeOK, Answering
  <2>7. \A i \in DOMAIN mailbox : mailbox[i].kind = "parsed" => mailbox[i].job \in Jobs \ {j}
    BY <2>3, WaitingSteps, MessageFields DEF Outstanding, TypeOK, Answering, Ends
  <2>8. \A k \in Jobs : inputs'[k].origin.config \subseteq live'.config
    BY <2>2, <2>3, <2>4 DEF Grounded
  <2>9. \A k \in Jobs : ~Filled(k)' => task'[k] \in {"prepare", "parsing"}
    BY <2>2, <2>5 DEF Grounded, Filled
  <2>10. Grounded'
    BY <1>1, <2>2, <2>3, <2>6, <2>7, <2>8, <2>9 DEF Grounded
  <2>11. QED
    BY <1>1, <2>3, <2>10
<1>3. ASSUME NEW j \in Jobs, PrepareTask(j) \/ CalculateTask(j) \/ ApplyTask(j)
      PROVE Grounded' /\ Kept'
  <2>1. LoopFree /\ UNCHANGED <<plans, active, file, live, up, mailbox>>
    BY <1>3 DEF PrepareTask, CalculateTask, ApplyTask, durable
  <2>2. CASE Leave(j) /\ UNCHANGED executor
    <3>1. inputs'[j] = NoInputs /\ \A k \in Jobs \ {j} : inputs'[k] = inputs[k] /\ task'[k] = task[k]
      BY <2>2, LeaveEffect
    <3>2. QED
      BY <1>1, <2>1, <2>2, <3>1, GroundedSame
  <2>3. CASE /\ \E work \in {"parse", "calculate", "analytics"} : Submit(j, work)
             /\ UNCHANGED inputs
             /\ \E step \in {"parsing", "computing", "analysing"} : Go(j, step)
             /\ task[j] \in {"prepare", "parsing"} => Go(j, "parsing")
    <3>1. \A k \in Jobs \ {j} : task'[k] = task[k]
      BY <2>3, GoEffect DEF Tasks
    <3>2. task[j] \in {"prepare", "parsing"} => task'[j] \in {"prepare", "parsing"}
      BY <2>3, GoEffect DEF Tasks
    <3>3. \A i \in DOMAIN executor' :
             \/ ~(executor'[i].work = "parse" /\ executor'[i].begun)
             \/ \E k \in DOMAIN executor : executor'[i] = executor[k]
      <4>1. /\ DOMAIN executor = 1..Len(executor) /\ Len(executor) \in Nat
            /\ DOMAIN executor' = 1..(Len(executor) + 1)
            /\ \A i \in DOMAIN executor : executor'[i] = executor[i]
            /\ executor'[Len(executor) + 1].begun = FALSE
        BY <2>3, SubmitEffect
      <4>2. ASSUME NEW i \in DOMAIN executor', i \notin DOMAIN executor
            PROVE  ~executor'[i].begun
        <5>1. i = Len(executor) + 1
          BY <4>1, <4>2
        <5>2. QED
          BY <4>1, <5>1
      <4>3. QED
        BY <4>1, <4>2
    <3>4. QED
      BY <1>1, <2>1, <2>3, <3>1, <3>2, <3>3, GroundedSame
  <2>4. QED
    BY <1>3, <2>2, <2>3 DEF PrepareTask, CalculateTask, ApplyTask
<1>4. ASSUME NEW j \in Jobs, Confirm(j) \/ Approve(j) \/ Cancel(j) \/ ApplyRefused(j)
      PROVE Grounded' /\ Kept'
  <2>1. LoopFree /\ UNCHANGED <<plans, active, file, live, up, executor, mailbox>>
    BY <1>4 DEF Confirm, Approve, Cancel, ApplyRefused, worker
  <2>2. \/ Leave(j)
        \/ task[j] = "none" /\ Go(j, "calculate") /\ UNCHANGED inputs
        \/ task[j] = "none" /\ Go(j, "apply") /\ inputs' = [inputs EXCEPT ![j].approval = "granted"]
        \/ UNCHANGED task /\ inputs' = [inputs EXCEPT ![j] = NoInputs]
        \/ UNCHANGED task /\ inputs' = [inputs EXCEPT ![j].cancel = TRUE]
    BY <1>4 DEF Confirm, Confirmed, Approve, Cancel, ApplyRefused, Waiting
  <2>3. \A k \in Jobs :
             \/ inputs'[k] = NoInputs
             \/ /\ inputs'[k].origin = inputs[k].origin /\ inputs'[k].config = inputs[k].config
                /\ task[k] \in {"prepare", "parsing"} => task'[k] \in {"prepare", "parsing"}
    <3>1. CASE Leave(j)
      BY <3>1, LeaveEffect
    <3>2. CASE task[j] = "none" /\ Go(j, "calculate") /\ UNCHANGED inputs
      BY <3>2, GoEffect DEF Tasks
    <3>3. CASE task[j] = "none" /\ Go(j, "apply") /\ inputs' = [inputs EXCEPT ![j].approval = "granted"]
      <4>1. /\ inputs'[j] = [inputs[j] EXCEPT !.approval = "granted"]
            /\ \A k \in Jobs \ {j} : inputs'[k] = inputs[k]
        BY <3>3 DEF TypeOK
      <4>2. inputs'[j].origin = inputs[j].origin /\ inputs'[j].config = inputs[j].config
        BY <4>1, InputFields DEF Inputs
      <4>3. \A k \in Jobs : task[k] \in {"prepare", "parsing"} => task'[k] = task[k]
        BY <3>3, GoEffect DEF Tasks
      <4>4. QED
        BY <4>1, <4>2, <4>3
    <3>4. CASE UNCHANGED task /\ inputs' = [inputs EXCEPT ![j] = NoInputs]
      BY <3>4 DEF TypeOK
    <3>5. CASE UNCHANGED task /\ inputs' = [inputs EXCEPT ![j].cancel = TRUE]
      <4>1. /\ inputs'[j] = [inputs[j] EXCEPT !.cancel = TRUE]
            /\ \A k \in Jobs \ {j} : inputs'[k] = inputs[k]
        BY <3>5 DEF TypeOK
      <4>2. inputs'[j].origin = inputs[j].origin /\ inputs'[j].config = inputs[j].config
        BY <4>1, InputFields DEF Inputs
      <4>3. QED
        BY <3>5, <4>1, <4>2
    <3>6. QED
      BY <2>2, <3>1, <3>2, <3>3, <3>4, <3>5
  <2>4. QED
    BY <1>1, <2>1, <2>3, GroundedSame
<1>5. ASSUME UNCHANGED <<durable, live, up, manager>>
      PROVE  /\ Kept' /\ (up' => live'.config \subseteq file') /\ live.config \subseteq live'.config
             /\ UNCHANGED <<inputs, task>>
    BY <1>5 DEF Kept, Grounded, durable, manager
<1>6. CASE ParseReads
  <2>1. /\ executor # <<>> /\ up /\ Begun(file) /\ file \in Contents /\ UNCHANGED mailbox
        /\ UNCHANGED <<durable, live, up, manager>>
    BY <1>6 DEF ParseReads, Working, TypeOK
  <2>2. /\ DOMAIN executor' = DOMAIN executor /\ 1 \in DOMAIN executor
        /\ executor[1] \in WorkItems /\ executor[1].job \in Jobs
        /\ executor'[1] = [executor[1] EXCEPT !.begun = TRUE, !.config = file]
        /\ \A i \in DOMAIN executor \ {1} : executor'[i] = executor[i]
    BY <2>1, BegunEffect, FirstWork
  <2>3. executor'[1].job = executor[1].job /\ executor'[1].config = file
    BY <2>2 DEF WorkItems
  <2>4. inputs[executor[1].job].origin.config \subseteq file
    BY <2>1, <2>2 DEF Grounded
  <2>5. \A i \in DOMAIN executor' :
          executor'[i].work = "parse" /\ executor'[i].begun =>
            inputs'[executor'[i].job].origin.config \subseteq executor'[i].config
    BY <1>5, <2>1, <2>2, <2>3, <2>4 DEF Grounded
  <2>6. Grounded'
    BY <1>5, <2>1, <2>5 DEF Grounded, Filled, durable
  <2>7. QED
    BY <1>5, <2>1, <2>6
<1>7. ASSUME executor # <<>>,
             NEW kind \in {"parsed", "computed", "analysed"},
             NEW result \in Decisions \cup {"ok", "error", "cancelled"},
             NEW config \in Contents, Finish(kind, result, config),
             kind = "parsed" /\ result = "ok" =>
               inputs[executor[1].job].origin.config \subseteq config,
             UNCHANGED <<durable, live, up, manager>>
      PROVE  Grounded' /\ Kept'
  <2>1. Post(kind, result, config) /\ kind \in {"started", "parsed", "computed", "analysed"}
    BY <1>7 DEF Finish
  <2>2. /\ DOMAIN mailbox = 1..Len(mailbox) /\ Len(mailbox) \in Nat
        /\ DOMAIN mailbox' = 1..(Len(mailbox) + 1)
        /\ \A i \in DOMAIN mailbox : mailbox'[i] = mailbox[i]
        /\ mailbox'[Len(mailbox) + 1].job = executor[1].job
        /\ mailbox'[Len(mailbox) + 1].kind = kind
        /\ mailbox'[Len(mailbox) + 1].result = result
        /\ mailbox'[Len(mailbox) + 1].config = config
    BY <1>7, <2>1, PostEffect
  <2>3. /\ Len(executor) \in Nat \ {0}
        /\ DOMAIN executor = 1..Len(executor)
        /\ DOMAIN executor' = 1..(Len(executor) - 1)
        /\ \A i \in DOMAIN executor' : executor'[i] = executor[i + 1]
    BY <1>7, FinishEffect
  <2>4. \A i \in DOMAIN executor' : i + 1 \in DOMAIN executor
    BY <2>3
  <2>5. \A i \in DOMAIN executor' :
          executor'[i].work = "parse" /\ executor'[i].begun =>
            inputs'[executor'[i].job].origin.config \subseteq executor'[i].config
    BY <1>5, <1>7, <2>3, <2>4 DEF Grounded
  <2>6. ASSUME NEW i \in DOMAIN mailbox', mailbox'[i].kind = "parsed", mailbox'[i].result = "ok"
        PROVE  inputs'[mailbox'[i].job].origin.config \subseteq mailbox'[i].config
    <3>1. CASE i \in DOMAIN mailbox
      BY <1>5, <1>7, <2>2, <2>6, <3>1 DEF Grounded
    <3>2. CASE i = Len(mailbox) + 1
      BY <1>5, <1>7, <2>2, <2>6, <3>2
    <3>3. QED
      BY <2>2, <3>1, <3>2
  <2>7. Grounded'
    BY <1>5, <1>7, <2>5, <2>6 DEF Grounded, Filled
  <2>8. QED
    BY <1>5, <1>7, <2>7
<1>8. CASE ParseEnds
  <2>1. /\ executor # <<>> /\ Head(executor).work = "parse" /\ Head(executor).begun
        /\ UNCHANGED <<durable, live, up, manager>>
    BY <1>8 DEF ParseEnds, Working
  <2>2. /\ Head(executor) = executor[1] /\ 1 \in DOMAIN executor
        /\ executor[1].config \in Contents /\ executor[1].job \in Jobs
    BY <2>1, FirstWork
  <2>3. {} \in Contents /\ executor[1].config \cup {executor[1].job} \in Contents
    BY <2>2 DEF Contents
  <2>4. inputs[executor[1].job].origin.config \subseteq executor[1].config
    BY <2>1, <2>2 DEF Grounded
  <2>5. CASE Finish("parsed", "error", {})
    BY <1>7, <2>1, <2>3, <2>5
  <2>6. CASE Finish("parsed", "ok", executor[1].config)
    BY <1>7, <2>1, <2>2, <2>4, <2>6
  <2>7. CASE Finish("parsed", "ok", executor[1].config \cup {executor[1].job})
    <3>1. inputs[executor[1].job].origin.config \subseteq executor[1].config \cup {executor[1].job}
      BY <2>4
    <3>2. QED
      BY <1>7, <2>1, <2>3, <2>7, <3>1
  <2>8. QED
    BY <1>8, <2>2, <2>5, <2>6, <2>7 DEF ParseEnds
<1>9. CASE CalculationStarts \/ CalculationEnds \/ AnalyticsEnds
  <2>1. /\ executor # <<>> /\ UNCHANGED <<durable, live, up, manager>> /\ {} \in Contents
        /\ Head(executor).work # "parse"
    BY <1>9 DEF CalculationStarts, CalculationEnds, AnalyticsEnds, Working, Contents
  <2>2. \/ Post("started", "ok", {}) /\ Begun({})
        \/ \E kind \in {"computed", "analysed"},
              result \in Decisions \cup {"ok", "error", "cancelled"} : Finish(kind, result, {})
    BY <1>9 DEF CalculationStarts, CalculationEnds, AnalyticsEnds
  <2>3. CASE Post("started", "ok", {}) /\ Begun({})
    <3>1. /\ DOMAIN executor' = DOMAIN executor /\ executor[1].work # "parse"
          /\ executor[1] \in WorkItems
          /\ executor'[1] = [executor[1] EXCEPT !.begun = TRUE, !.config = {}]
          /\ \A i \in DOMAIN executor \ {1} : executor'[i] = executor[i]
      BY <2>1, <2>3, BegunEffect, FirstWork
    <3>2. executor'[1].work # "parse"
      BY <3>1 DEF WorkItems
    <3>3. \A i \in DOMAIN executor' :
             \/ ~(executor'[i].work = "parse" /\ executor'[i].begun)
             \/ \E k \in DOMAIN executor : executor'[i] = executor[k]
      BY <3>1, <3>2
    <3>4. "started" \in {"started", "parsed", "computed", "analysed"}
          /\ "ok" \in Decisions \cup {"ok", "error", "cancelled"}
      OBVIOUS
    <3>5. /\ DOMAIN mailbox = 1..Len(mailbox) /\ Len(mailbox) \in Nat
          /\ DOMAIN mailbox' = 1..(Len(mailbox) + 1)
          /\ \A i \in DOMAIN mailbox : mailbox'[i] = mailbox[i]
          /\ mailbox'[Len(mailbox) + 1].kind = "started"
      BY <2>1, <2>3, <3>4, PostEffect
    <3>6. ASSUME NEW i \in DOMAIN mailbox', mailbox'[i].kind = "parsed"
          PROVE  \E k \in DOMAIN mailbox : mailbox'[i] = mailbox[k]
      <4>1. i \in DOMAIN mailbox \/ i = Len(mailbox) + 1
        BY <3>5
      <4>2. QED
        BY <3>5, <3>6, <4>1
    <3>7. QED
      BY <1>5, <2>1, <3>3, <3>6, GroundedSame
  <2>4. QED
    BY <1>7, <2>1, <2>2, <2>3
<1>10. ASSUME NEW kind, Message(kind), mailbox' = Tail(mailbox)
       PROVE  /\ mailbox # <<>> /\ ~closed /\ Head(mailbox) = mailbox[1] /\ 1 \in DOMAIN mailbox
              /\ mailbox[1].job \in Jobs /\ mailbox[1].kind = kind
              /\ mailbox[1].config \in Contents
              /\ kind # "started" => task[mailbox[1].job] = WaitsForMessage(kind)
              /\ \A i \in DOMAIN mailbox' : \E k \in DOMAIN mailbox : mailbox'[i] = mailbox[k]
  <2>1. mailbox # <<>> /\ ~closed /\ Head(mailbox).kind = kind
    BY <1>10 DEF Message, LoopFree
  <2>2. /\ Head(mailbox) = mailbox[1] /\ mailbox[1].job \in Jobs /\ 1 \in DOMAIN mailbox
        /\ mailbox[1].config \in Contents
        /\ Len(mailbox) \in Nat \ {0} /\ DOMAIN mailbox = 1..Len(mailbox)
        /\ DOMAIN mailbox' = 1..(Len(mailbox) - 1)
        /\ \A i \in DOMAIN mailbox' : mailbox'[i] = mailbox[i + 1]
    BY <1>10, <2>1, FirstMessage
  <2>3. \A i \in DOMAIN mailbox' : i + 1 \in DOMAIN mailbox
    BY <2>2
  <2>4. kind # "started" => task[mailbox[1].job] = WaitsForMessage(kind)
    BY <2>1, <2>2 DEF Outstanding, Ends
  <2>5. QED
    BY <2>1, <2>2, <2>3, <2>4
<1>11. CASE WorkerStarted
  <2>1. /\ LoopFree /\ UNCHANGED <<plans, active, file, live, up, executor, inputs, task>>
        /\ \A i \in DOMAIN mailbox' : \E k \in DOMAIN mailbox : mailbox'[i] = mailbox[k]
    BY <1>10, <1>11 DEF WorkerStarted, Message
  <2>2. QED
    BY <1>1, <2>1, GroundedSame
<1>12. CASE Parsed
  <2> DEFINE j == mailbox[1].job
  <2>1. /\ mailbox # <<>> /\ j \in Jobs /\ Head(mailbox) = mailbox[1] /\ 1 \in DOMAIN mailbox
        /\ mailbox[1].kind = "parsed"
        /\ \A i \in DOMAIN mailbox' : \E k \in DOMAIN mailbox : mailbox'[i] = mailbox[k]
        /\ LoopFree /\ UNCHANGED <<plans, active, file, live, up, executor>>
    BY <1>10, <1>12 DEF Parsed, Message
  <2>2. CASE Leave(j)
    <3>1. inputs'[j] = NoInputs /\ \A k \in Jobs \ {j} : inputs'[k] = inputs[k] /\ task'[k] = task[k]
      BY <2>1, <2>2, LeaveEffect
    <3>2. QED
      BY <1>1, <2>1, <3>1, GroundedSame
  <2>3. CASE /\ mailbox[1].result = "ok" /\ inputs' = [inputs EXCEPT ![j].config = mailbox[1].config]
             /\ Go(j, "calculate") \/ Go(j, "none")
    <3>1. /\ inputs'[j] = [inputs[j] EXCEPT !.config = mailbox[1].config]
          /\ \A k \in Jobs \ {j} : inputs'[k] = inputs[k]
      BY <2>1, <2>3 DEF TypeOK
    <3>2. inputs'[j].origin = inputs[j].origin /\ inputs'[j].config = mailbox[1].config
      BY <2>1, <3>1, InputFields DEF Inputs
    <3>3. inputs[j].origin.config \subseteq mailbox[1].config
      BY <2>1, <2>3 DEF Grounded
    <3>4. \A k \in Jobs \ {j} : task'[k] = task[k]
      BY <2>1, <2>3, GoEffect DEF Tasks
    <3>5. \A k \in Jobs : inputs'[k].origin = inputs[k].origin
      BY <3>1, <3>2
    <3>6. \A k \in Jobs : ~Filled(k)' => task'[k] \in {"prepare", "parsing"}
      BY <3>1, <3>2, <3>3, <3>4 DEF Grounded, Filled
    <3>7. \A i \in DOMAIN mailbox' : mailbox'[i].job \in Jobs
      BY MessageFields DEF TypeOK
    <3>8. \A i \in DOMAIN executor' : executor'[i].job \in Jobs
      BY WorkFields DEF TypeOK
    <3>9. \A i \in DOMAIN mailbox' :
            mailbox'[i].kind = "parsed" /\ mailbox'[i].result = "ok" =>
              inputs'[mailbox'[i].job].origin.config \subseteq mailbox'[i].config
      BY <2>1, <3>5, <3>7 DEF Grounded
    <3>10. \A i \in DOMAIN executor' :
            executor'[i].work = "parse" /\ executor'[i].begun =>
              inputs'[executor'[i].job].origin.config \subseteq executor'[i].config
      BY <2>1, <3>5, <3>8 DEF Grounded
    <3>11. \A k \in Jobs : inputs'[k].origin.config \subseteq live'.config
      BY <2>1, <3>5 DEF Grounded
    <3>12. QED
      BY <1>1, <2>1, <3>6, <3>9, <3>10, <3>11 DEF Grounded
  <2>4. QED
    BY <1>12, <2>1, <2>2, <2>3 DEF Parsed
<1>13. CASE Computed \/ Analysed
  <2> DEFINE j == mailbox[1].job
  <2>1. /\ mailbox # <<>> /\ j \in Jobs /\ Head(mailbox) = mailbox[1]
        /\ task[j] \in {"computing", "analysing"}
        /\ \A i \in DOMAIN mailbox' : \E k \in DOMAIN mailbox : mailbox'[i] = mailbox[k]
        /\ LoopFree /\ UNCHANGED <<plans, active, file, live, up>>
    BY <1>10, <1>13 DEF Computed, Analysed, Message, WaitsForMessage
  <2>2. /\ \/ Leave(j)
           \/ UNCHANGED inputs /\ \E step \in {"none", "analysing", "applying"} : Go(j, step)
        /\ UNCHANGED executor \/ Submit(j, "analytics")
    BY <1>13, <2>1 DEF Computed, Decide, Analysed
  <2>3. \A k \in Jobs :
             \/ inputs'[k] = NoInputs
             \/ /\ inputs'[k].origin = inputs[k].origin /\ inputs'[k].config = inputs[k].config
                /\ task[k] \in {"prepare", "parsing"} => task'[k] \in {"prepare", "parsing"}
    <3>1. CASE Leave(j)
      BY <2>1, <3>1, LeaveEffect
    <3>2. CASE UNCHANGED inputs /\ \E step \in {"none", "analysing", "applying"} : Go(j, step)
      BY <2>1, <3>2, GoEffect DEF Tasks
    <3>3. QED
      BY <2>2, <3>1, <3>2
  <2>4. \A i \in DOMAIN executor' :
             \/ ~(executor'[i].work = "parse" /\ executor'[i].begun)
             \/ \E k \in DOMAIN executor : executor'[i] = executor[k]
    <3>1. CASE UNCHANGED executor
      BY <3>1
    <3>2. CASE Submit(j, "analytics")
      <4>1. /\ DOMAIN executor = 1..Len(executor) /\ Len(executor) \in Nat
            /\ DOMAIN executor' = 1..(Len(executor) + 1)
            /\ \A i \in DOMAIN executor : executor'[i] = executor[i]
            /\ executor'[Len(executor) + 1].begun = FALSE
        BY <2>1, <3>2, SubmitEffect
      <4>2. ASSUME NEW i \in DOMAIN executor', i \notin DOMAIN executor
            PROVE  ~executor'[i].begun
        <5>1. i = Len(executor) + 1
          BY <4>1, <4>2
        <5>2. QED
          BY <4>1, <5>1
      <4>3. QED
        BY <4>1, <4>2
    <3>3. QED
      BY <2>2, <3>1, <3>2
  <2>5. QED
    BY <1>1, <2>1, <2>3, <2>4, GroundedSame
<1>14. ASSUME NEW j \in Jobs, task[j] \in LockTasks
       PROVE  /\ up /\ inputs[j].origin.rev = live.rev /\ inputs[j].origin.config = live.config
              /\ live.config \subseteq inputs[j].config
              /\ IF status[j] = "applied" THEN Committed(j) ELSE Uncommitted(j)
  <2>1. Filled(j)
    BY <1>14 DEF Grounded, LockTasks
  <2>2. QED
    BY <1>14, <2>1, HoldsTheLock DEF LoadWindow, Filled
<1>15. ASSUME NEW j \in Jobs,
              \/ ApplyBegins(j) \/ SaveConfig(j) \/ SaveFails(j) \/ RecognizeLoad(j)
              \/ UndoSave(j) \/ CommitLoad(j)
       PROVE  Grounded' /\ Kept'
  <2>1. /\ task[j] \notin {"prepare", "parsing"}
        /\ UNCHANGED <<up, live, inputs, executor, mailbox>>
        /\ \E step \in LockTasks : Go(j, step)
    BY <1>15 DEF ApplyBegins, SaveConfig, SaveFails, RecognizeLoad, UndoSave, CommitLoad, LockTasks,
                 worker
  <2>2. \A k \in Jobs : task[k] \in {"prepare", "parsing"} => task'[k] = task[k]
    BY <2>1, GoEffect DEF LockTasks, Tasks
  <2>3. up' => live'.config \subseteq file'
    <3>1. CASE UNCHANGED file
      BY <2>1, <3>1 DEF Grounded
    <3>2. CASE SaveConfig(j)
      <4>1. file' = inputs[j].config \/ file' = file
        BY <3>2 DEF SaveConfig
      <4>2. live.config \subseteq inputs[j].config
        BY <1>14, <3>2 DEF SaveConfig, LockTasks
      <4>3. QED
        BY <2>1, <4>1, <4>2 DEF Grounded
    <3>3. CASE UndoSave(j)
      <4>1. file' = undo.config \/ file' = file
        BY <3>3 DEF UndoSave
      <4>2. Uncommitted(j)
        BY <1>14, <3>3 DEF UndoSave, LockTasks
      <4>3. undo.config = live.config
        BY <4>2 DEF Uncommitted, Journal
      <4>4. QED
        BY <2>1, <4>1, <4>3 DEF Grounded
    <3>4. QED
      BY <1>15, <3>1, <3>2, <3>3 DEF ApplyBegins, SaveFails, RecognizeLoad, CommitLoad, durable
  <2>4. Kept'
    <3>1. CASE UNCHANGED <<plans, active>>
      BY <3>1 DEF Kept
    <3>2. CASE CommitLoad(j)
      <4>1. task[j] \in LockTasks /\ status[j] # "applied"
        BY <3>2 DEF CommitLoad, LockTasks
      <4>2. active.config \subseteq inputs[j].config
        BY <1>14, <4>1 DEF Uncommitted
      <4>3. plans' = plans \cup {j} /\ active'.config = inputs[j].config /\ j \notin Writers
        BY <3>2 DEF CommitLoad
      <4>4. QED
        BY <4>2, <4>3 DEF Kept
    <3>3. QED
      BY <1>15, <3>1, <3>2 DEF ApplyBegins, SaveConfig, SaveFails, RecognizeLoad, UndoSave, durable
  <2>5. Grounded'
    BY <2>1, <2>2, <2>3, GroundedSame
  <2>6. QED
    BY <2>4, <2>5
<1>16. ASSUME NEW j \in Jobs, AbortLoad(j) \/ PublishLoad(j) PROVE Grounded' /\ Kept'
  <2>1. /\ task[j] \in LockTasks /\ Leave(j)
        /\ UNCHANGED <<up, file, plans, active, executor, mailbox>>
    BY <1>16 DEF AbortLoad, PublishLoad, LockTasks, durable, worker
  <2>2. inputs'[j] = NoInputs /\ \A k \in Jobs \ {j} : inputs'[k] = inputs[k] /\ task'[k] = task[k]
    BY <2>1, LeaveEffect
  <2>3. (up' => live'.config \subseteq file') /\ live.config \subseteq live'.config
    <3>1. CASE AbortLoad(j)
      BY <2>1, <3>1 DEF AbortLoad, Grounded
    <3>2. CASE PublishLoad(j)
      <4>1. live'.config = inputs[j].config /\ task[j] = "publishing"
        BY <3>2 DEF PublishLoad
      <4>2. Committed(j)
        BY <2>1, <4>1 DEF LoadWindow
      <4>3. QED
        BY <1>14, <2>1, <4>1, <4>2 DEF Committed
    <3>3. QED
      BY <1>16, <3>1, <3>2
  <2>4. Grounded'
    BY <2>1, <2>2, <2>3, GroundedSame
  <2>5. QED
    BY <2>1, <2>4 DEF Kept
<1>17. ASSUME NEW w \in Writers, Writer(w) PROVE Grounded' /\ Kept'
  <2>1. UNCHANGED <<up, inputs, task, executor, mailbox>>
    BY <1>17 DEF Writer, WriterReplacesFile, WriterCommits, WriterRollsBack, manager, worker
  <2>2. CASE WriterReplacesFile(w)
    BY <2>1, <2>2, GroundedSame DEF WriterReplacesFile, Kept
  <2>3. CASE WriterCommits(w)
    <3>1. file = live.config \cup {w} /\ live = active
      BY <2>3 DEF WriterCommits, WriterWindow
    <3>2. /\ live'.config = live.config \cup {w} /\ file' = file /\ plans' = plans \cup {w}
          /\ active'.config = live.config \cup {w}
      BY <2>3 DEF WriterCommits
    <3>3. Kept'
      BY <3>1, <3>2 DEF Kept
    <3>4. live.config \subseteq live'.config /\ live'.config \subseteq file'
      BY <3>1, <3>2
    <3>5. QED
      BY <2>1, <3>3, <3>4, GroundedSame
  <2>4. CASE WriterRollsBack(w)
    <3>1. undo.owner = w /\ live = active
      BY <2>4 DEF WriterRollsBack, WriterWindow
    <3>2. file' = live.config /\ UNCHANGED <<live, plans, active>>
      BY <2>4, <3>1 DEF WriterRollsBack, Journal
    <3>3. QED
      BY <2>1, <3>2, GroundedSame DEF Kept
  <2>5. QED
    BY <1>17, <2>2, <2>3, <2>4 DEF Writer
<1>18. CASE Close
  <2>1. /\ UNCHANGED <<plans, active, file, live, up, executor>> /\ mailbox' = <<>>
        /\ \A j \in Jobs : inputs'[j] = NoInputs
        /\ LoopFree
    BY <1>18 DEF Close
  <2>2. QED
    BY <1>1, <2>1, GroundedSame
<1>19. CASE Crash
  <2>1. /\ UNCHANGED <<plans, active>> /\ ~up' /\ executor' = <<>> /\ mailbox' = <<>>
        /\ \A j \in Jobs : inputs'[j] = NoInputs
    BY <1>19 DEF Crash, durable
  <2>2. QED
    BY <2>1, GroundedSame DEF Kept
<1>20. CASE Restart
  <2>1. /\ UNCHANGED <<plans, executor, mailbox, inputs>>
        /\ \A j \in Jobs : inputs'[j] = NoInputs
    BY <1>20 DEF Restart, Quiet, manager, worker
  <2>2. file' = active.config /\ active' = active /\ live' = active'
    BY <1>20 DEF Restart, Journal
  <2>3. QED
    BY <2>1, <2>2, GroundedSame DEF Kept
<1>21. CASE UNCHANGED vars
    BY <1>21, GroundedSame DEF vars, Kept, Grounded
<1>22. QED
    BY <1>2, <1>3, <1>4, <1>6, <1>8, <1>9, <1>11, <1>12, <1>13, <1>15, <1>16, <1>17, <1>18, <1>19,
       <1>20, <1>21
    DEF Next, Client, Coroutine, Worker, Deliver

(* A load never drops the configuration change of another committed write: *)
(* _check_origin refuses a load parsed from a file that is not the plan's, *)
(* even where that file held a write that was rolled back.                 *)
THEOREM LoadsKeepWrites == Spec => []NoWriteLost
<1>1. Whole => NoWriteLost
    BY DEF Whole, Kept, NoWriteLost
<1>2. QED
    BY <1>1, WholeInit, WholeStep, PTL DEF Spec

-----------------------------------------------------------------------------
(* The consent to a load.                                                  *)

Consenting == Whole /\ Agreed

LEMMA ConsentingInit == Init => Consenting
BY WholeInit DEF Consenting, Init, Agreed, Decided, LockTasks

LEMMA AgreedSame ==
    ASSUME Agreed,
           \A j \in Jobs :
             /\ status'[j] = "awaiting_approval" =>
                  status[j] = "awaiting_approval" /\ report'[j] = report[j]
             /\ task'[j] \in Decided =>
                  /\ task[j] \in Decided /\ report'[j] = report[j]
                  /\ inputs'[j].approval = inputs[j].approval
    PROVE  Agreed'
BY DEF Agreed, Consent

LEMMA ConsentingStep == Consenting /\ [Next]_vars => Consenting'
<1> SUFFICES ASSUME Consenting, [Next]_vars PROVE Agreed'
    BY WholeStep DEF Consenting
<1>0. TypeOK /\ Waiting /\ Outstanding /\ Agreed
    BY DEF Consenting, Whole, Queued
<1> USE <1>0
<1>1. ASSUME NEW j \in Jobs, UNCHANGED report,
             task'[j] \in Decided => task[j] \in Decided /\ inputs'[j].approval = inputs[j].approval,
             \/ status'[j] # "awaiting_approval"
             \/ status'[j] = status[j],
             \A k \in Jobs \ {j} : /\ task'[k] = task[k] /\ status'[k] = status[k]
                                   /\ inputs'[k] = inputs[k]
      PROVE  Agreed'
    BY <1>1, AgreedSame
<1>2. ASSUME NEW j \in Jobs, Start(j) PROVE Agreed'
  <2>1. task'[j] = "prepare" /\ \A k \in Jobs \ {j} : task'[k] = task[k]
    BY <1>2, GoEffect DEF Start, Tasks
  <2>2. /\ UNCHANGED report /\ status'[j] = "preparing"
        /\ \A k \in Jobs \ {j} : status'[k] = status[k] /\ inputs'[k] = inputs[k]
    BY <1>2 DEF Start, TypeOK
  <2>3. QED
    BY <1>1, <2>1, <2>2 DEF Decided, LockTasks
<1>3. ASSUME NEW j \in Jobs, PrepareTask(j) \/ CalculateTask(j) \/ ApplyTask(j) PROVE Agreed'
  <2>1. UNCHANGED <<status, report>>
    BY <1>3 DEF PrepareTask, CalculateTask, ApplyTask, durable
  <2>2. CASE Leave(j)
    <3>1. task'[j] = "none" /\ \A k \in Jobs \ {j} : task'[k] = task[k] /\ inputs'[k] = inputs[k]
      BY <2>2, LeaveEffect
    <3>2. QED
      BY <1>1, <2>1, <3>1 DEF Decided, LockTasks
  <2>3. CASE /\ UNCHANGED inputs
             /\ \/ Go(j, "parsing")
                \/ Go(j, "computing")
                \/ task[j] = "apply" /\ Go(j, "analysing")
    <3>1. \A k \in Jobs \ {j} : task'[k] = task[k]
      BY <2>3, GoEffect DEF Tasks
    <3>2. task'[j] \in Decided => task[j] \in Decided
      BY <2>3, GoEffect DEF Tasks, Decided, LockTasks
    <3>3. QED
      BY <1>1, <2>1, <2>3, <3>1, <3>2
  <2>4. QED
    BY <1>3, <2>2, <2>3 DEF PrepareTask, CalculateTask, ApplyTask
<1>4. ASSUME NEW j \in Jobs, Confirm(j) \/ ApplyRefused(j) PROVE Agreed'
  <2>1. /\ UNCHANGED report
        /\ Leave(j) \/ (Go(j, "calculate") /\ UNCHANGED inputs)
        /\ Keep \/ \E s \in {"queued", "stale"} : Update(j, s)
    BY <1>4 DEF Confirm, Confirmed, ApplyRefused
  <2>2. /\ task'[j] \notin Decided
        /\ \A k \in Jobs \ {j} : task'[k] = task[k] /\ inputs'[k] = inputs[k]
    BY <2>1, GoEffect, LeaveEffect DEF Tasks, Decided, LockTasks
  <2>3. /\ status'[j] # "awaiting_approval" \/ status'[j] = status[j]
        /\ \A k \in Jobs \ {j} : status'[k] = status[k]
    BY <2>1, UpdateEffect DEF Keep, Statuses, Terminal
  <2>4. QED
    BY <1>1, <2>1, <2>2, <2>3
<1>5. ASSUME NEW j \in Jobs, Approve(j) PROVE Agreed'
  <2>1. status[j] = "awaiting_approval" /\ UNCHANGED report /\ report[j] = "approval"
    BY <1>5 DEF Approve, Agreed
  <2>2. CASE Update(j, "stale") /\ Leave(j)
    <3>1. task'[j] = "none" /\ \A k \in Jobs \ {j} : task'[k] = task[k] /\ inputs'[k] = inputs[k]
      BY <2>2, LeaveEffect
    <3>2. status'[j] = "stale" /\ \A k \in Jobs \ {j} : status'[k] = status[k]
      BY <2>2, UpdateEffect DEF Statuses, Terminal
    <3>3. QED
      BY <1>1, <2>1, <3>1, <3>2 DEF Decided, LockTasks
  <2>3. CASE /\ Update(j, "running") /\ Go(j, "apply")
             /\ inputs' = [inputs EXCEPT ![j].approval = "granted"]
    <3>1. status'[j] = "running" /\ \A k \in Jobs \ {j} : status'[k] = status[k]
      BY <2>3, UpdateEffect DEF Statuses
    <3>2. /\ inputs'[j] = [inputs[j] EXCEPT !.approval = "granted"]
          /\ \A k \in Jobs \ {j} : inputs'[k] = inputs[k]
      BY <2>3 DEF TypeOK
    <3>3. inputs'[j].approval = "granted"
      BY <3>2, InputFields DEF Inputs
    <3>4. \A k \in Jobs \ {j} : task'[k] = task[k]
      BY <2>3, GoEffect DEF Tasks
    <3>5. QED
      BY <2>1, <3>1, <3>2, <3>3, <3>4 DEF Agreed, Consent
  <2>4. QED
    BY <1>5, <2>2, <2>3 DEF Approve
<1>6. ASSUME NEW j \in Jobs, Cancel(j) PROVE Agreed'
  <2>1. UNCHANGED <<report, task>> /\ Update(j, "cancelled")
    BY <1>6 DEF Cancel
  <2>2. status'[j] = "cancelled" /\ \A k \in Jobs \ {j} : status'[k] = status[k]
    BY <2>1, UpdateEffect DEF Statuses, Terminal
  <2>3. CASE task[j] = "none" /\ inputs' = [inputs EXCEPT ![j] = NoInputs]
    BY <1>1, <2>1, <2>2, <2>3 DEF Decided, LockTasks, TypeOK
  <2>4. CASE inputs' = [inputs EXCEPT ![j].cancel = TRUE]
    <3>1. /\ inputs'[j] = [inputs[j] EXCEPT !.cancel = TRUE]
          /\ \A k \in Jobs \ {j} : inputs'[k] = inputs[k]
      BY <2>4 DEF TypeOK
    <3>2. inputs'[j].approval = inputs[j].approval
      BY <3>1, InputFields DEF Inputs
    <3>3. QED
      BY <1>1, <2>1, <2>2, <3>1, <3>2
  <2>5. QED
    BY <1>6, <2>3, <2>4 DEF Cancel
<1>7. CASE Worker
  <2>1. UNCHANGED <<status, report, inputs, task>>
    BY <1>7 DEF Worker, ParseReads, ParseEnds, CalculationStarts, CalculationEnds, AnalyticsEnds,
                durable, manager
  <2>2. QED
    BY <2>1, AgreedSame
<1>8. ASSUME NEW kind, Message(kind)
      PROVE  /\ mailbox # <<>> /\ Head(mailbox) = mailbox[1] /\ mailbox[1].job \in Jobs
             /\ kind # "started" => task[mailbox[1].job] = WaitsForMessage(kind)
  <2>1. mailbox # <<>> /\ ~closed /\ Head(mailbox).kind = kind
    BY <1>8 DEF Message, LoopFree
  <2>2. /\ Head(mailbox) = mailbox[1] /\ mailbox[1].job \in Jobs /\ 1 \in DOMAIN mailbox
    BY <2>1, FirstMessage
  <2>3. QED
    BY <2>1, <2>2 DEF Outstanding, Ends
<1>9. CASE WorkerStarted
  <2> DEFINE j == mailbox[1].job
  <2>1. /\ j \in Jobs /\ UNCHANGED <<report, task, inputs>> /\ Head(mailbox).job = j
        /\ mailbox # <<>>
    BY <1>8, <1>9 DEF WorkerStarted
  <2>2. Keep \/ Update(j, "running")
    BY <1>9, <2>1 DEF WorkerStarted
  <2>3. /\ status'[j] # "awaiting_approval" \/ status'[j] = status[j]
        /\ \A k \in Jobs \ {j} : status'[k] = status[k]
    BY <2>1, <2>2, UpdateEffect DEF Keep, Statuses
  <2>4. QED
    BY <1>1, <2>1, <2>3
<1>10. ASSUME NEW j \in Jobs, Keep \/ FailJob(j) \/ \E s \in Statuses \ {"awaiting_approval"} : Update(j, s)
       PROVE  /\ status'[j] # "awaiting_approval" \/ status'[j] = status[j]
              /\ \A k \in Jobs \ {j} : status'[k] = status[k]
  <2>1. CASE Keep
    BY <2>1 DEF Keep
  <2>2. CASE \E s \in Statuses \ {"awaiting_approval"} : Update(j, s)
    BY <2>2, UpdateEffect
  <2>3. CASE FailJob(j)
    BY <2>1, <2>2, <2>3 DEF FailJob, Statuses, Terminal
  <2>4. QED
    BY <1>10, <2>1, <2>2, <2>3
<1>11. CASE Parsed
  <2> DEFINE j == mailbox[1].job
  <2>1. j \in Jobs /\ UNCHANGED report /\ Head(mailbox) = mailbox[1]
    BY <1>8, <1>11 DEF Parsed
  <2>2. /\ Keep \/ FailJob(j) \/ \E s \in Statuses \ {"awaiting_approval"} : Update(j, s)
        /\ \/ Leave(j)
           \/ /\ Go(j, "none") \/ Go(j, "calculate")
              /\ inputs' = [inputs EXCEPT ![j].config = mailbox[1].config]
    BY <1>11, <2>1 DEF Parsed, Statuses, Terminal
  <2>3. task'[j] \notin Decided /\ \A k \in Jobs \ {j} : task'[k] = task[k] /\ inputs'[k] = inputs[k]
    <3>1. CASE Leave(j)
      BY <2>1, <3>1, LeaveEffect DEF Decided, LockTasks
    <3>2. CASE /\ Go(j, "none") \/ Go(j, "calculate")
               /\ inputs' = [inputs EXCEPT ![j].config = mailbox[1].config]
      BY <2>1, <3>2, GoEffect DEF Tasks, Decided, LockTasks, TypeOK
    <3>3. QED
      BY <2>2, <3>1, <3>2
  <2>4. QED
    BY <1>1, <1>10, <2>1, <2>2, <2>3
<1>12. CASE Analysed
  <2> DEFINE j == mailbox[1].job
  <2>1. /\ j \in Jobs /\ UNCHANGED report /\ Head(mailbox) = mailbox[1]
        /\ task[j] = "analysing"
    BY <1>8, <1>12 DEF Analysed, WaitsForMessage
  <2>2. /\ Keep \/ FailJob(j)
        /\ Leave(j) \/ (Go(j, "applying") /\ UNCHANGED inputs)
    BY <1>12, <2>1 DEF Analysed
  <2>3. /\ task'[j] \in Decided => inputs'[j].approval = inputs[j].approval
        /\ \A k \in Jobs \ {j} : task'[k] = task[k] /\ inputs'[k] = inputs[k]
    <3>1. CASE Leave(j)
      BY <2>1, <3>1, LeaveEffect DEF Decided, LockTasks
    <3>2. CASE Go(j, "applying") /\ UNCHANGED inputs
      BY <2>1, <3>2, GoEffect DEF Tasks
    <3>3. QED
      BY <2>2, <3>1, <3>2
  <2>4. task[j] \in Decided
    BY <2>1 DEF Decided
  <2>5. QED
    BY <1>1, <1>10, <2>1, <2>2, <2>3, <2>4
<1>13. CASE Computed
  <2> DEFINE j == mailbox[1].job
  <2>1. /\ j \in Jobs /\ Head(mailbox) = mailbox[1] /\ task[j] = "computing"
    BY <1>8, <1>13 DEF Computed, WaitsForMessage
  <2>2. CASE /\ UNCHANGED report /\ Leave(j)
             /\ Keep \/ FailJob(j) \/ \E s \in Statuses \ {"awaiting_approval"} : Update(j, s)
    <3>1. task'[j] = "none" /\ \A k \in Jobs \ {j} : task'[k] = task[k] /\ inputs'[k] = inputs[k]
      BY <2>1, <2>2, LeaveEffect
    <3>2. QED
      BY <1>1, <1>10, <2>1, <2>2, <3>1 DEF Decided, LockTasks
  <2>3. CASE /\ mailbox[1].result \in Decisions
             /\ report' = [report EXCEPT ![j] = mailbox[1].result]
             /\ Decide(j, mailbox[1].result)
    <3>1. report'[j] = mailbox[1].result /\ \A k \in Jobs \ {j} : report'[k] = report[k]
      BY <2>1, <2>3 DEF TypeOK
    <3>2. CASE Authorized(j, mailbox[1].result) /\ Go(j, "analysing") /\ UNCHANGED <<inputs, status>>
      <4>1. \A k \in Jobs \ {j} : task'[k] = task[k]
        BY <2>1, <3>2, GoEffect DEF Tasks
      <4>2. \/ report'[j] = "apply"
            \/ report'[j] = "approval" /\ inputs'[j].approval = "granted"
        BY <3>1, <3>2 DEF Authorized
      <4>3. status'[j] # "awaiting_approval"
        BY <2>1, <3>2 DEF Waiting
      <4>4. ASSUME NEW k \in Jobs \ {j}
            PROVE  /\ status'[k] = "awaiting_approval" => report'[k] = "approval"
                   /\ task'[k] \in Decided =>
                        \/ report'[k] = "apply"
                        \/ report'[k] = "approval" /\ inputs'[k].approval = "granted"
        BY <3>1, <3>2, <4>1 DEF Agreed, Consent
      <4>5. QED
        BY <4>2, <4>3, <4>4 DEF Agreed, Consent
    <3>3. CASE /\ mailbox[1].result = "approval" /\ Update(j, "awaiting_approval")
               /\ Go(j, "none") /\ UNCHANGED inputs
      <4>1. task'[j] = "none" /\ \A k \in Jobs \ {j} : task'[k] = task[k]
        BY <2>1, <3>3, GoEffect DEF Tasks
      <4>2. \A k \in Jobs \ {j} : status'[k] = status[k]
        BY <2>1, <3>3, UpdateEffect DEF Statuses
      <4>3. QED
        BY <3>1, <3>3, <4>1, <4>2 DEF Agreed, Consent, Decided, LockTasks
    <3>4. CASE Update(j, "blocked") /\ Leave(j)
      <4>1. task'[j] = "none" /\ \A k \in Jobs \ {j} : task'[k] = task[k] /\ inputs'[k] = inputs[k]
        BY <2>1, <3>4, LeaveEffect
      <4>2. status'[j] = "blocked" /\ \A k \in Jobs \ {j} : status'[k] = status[k]
        BY <2>1, <3>4, UpdateEffect DEF Statuses, Terminal
      <4>3. QED
        BY <3>1, <4>1, <4>2 DEF Agreed, Consent, Decided, LockTasks
    <3>5. QED
      BY <2>3, <3>2, <3>3, <3>4 DEF Decide
  <2>4. QED
    BY <1>13, <2>1, <2>2, <2>3 DEF Computed, Statuses, Terminal
<1>14. ASSUME NEW j \in Jobs,
              \/ ApplyBegins(j) \/ SaveConfig(j) \/ SaveFails(j) \/ RecognizeLoad(j)
              \/ UndoSave(j) \/ CommitLoad(j)
       PROVE  Agreed'
  <2>1. /\ task[j] \in Decided /\ UNCHANGED <<report, inputs>>
        /\ \E step \in LockTasks : Go(j, step)
    BY <1>14 DEF ApplyBegins, SaveConfig, SaveFails, RecognizeLoad, UndoSave, CommitLoad, LockTasks,
                 Decided, durable
  <2>2. \A k \in Jobs \ {j} : task'[k] = task[k]
    BY <2>1, GoEffect DEF LockTasks, Tasks
  <2>3. /\ status'[j] # "awaiting_approval" \/ status'[j] = status[j]
        /\ \A k \in Jobs \ {j} : status'[k] = status[k]
    BY <1>14 DEF ApplyBegins, SaveConfig, SaveFails, RecognizeLoad, UndoSave, CommitLoad, durable,
                 TypeOK
  <2>4. QED
    BY <1>1, <2>1, <2>2, <2>3
<1>15. ASSUME NEW j \in Jobs, AbortLoad(j) \/ PublishLoad(j) PROVE Agreed'
  <2>1. UNCHANGED report /\ Leave(j) /\ (FailJob(j) \/ UNCHANGED status)
    BY <1>15 DEF AbortLoad, PublishLoad, durable
  <2>2. task'[j] = "none" /\ \A k \in Jobs \ {j} : task'[k] = task[k] /\ inputs'[k] = inputs[k]
    BY <2>1, LeaveEffect
  <2>3. QED
    BY <1>1, <1>10, <2>1, <2>2 DEF Decided, LockTasks
<1>16. ASSUME NEW w \in Writers, Writer(w) PROVE Agreed'
    BY <1>16, AgreedSame DEF Writer, WriterReplacesFile, WriterCommits, WriterRollsBack, manager
<1>17. CASE Close \/ Crash
  <2>1. /\ UNCHANGED report /\ \A j \in Jobs : task'[j] = "none"
        /\ \A j \in Jobs : status'[j] = "awaiting_approval" => status[j] = "awaiting_approval"
    BY <1>17 DEF Close, Crash, durable
  <2>2. QED
    BY <2>1, AgreedSame DEF Decided, LockTasks
<1>18. CASE Restart
  <2>1. /\ UNCHANGED <<report, task, inputs>>
        /\ \A j \in Jobs : status'[j] = "awaiting_approval" => status[j] = "awaiting_approval"
    BY <1>18 DEF Restart, manager
  <2>2. QED
    BY <2>1, AgreedSame
<1>19. CASE UNCHANGED vars
    BY <1>19, AgreedSame DEF vars
<1>20. QED
    BY <1>2, <1>3, <1>4, <1>5, <1>6, <1>7, <1>9, <1>11, <1>12, <1>13, <1>14, <1>15, <1>16, <1>17,
       <1>18, <1>19
    DEF Next, Client, Coroutine, Deliver

(* What a step that activates the plan of a load may do.                   *)
LEMMA ActivatedAsAgreed ==
    ASSUME Consenting, [Next]_vars, NEW j \in Jobs, j \in plans' \ plans
    PROVE  /\ inputs[j].origin.rev = active.rev
           /\ inputs[j].origin.config = active.config
           /\ active'.rev = active.rev + 1
           /\ Consent(j)
<1>0. TypeOK /\ Held /\ LoadWindow /\ Agreed
    BY DEF Consenting, Whole, Windowed, Windows, Queued
<1>1. CommitLoad(j)
  <2>1. ASSUME LoopStep \/ Worker PROVE plans' = plans
      BY <1>0, <2>1, LoopStepEffect
      DEF LoopEffect, Worker, ParseReads, ParseEnds, CalculationStarts, CalculationEnds,
          AnalyticsEnds, durable
  <2>2. ASSUME NEW k \in Jobs,
               \/ ApplyBegins(k) \/ SaveConfig(k) \/ SaveFails(k) \/ RecognizeLoad(k)
               \/ UndoSave(k) \/ AbortLoad(k) \/ PublishLoad(k)
        PROVE  plans' = plans
    BY <2>2 DEF ApplyBegins, SaveConfig, SaveFails, RecognizeLoad, UndoSave, AbortLoad, PublishLoad,
                durable
  <2>3. ASSUME NEW w \in Writers, Writer(w) PROVE plans' = plans \/ plans' = plans \cup {w}
    BY <2>3 DEF Writer, WriterReplacesFile, WriterCommits, WriterRollsBack
  <2>4. ASSUME Close \/ Crash \/ Restart \/ UNCHANGED vars PROVE plans' = plans
    BY <2>4 DEF Close, Crash, Restart, durable, vars
  <2>5. \E k \in Jobs : CommitLoad(k)
    BY <2>1, <2>2, <2>3, <2>4 DEF Next, Coroutine, LoopStep
  <2>6. QED
    BY <2>5 DEF CommitLoad
<1>2. task[j] = "committing" /\ task[j] \in LockTasks /\ task[j] \in Decided
      /\ status[j] # "applied" /\ active' = Planned(j)
    BY <1>1 DEF CommitLoad, LockTasks, Decided, Planned
<1>3. inputs[j].origin.rev = live.rev /\ inputs[j].origin.config = live.config /\ live = active
    BY <1>0, <1>2 DEF LoadWindow, Uncommitted
<1>4. Consent(j)
    BY <1>0, <1>2 DEF Agreed
<1>5. QED
    BY <1>2, <1>3, <1>4 DEF Planned

(* A load is applied (_apply) over the very plan it was started on, and    *)
(* only with the gates' consent or an approval of the exceptions they      *)
(* report, whatever answers of the worker come late.                       *)
THEOREM LoadsApplyAsAgreed == Spec => AppliedAsAgreed
<1>1. Consenting /\ [Next]_vars =>
        [\A j \in Jobs : j \in plans' \ plans =>
            /\ inputs[j].origin.rev = active.rev
            /\ inputs[j].origin.config = active.config
            /\ active'.rev = active.rev + 1
            /\ \/ report[j] = "apply"
               \/ report[j] = "approval" /\ inputs[j].approval = "granted"]_vars
    BY ActivatedAsAgreed DEF Consent
<1>2. QED
    BY <1>1, ConsentingInit, ConsentingStep, PTL DEF Spec, AppliedAsAgreed
=============================================================================
