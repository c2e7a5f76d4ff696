--------------------------- MODULE RobustnessJobs ---------------------------
(***************************************************************************)
(* The robustness analyses of the published plan: backend/risk/jobs.py,    *)
(* behind backend/api/robustness.py, with the counter of open planning     *)
(* scopes of backend/planning_control.py that they yield to.               *)
(*                                                                         *)
(* Every commit, every start of the server and a new day capture the       *)
(* published revision under commit_lock and submit it later, in their own  *)
(* thread; an analysis is a row of robustness.db.  One daemon thread runs  *)
(* the automatic ones, a pool runs those a client starts.                  *)
(***************************************************************************)
EXTENDS Naturals, Sequences, FiniteSets

CONSTANTS
    Jobs,           \* analyses (uuid4, never used twice)
    Writers,        \* threads that plan and commit
    Refresh,        \* the thread of _refresh_pool
    Startup,        \* the start of the server
    Contents,       \* schedules with their inputs, up to plan_parts
    Samples,        \* scenarios of a battery
    PoolSize,       \* threads of the manual executor
    MaxRevision,    \* bound on commits
    MaxDay,         \* bound on the days that pass
    MaxDepth,       \* bound on nested planning scopes
    MaxProcesses    \* bound on restarts

Submitters == Writers \cup {Refresh, Startup}
Nobody == "nobody"

ASSUME SubmittersAssumption ==
    /\ Refresh \notin Writers /\ Startup \notin Writers \cup {Refresh}
    /\ Nobody \notin Submitters /\ IsFiniteSet(Writers)
ASSUME JobsAssumption == IsFiniteSet(Jobs)
ASSUME ContentsAssumption == Contents # {}
ASSUME SizesAssumption == Samples \in Nat \ {0} /\ PoolSize \in Nat \ {0} /\ MaxDepth \in Nat \ {0}
ASSUME BoundsAssumption == MaxRevision \in Nat /\ MaxDay \in Nat /\ MaxProcesses \in Nat

VARIABLES
    published,  \* contents of revisions 1, 2, ...             (durable)
    day,        \* planning_anchor_day of the published plan
    rows,       \* table robustness_jobs, in the order of creation (durable)
    process,    \* worker_id of the running, or last, process
    up, closed, \* the server runs; its manager was shut down
    snapshots,  \* of each submitter: a captured revision on its way
    missed,     \* no snapshot was taken of the newest revision
    refreshing, \* _refresh_pending
    managerLock,
    step,       \* of each analysis given to the daemon thread or to the pool:
                \* in its queue, or where its thread is
    events,     \* manager._cancel: analyses with a cancellation event
    signalled,  \* the events that are set
    depth,      \* planning scopes each writer has open
    active,     \* _active_planning
    told        \* analyses whose client was told they are being cancelled

plan == <<published, day, missed>>
server == <<process, up, closed>>
threads == <<step, events, signalled>>
planning == <<depth, active>>
vars == <<published, day, missed, rows, process, up, closed, snapshots,
          refreshing, managerLock, step, events, signalled, depth, active, told>>

-----------------------------------------------------------------------------
Active == {"queued", "running", "cancelling"}
Terminal == {"completed", "cancelled", "failed"}
Triggers == {"auto", "manual"}
NoSnapshot == [at |-> "none"]
NoWork == [at |-> "idle", done |-> 0]
NoRow == [status |-> "unused"]

Analyses == [status : Active \cup Terminal, trigger : Triggers, rev : Nat, content : Contents,
             day : 0..MaxDay, process : Nat, whole : BOOLEAN, created : Nat]
Captures == [at : {"captured", "rebinding"}, rev : Nat, content : Contents, day : 0..MaxDay]
Steps == [at : {"idle", "queued", "polling", "replaying", "completed", "cancelled"},
          done : 0..Samples]

Revision == Len(published)
Image == [rev |-> Revision, content |-> published[Revision], day |-> day]
(* Nobody reads what a manual analysis was started on. *)
Unread == [rev |-> 0, content |-> published[1], day |-> 0]
OnItsWay(s) == snapshots[s] # NoSnapshot
Captured(i) == [at |-> "captured", rev |-> i.rev, content |-> i.content, day |-> i.day]

Init ==
    /\ published = <<CHOOSE k \in Contents : TRUE>>
    /\ day = 0
    /\ missed = FALSE
    /\ rows = [j \in Jobs |-> NoRow]
    /\ process = 1
    /\ up = TRUE /\ closed = FALSE
    /\ snapshots = [s \in Submitters |-> IF s = Startup THEN Captured(Image) ELSE NoSnapshot]
    /\ refreshing = FALSE
    /\ managerLock = Nobody
    /\ step = [j \in Jobs |-> NoWork]
    /\ events = {} /\ signalled = {}
    /\ depth = [w \in Writers |-> 0]
    /\ active = 0
    /\ told = {}

-----------------------------------------------------------------------------
(* RobustnessJobStore.                                                     *)

(* _serialize: an analysis of another process, which has ended, reads      *)
(* 'interrupted'; the identity of a process tells it from one that got its *)
(* number later.                                                           *)
Status(j) ==
    IF rows[j].status \in Active /\ rows[j].process # process THEN "interrupted"
    ELSE rows[j].status

(* update: the SQL transition.  A running analysis starts from 'queued'; a *)
(* 'cancelling' one ends 'cancelled', whatever its end.                    *)
Updated(j, s, whole) ==
    IF rows[j].status \notin (IF s = "running" THEN {"queued"} ELSE Active)
    THEN rows
    ELSE [rows EXCEPT
            ![j].status = IF s \in {"completed", "failed"} /\ rows[j].status = "cancelling"
                          THEN "cancelled" ELSE s,
            ![j].whole = whole]

(* request_cancel, of a set of analyses. *)
CancelRequested(J) ==
    [j \in Jobs |-> IF j \in J /\ rows[j].status \in {"queued", "running"}
                    THEN [rows[j] EXCEPT !.status = "cancelling"] ELSE rows[j]]

Table == {j \in Jobs : rows[j] # NoRow}
Automatic == {j \in Table : rows[j].trigger = "auto"}
HasLatest == Automatic # {}
Latest == CHOOSE j \in Automatic : \A k \in Automatic : rows[k].created <= rows[j].created
ActiveIds == {j \in Automatic : rows[j].status \in Active}

(***************************************************************************)
(* manager.start under the manager's lock: an automatic analysis cancels   *)
(* the automatic ones that are active, dead processes' included, and sets  *)
(* the events of its own.  The worker refuses new work once it was closed, *)
(* and the row says so.                                                    *)
(***************************************************************************)
Started(j, trigger, i) ==
    LET cancelled == IF trigger = "auto" THEN ActiveIds ELSE {}
        row == [status |-> IF closed THEN "failed" ELSE "queued", trigger |-> trigger,
                rev |-> i.rev, content |-> i.content, day |-> i.day,
                process |-> process, whole |-> FALSE, created |-> Cardinality(Table) + 1]
    IN  /\ rows[j] = NoRow
        /\ rows' = [CancelRequested(cancelled) EXCEPT ![j] = row]
        /\ signalled' = signalled \cup
                (events \cap {k \in cancelled : rows'[k].status = "cancelling"})
        /\ IF closed THEN UNCHANGED <<events, step>>
           ELSE /\ events' = events \cup {j}
                /\ step' = [step EXCEPT ![j].at = "queued"]

-----------------------------------------------------------------------------
(* The published plan, and the capture of its revision.                    *)

Serving == up /\ snapshots[Startup] = NoSnapshot

(* A commit publishes under commit_lock and captures before it releases    *)
(* it; a failed capture is logged only.                                    *)
Commit(w, k) ==
    /\ Serving
    /\ snapshots[w] = NoSnapshot
    /\ Revision < MaxRevision
    /\ published' = Append(published, k)
    /\ \E captured \in BOOLEAN :
        /\ missed' = ~captured
        /\ snapshots' = IF captured
              THEN [snapshots EXCEPT ![w] = Captured([rev |-> Revision + 1, content |-> k, day |-> day])]
              ELSE snapshots
    /\ UNCHANGED <<day, rows, server, refreshing, managerLock, threads, planning, told>>

NewDay ==
    /\ day < MaxDay
    /\ day' = day + 1
    /\ UNCHANGED <<published, missed, rows, server, snapshots, refreshing, managerLock,
                   threads, planning, told>>

(* GET /latest: the planning day moved since the newest automatic analysis *)
(* of this revision.                                                       *)
RequestRefresh ==
    /\ Serving
    /\ HasLatest
    /\ rows[Latest].rev = Revision
    /\ rows[Latest].day # day
    /\ ~refreshing
    /\ refreshing' = TRUE
    /\ UNCHANGED <<plan, rows, server, snapshots, managerLock, threads, planning, told>>

RefreshCaptures ==
    /\ up
    /\ refreshing
    /\ snapshots[Refresh] = NoSnapshot
    /\ \/ /\ snapshots' = [snapshots EXCEPT ![Refresh] = Captured(Image)]
          /\ missed' = FALSE
          /\ UNCHANGED refreshing
       \/ /\ refreshing' = FALSE
          /\ UNCHANGED <<snapshots, missed>>
    /\ UNCHANGED <<published, day, rows, server, managerLock, threads, planning, told>>

-----------------------------------------------------------------------------
(* submit_auto_snapshot, under the lock of the manager.                    *)

Done(s) ==
    /\ snapshots' = [snapshots EXCEPT ![s] = NoSnapshot]
    /\ refreshing' = IF s = Refresh THEN FALSE ELSE refreshing
    /\ managerLock' = Nobody

(* Mutant: an older revision is submitted as any other. *)
NeverSuperseded(s) == FALSE

Superseded(s) == HasLatest /\ rows[Latest].rev > snapshots[s].rev

SubmitSkips(s) ==
    /\ up /\ managerLock = Nobody
    /\ snapshots[s].at = "captured"
    /\ Superseded(s)
    /\ Done(s)
    /\ UNCHANGED <<plan, rows, server, threads, planning, told>>

(* Mutant: the inputs are not compared. *)
ReusableUnseen(s) == HasLatest /\ Status(Latest) \in {"queued", "running", "completed"}

(* The newest analysis replays the same inputs from the same day. *)
Reusable(s) ==
    /\ HasLatest
    /\ Status(Latest) \in {"queued", "running", "completed"}
    /\ rows[Latest].content = snapshots[s].content
    /\ rows[Latest].day = snapshots[s].day

SubmitReuses(s) ==
    /\ up /\ managerLock = Nobody
    /\ snapshots[s].at = "captured"
    /\ ~Superseded(s) /\ Reusable(s)
    /\ rows[Latest].rev = snapshots[s].rev
    /\ Done(s)
    /\ UNCHANGED <<plan, rows, server, threads, planning, told>>

(* The same inputs under a newer revision: to be pointed at it. *)
SubmitRebinding(s) ==
    /\ up /\ managerLock = Nobody
    /\ snapshots[s].at = "captured"
    /\ ~Superseded(s) /\ Reusable(s)
    /\ rows[Latest].rev # snapshots[s].rev
    /\ snapshots' = [snapshots EXCEPT ![s].at = "rebinding"]
    /\ managerLock' = s
    /\ UNCHANGED <<plan, rows, server, refreshing, threads, planning, told>>

(* rebind: the row may have been cancelled since it was read. *)
Rebindable == rows[Latest].status \in {"queued", "running", "completed"}

SubmitRebinds(s) ==
    /\ up
    /\ snapshots[s].at = "rebinding"
    /\ Rebindable
    /\ rows' = [rows EXCEPT ![Latest].rev = snapshots[s].rev]
    /\ Done(s)
    /\ UNCHANGED <<plan, server, threads, planning, told>>

SubmitStarts(s, j) ==
    /\ up
    /\ \/ /\ managerLock = Nobody
          /\ snapshots[s].at = "captured"
          /\ ~Superseded(s) /\ ~Reusable(s)
       \/ snapshots[s].at = "rebinding" /\ ~Rebindable
    /\ Started(j, "auto", snapshots[s])
    /\ Done(s)
    /\ UNCHANGED <<plan, server, planning, told>>

(* Whatever fails in a submission is logged only. *)
SubmitFails(s) ==
    /\ up
    /\ snapshots[s] # NoSnapshot
    /\ managerLock \in {Nobody, s}
    /\ missed' = (missed \/ snapshots[s].rev = Revision)
    /\ Done(s)
    /\ UNCHANGED <<published, day, rows, server, threads, planning, told>>

-----------------------------------------------------------------------------
(* The clients of backend/api/robustness.py.                               *)

StartManual(j) ==
    /\ Serving /\ managerLock = Nobody
    /\ Started(j, "manual", Unread)
    /\ UNCHANGED <<plan, server, snapshots, refreshing, managerLock, planning, told>>

(* cancel: the row first, then the event; the thread looks at both. *)
Cancel(j) ==
    /\ Serving
    /\ j \in Table
    /\ rows' = CancelRequested({j})
    /\ IF rows'[j].status = "cancelling" /\ rows[j].process = process
       THEN /\ signalled' = signalled \cup (events \cap {j})
            /\ told' = told \cup {j}
       ELSE UNCHANGED <<signalled, told>>
    /\ UNCHANGED <<plan, server, snapshots, refreshing, managerLock, step, events, planning>>

-----------------------------------------------------------------------------
(* _run and run_robustness_battery.                                        *)

(* The daemon thread takes its analyses one by one, the pool PoolSize, *)
(* each in the order they were given to it.                            *)
Ahead(j) == {k \in Table : /\ step[k] # NoWork /\ rows[k].trigger = rows[j].trigger
                           /\ rows[k].created < rows[j].created}
HasThread(j) ==
    /\ up /\ step[j] # NoWork
    /\ Cardinality(Ahead(j)) < IF rows[j].trigger = "auto" THEN 1 ELSE PoolSize

IsCancelled(j) == j \in signalled \/ Status(j) \in {"cancelling", "cancelled", "interrupted"}

Leave(j) ==
    /\ step' = [step EXCEPT ![j] = NoWork]
    /\ events' = events \ {j}
    /\ signalled' = signalled \ {j}

(* The row is marked, and looked at: what was cancelled while it waited    *)
(* ends here.                                                              *)
RunMarks(j) ==
    /\ HasThread(j)
    /\ step[j].at = "queued"
    /\ rows' = IF IsCancelled(j) THEN Updated(j, "cancelled", FALSE)
              ELSE Updated(j, "running", FALSE)
    /\ IF rows'[j].status \in Terminal THEN Leave(j)
       ELSE step' = [step EXCEPT ![j].at = "polling"] /\ UNCHANGED <<events, signalled>>
    /\ UNCHANGED <<plan, server, snapshots, refreshing, managerLock, planning, told>>

(* wait_while_planning: no scope is open, and nobody cancelled. *)
ScenarioCleared(j) ==
    /\ HasThread(j)
    /\ step[j].at = "polling"
    /\ step[j].done < Samples
    /\ active = 0
    /\ ~IsCancelled(j)
    /\ step' = [step EXCEPT ![j].at = "replaying"]
    /\ UNCHANGED <<plan, rows, server, snapshots, refreshing, managerLock, events,
                   signalled, planning, told>>

ScenarioReplayed(j) ==
    /\ HasThread(j)
    /\ step[j].at = "replaying"
    /\ step' = [step EXCEPT ![j] = [at |-> "polling", done |-> @.done + 1]]
    /\ UNCHANGED <<plan, rows, server, snapshots, refreshing, managerLock, events,
                   signalled, planning, told>>

(* The battery is through, or stopped while it waits or inside a scenario. *)
BatteryReturns(j) ==
    \/ step[j].at = "polling" /\ step[j].done = Samples
    \/ step[j].at \in {"polling", "replaying"} /\ IsCancelled(j)

(* Mutant: the battery's return is taken for its completion. *)
DecidesCompleted(j) ==
    /\ HasThread(j)
    /\ BatteryReturns(j)
    /\ step' = [step EXCEPT ![j].at = "completed"]
    /\ UNCHANGED <<plan, rows, server, snapshots, refreshing, managerLock, events,
                   signalled, planning, told>>

(* It returns what it has; the last look at the cancellation. *)
RunDecides(j) ==
    /\ HasThread(j)
    /\ BatteryReturns(j)
    /\ step' = [step EXCEPT ![j].at = IF IsCancelled(j) THEN "cancelled" ELSE "completed"]
    /\ UNCHANGED <<plan, rows, server, snapshots, refreshing, managerLock, events,
                   signalled, planning, told>>

RunEnds(j) ==
    /\ HasThread(j)
    /\ step[j].at \in {"cancelled", "completed"}
    /\ rows' = Updated(j, step[j].at, step[j].done = Samples)
    /\ Leave(j)
    /\ UNCHANGED <<plan, server, snapshots, refreshing, managerLock, planning, told>>

RunFails(j) ==
    /\ HasThread(j)
    /\ step[j].at \in {"queued", "polling", "replaying"}
    /\ rows' = Updated(j, "failed", FALSE)
    /\ Leave(j)
    /\ UNCHANGED <<plan, server, snapshots, refreshing, managerLock, planning, told>>

-----------------------------------------------------------------------------
(* planning_scope: only a thread's outermost scope counts.                 *)

CountOpened == active' = active + 1
CountClosed == active' = IF active > 0 THEN active - 1 ELSE 0

ScopeOpens(w) ==
    /\ Serving
    /\ depth[w] < MaxDepth
    /\ depth' = [depth EXCEPT ![w] = @ + 1]
    /\ IF depth[w] = 0 THEN CountOpened ELSE UNCHANGED active
    /\ UNCHANGED <<plan, rows, server, snapshots, refreshing, managerLock, threads, told>>

(* Mutant: the count is kept when the scope ends with an exception.        *)
ScopeClosesLeaking(w) ==
    /\ up
    /\ depth[w] > 0
    /\ depth' = [depth EXCEPT ![w] = @ - 1]
    /\ IF depth[w] = 1 THEN CountClosed \/ UNCHANGED active ELSE UNCHANGED active
    /\ UNCHANGED <<plan, rows, server, snapshots, refreshing, managerLock, threads, told>>

(* The end of the with block, or an exception: PlanningStopped included. *)
ScopeCloses(w) ==
    /\ up
    /\ depth[w] > 0
    /\ depth' = [depth EXCEPT ![w] = @ - 1]
    /\ IF depth[w] = 1 THEN CountClosed ELSE UNCHANGED active
    /\ UNCHANGED <<plan, rows, server, snapshots, refreshing, managerLock, threads, told>>

-----------------------------------------------------------------------------
(* shutdown, at the exit of the interpreter: every event is set, and what  *)
(* the pool has not begun is dropped.                                      *)
Shutdown ==
    /\ up /\ ~closed
    /\ process < MaxProcesses
    /\ closed' = TRUE
    /\ signalled' = events
    /\ step' = [j \in Jobs |-> IF step[j] # NoWork /\ rows[j].trigger = "manual" /\ ~HasThread(j)
                               THEN NoWork ELSE step[j]]
    /\ UNCHANGED <<plan, rows, process, up, snapshots, refreshing, managerLock, events,
                   planning, told>>

Crash ==
    /\ up
    /\ process < MaxProcesses
    /\ up' = FALSE
    /\ snapshots' = [s \in Submitters |-> NoSnapshot]
    /\ refreshing' = FALSE
    /\ managerLock' = Nobody
    /\ step' = [j \in Jobs |-> NoWork]
    /\ events' = {} /\ signalled' = {}
    /\ depth' = [w \in Writers |-> 0]
    /\ active' = 0
    /\ UNCHANGED <<plan, rows, process, closed, told>>

(* lifespan: the analysis of the restored revision is submitted first. *)
Restart ==
    /\ ~up
    /\ up' = TRUE
    /\ closed' = FALSE
    /\ process' = process + 1
    /\ \/ snapshots' = [snapshots EXCEPT ![Startup] = Captured(Image)] /\ missed' = FALSE
       \/ UNCHANGED snapshots /\ missed' = TRUE
    /\ UNCHANGED <<published, day, rows, refreshing, managerLock, threads, planning, told>>

-----------------------------------------------------------------------------
Submit(s) ==
    \/ SubmitSkips(s) \/ SubmitReuses(s) \/ SubmitRebinding(s)
    \/ SubmitRebinds(s) \/ SubmitFails(s)
    \/ \E j \in Jobs : SubmitStarts(s, j)

Work(j) ==
    \/ RunMarks(j) \/ ScenarioCleared(j) \/ ScenarioReplayed(j)
    \/ RunDecides(j) \/ RunEnds(j)

Next ==
    \/ \E w \in Writers : ScopeOpens(w) \/ ScopeCloses(w) \/ \E k \in Contents : Commit(w, k)
    \/ \E s \in Submitters : Submit(s)
    \/ RequestRefresh \/ RefreshCaptures \/ NewDay
    \/ \E j \in Jobs : StartManual(j) \/ Cancel(j) \/ Work(j) \/ RunFails(j)
    \/ Shutdown \/ Crash \/ Restart

Spec == Init /\ [][Next]_vars

(***************************************************************************)
(* The threads of the analyses run on; a manager is shut down only by the  *)
(* exit of its process, which ends; a stopped server is started again.     *)
(***************************************************************************)
Exit == closed /\ Crash

Fairness ==
    /\ \A j \in Jobs : WF_vars(Work(j))
    /\ WF_vars(Exit)
    /\ WF_vars(Restart)

FairSpec == Spec /\ Fairness

-----------------------------------------------------------------------------
(* Every variable has the type the code gives it; an analysis and a        *)
(* capture are of a revision that was published, and the manager's lock is *)
(* held only to reuse an analysis.                                         *)
TypeOK ==
    /\ published \in Seq(Contents) /\ published # <<>> /\ Revision <= MaxRevision + 1
    /\ day \in 0..MaxDay /\ missed \in BOOLEAN
    /\ rows \in [Jobs -> Analyses \cup {NoRow}]
    /\ \A j \in Table : rows[j].rev <= Revision /\ rows[j].process <= process
    /\ process \in 1..(MaxProcesses + 1) /\ up \in BOOLEAN /\ closed \in BOOLEAN
    /\ snapshots \in [Submitters -> Captures \cup {NoSnapshot}]
    /\ \A s \in Submitters : OnItsWay(s) => snapshots[s].rev \in 1..Revision
    /\ refreshing \in BOOLEAN
    /\ managerLock \in Submitters \cup {Nobody}
    /\ \A s \in Submitters : snapshots[s].at = "rebinding" <=> managerLock = s
    /\ step \in [Jobs -> Steps]
    /\ events \subseteq Jobs /\ signalled \subseteq events
    /\ depth \in [Writers -> 0..MaxDepth] /\ active \in Nat
    /\ told \subseteq Jobs

(* When no snapshot is on its way, and none was lost, the newest automatic *)
(* analysis is that of the published revision: commits that submit in the  *)
(* opposite order, refreshes and restarts never leave an older one last.   *)
AnalysisIsCurrent ==
    up /\ ~missed /\ (\A s \in Submitters : ~OnItsWay(s)) =>
        HasLatest /\ rows[Latest].rev = Revision

(* An automatic analysis that says it is of a revision replays that revision's plan, *)
(* also after it was pointed at a newer one.                               *)
BoundToItsInputs ==
    \A j \in Automatic : rows[j].content = published[rows[j].rev]

(* A completed analysis ran all its scenarios, whoever stopped it on the   *)
(* way; and one whose client was told it is being cancelled never          *)
(* completes or fails.                                                     *)
EndsAreTrue ==
    \A j \in Table :
        /\ rows[j].status = "completed" => rows[j].whole
        /\ j \in told => rows[j].status \in {"cancelling", "cancelled"}

(* Once planning pauses for good, the analyses that were started all end,  *)
(* or their process does: none is queued or runs for ever.                 *)
AnalysesSettle ==
    <>[](\A w \in Writers : depth[w] = 0) =>
        []<>(\A j \in Jobs : Status(j) \notin Active)
=============================================================================
