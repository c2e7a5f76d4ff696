# Verification of the INCOMPOLINHO planner

TLA+ models of the production planner under `backend/` (and of the part of `frontend/` that
holds a protocol), checked with TLC on small instances; most of their safety properties
are proved with TLAPS for all instances. Paths below
are relative to the repository; `PROJECT.json` maps each definition to its lines.

## 1. The system

One FastAPI process (`backend/api/copilot.py`) keeps one plan for one factory. It reads a
spreadsheet (the ISOP), computes a schedule, and lets a planner change, compare and apply
plans. Everything that matters is in three places: the live `CopilotState` of the process,
two files (`config/factory.yaml`, the rules file), and SQLite databases (`plans.db`,
`replan.db`, `robustness.db`, ...). No transaction spans any two of them.

| Component | State it keeps | Operations | Interacts with | What is hard | What makes it correct |
|---|---|---|---|---|---|
| Commit protocol `plans/transactions.py`, `plans/context.py`, `api/locks.py` | `commit_lock`, `plan_mutation_lock`, journal rows, staged clones | `plan_writer`, `run_sync_mutation`, `_commit`, `recover_pending_mutations` | every writer below; store, files, live state | long calculation without a lock; crash at any step; lost acknowledgement; retries | one atomic change per operation, nothing lost, answers durable |
| Plans store `plans/store.py` | `plans`, `plan_runtime`, `plan_mutations`, `load_jobs` | prepare, commit, abort, `commit_load`, activate, list, delete, prune | commit protocol, load manager | pruning against the active pointer and unfinished journals | one active snapshot, its revision only grows |
| Start and restore `api/copilot.py`, `plans/restore.py`, `plans/serialize.py`, `copilot/state.py` | live state | `lifespan`, `restore_plan_into_state` | store, files | stopping again during recovery; configuration changed while down | live, snapshot and files agree |
| ISOP load manager `loading/jobs.py` | `load_jobs` rows, `active_id`, inputs, one executor thread | start, prepare, confirm, calculate, approve, apply, cancel, close | commit protocol, gates | loop, worker and other writers interleave; crash half applied | one load at a time, applied once, on its origin, with consent |
| Replan jobs `replan/jobs.py`, `api/replan.py` | `replan_jobs` rows, executor | start (deduplicated), run, cancel, apply, interruption, prune | commit protocol | two databases; cancel against apply; jobs of dead processes | applied once on its base; what clients are told is so |
| Manual move previews `plans/manual_move_jobs.py`, `plans/manual_move.py`, `api/manual_plan.py` | jobs and candidates in memory | start, run, cancel, apply | commit protocol, plans store | candidate published in two steps; job pruned while it is checked | a move changes the plan it was checked on, once, and none that was cancelled |
| Preview store `plans/candidates.py` | bounded, expiring previews | put, get, checks | plan API, browser | eviction and expiry between showing and applying; a request nobody awaits any more | a planner gets the plan that was shown |
| Robustness jobs `risk/jobs.py`, `api/robustness.py` | `robustness.db`, a daemon thread, a pool | capture, submit, reuse, supersede, cancel | commit protocol, planning control | commits submit in any order; rebinding | the newest analysis is of the published plan and says what it is of |
| Planning control `planning_control.py` | nested scopes, activity counter | scope, checkpoint, wait | all calculations | nested deadlines; a counter that must return to zero | a scope that ends is counted out; a deadline loses no complete plan |
| Scheduler `scheduler/` | none (a function of data and configuration) | lots, runs, assignment, layout, repairs, validation, score, improvement | optimizer, simulator | rounding and carried stock; twins; shared tools and crews; repairs that undo each other | demand covered once, no work lost by a repair, the result can be carried out |
| Optimizer `cpo/` | best, trusted and kept plan of one call | baseline, search, polish, normalize, revert, improve | scheduler, planning control | time running out at any step; a preference that is not transitive | what is returned is valid and no worse than the baseline |
| Simulator and calendars `simulator/`, `transform/calendars.py`, `config/shifts.py`, `api/data.py` | applied mutations, overlays on the plan's data | simulate, apply, revert, rebuild, edit | commit protocol | mutations that overlap, rebuilds that must lay them again once | calendars and demand are what was asked for |
| Plan API `api/plans.py`, `api/data.py`, `api/scenarios.py`, ... | none of its own | about fifty handlers, writers under `plan_writer` | all above | | each writer is one operation of the commit protocol |
| Configuration `config/` | one file | load, validate, edit | commit protocol | | the file is valid at every start |
| Copilot `copilot/` | conversation | tools; writers under `run_sync_mutation` | language model | | |
| Parser, DQA, guardian, journal, analytics, audit, risk, learning, frontend | | input checks, reports, client | | | |

The threads are: the event loop (API handlers and load coroutines), a pool for
calculations and commits, one executor thread per job manager. Two locks order them:
`plan_mutation_lock`, taken by coroutines, and `commit_lock`, a `threading.RLock`.

The hazards of this code, at their lines and with the properties that answer for them,
are in `PROJECT.json` under `hazards`.

## 2. The modules

| Module | Stands for | Lines of the code |
|---|---|---|
| `AtomicPlan` | what the commit protocol promises: plan, configuration and rules change in one step per operation | abstract |
| `PlanCommit` | the commit protocol with crashes and recovery | `plans/transactions.py`, `plans/store.py`, `plans/restore.py`, `api/copilot.py` |
| `LoadJobs` | the ISOP load manager against other writers | `loading/jobs.py`, `plans/store.py` (`commit_load`) |
| `ReplanJobs` | replanning jobs: table, worker, application | `replan/jobs.py`, `api/replan.py` |
| `RobustnessJobs` | analyses of the published plan, and the counter of planning scopes | `risk/jobs.py`, `api/robustness.py`, `planning_control.py` |
| `Reviews` | what a planner is shown before the plan changes, from the browser to the commit | `plans/candidates.py`, `api/data.py`, `plans/transactions.py`, `frontend/src/lib/`, `frontend/src/api/` |
| `PlansStore` | the snapshots one by one, under a clock | `plans/store.py`, `api/plans.py` |
| `ManualMoves` | background checks of a move; extends `PlansStore` | `plans/manual_move_jobs.py`, `api/manual_plan.py` |
| `Pipeline` | the phase a plan is in, and the order of keys | |
| `LotSizing`, `ToolGrouping`, `MachineDispatch` | phases 1 to 3 of the scheduler and its fallback of phase 4; each extends the one before | `scheduler/lot_sizing.py`, `tool_grouping.py`, `dispatch.py`, `jit.py` |
| `PlanChecks` | physical validation, score and rank of a layout | `scheduler/validation.py`, `scoring.py`, `priority.py` |
| `LayoutRepair` | the repairs of `schedule_all` | `scheduler/scheduler.py` |
| `Improvement` | the no-loss improvement cycle | `scheduler/improvement.py` |
| `Optimizer` | the trust loop of one optimization; extends `Improvement` | `cpo/optimizer.py`, `planning_control.py` |
| `Planning` | composes `LayoutRepair` (with all below it) and `Optimizer` | `scheduler/scheduler.py`, `cpo/optimizer.py` |
| `Scenarios` | what-if mutations over calendars and demand | `simulator/`, `transform/calendars.py`, `config/shifts.py`, `api/data.py` |
| `...Proofs` | theorems: of `PlanCommit` (with the refinement), `LoadJobs`, `ReplanJobs`, `Reviews`, `PlansStore` with `ManualMoves`, `RobustnessJobs`, `Scenarios`, and `Planning` with the sizing, the grouping, the optimizer, the improvement and the validator | |
| `MC...` | small instances | |

They compose in two ways. By extension: `ManualMoves` runs over the actions of `PlansStore`,
`RobustnessJobs` over planning scopes, and `Planning` is the whole pipeline from the orders to
the returned plan. By abstraction: `PlanCommit` implements `AtomicPlan` (`ImplementsAtomicPlan`,
checked by TLC and proved); that is the licence for a commit to be one step in `ReplanJobs`,
`Reviews`, `ManualMoves` and `RobustnessJobs`, and for the other writers of `LoadJobs` to be
two (the file, then everything or nothing).

### PlanCommit

A content (configuration, rules, plan) is the set of changes folded into it: an operation's
identifier, or the token of an edit made to the file by hand. A read-modify-write that loses
an update therefore shows as a missing element. A request is `pc[c]`:

    idle -> calculating -> calculated [-> queued] -> prepared -> configured -> written
         -> publishing -> idle            (the API waits for plan_mutation_lock in 'queued')
    prepared, configured, written -> failing -> config_undone -> undone -> idle
    written -> failing -> publishing      (commit done, acknowledgement lost)

| Actions | Code |
|---|---|
| `CaptureReplay`, `CaptureDifferent`, `CapturePending`, `Capture` | receipt, 409, 503, identities and clone at the top of `plan_writer` / `run_sync_mutation` |
| `Calculate`, `CalculateFails`, `AwaitMutationLock` | the handler on the clone; then the second `async with plan_mutation_lock` |
| `CommitReplay` ... `CommitUnchanged`, `Prepare` | `_commit` down to `prepare_mutation` |
| `ReplaceConfig`, `ReplaceRules`, `CommitMutation`, `Publish` | `os.replace` of each file, the database transaction, the swap of `__dict__` |
| `WriteFails`, `RecognizeCommit`, `UndoConfig`, `UndoRules`, `AbortMutation`, `UndoFails` | the `except BaseException` block |
| `Crash`, `Start`, `RecoverConfig`, `RecoverRules`, `RecoverAbort`, `Restore` | the process stops; `lifespan`, one step per durable effect |
| `EditConfig` | an operator edits the file; not inside a write window or a recovery, where the program would not see it and no code tries to |

Not modelled here: the branch of `_commit` for a plan without data (`payload` is `None`), the
identifiers that `_load_rules` gives to rules that have none, prepared previews (in `Reviews`),
and the text of files. Reading the receipt after a lost acknowledgement is
assumed to succeed.

### LoadJobs

`task[j]` is where the job's coroutine is, `executor` the queue of the one worker thread,
`mailbox` what it posted to the event loop. `LoopFree` says that handlers and coroutines
do not interleave between awaits, and that the final section of `_apply`, which has no
await, occupies the loop while its steps (journal, file, transaction, publication) can
still be cut by a crash. Other writers are not on the loop: they enter whenever
`commit_lock` is free. `plan_mutation_lock` is left out: inside the loop it adds nothing to
`commit_lock` for a section without an await. Progress, phases and timings are left out,
the gates are one of three decisions, and recovery is one step because `PlanCommit` takes
it apart.

### ReplanJobs

`rows` is `replan.db`, its rows numbered by `created` in the order they were made (`Table` are those that
were not pruned); `rev` and `receipts` are `plans.db`. The worker's four
looks at the cancellation are `phase`. `process` is the pair (`worker_id`, `worker_pid`) by
which a row is known to be interrupted. `calls` are requests to apply, with the name under
which they commit: `replan:{id}` or the client's `request_id`. `ApplyProjects` is the
callback after the commit that marks the row: it may fail, and the process may stop before
it. What planning computes and what the gates decide is success or refusal. An identifier
of a dead worker is only confused with the server's own process; another process of the
host could hold it as well.

### RobustnessJobs

`published` is the sequence of revisions with what each contains; `snapshots[s]` is a revision
that the thread `s` captured under `commit_lock` and will submit later: a writer after its
commit, the pool that refreshes a new day, the start of the server. `rows` is
`robustness.db`, its rows numbered by `created` as they were made (the code orders by a time in seconds
and the rowid; a clock that is set back is left out); `step[j]` is where the thread of an analysis
is, and what waits before it in its thread or pool are the earlier ones (`Ahead`). `active` is the counter of `planning_control.py`; the scenarios of a battery pass
only while it is zero (`ScenarioCleared`), and scopes nest two deep, as the callers nest them. A
battery is a number of samples; what it measures is left out.

### Reviews

The protocol between a browser and the server, end to end: identifiers that a repeated request
keeps (`operationIdentity.ts`), the candidate an approval was asked for (`approvalRetry.ts`), the
revision the browser displays, requests it gave up on that go on at the server, the preview store
with its limit and its expiry, the recalculation that asks before it commits, and the revert. A
request is `calls[c]`: sent, then at the server with its staged copy of the plan (`from`), then with
the result that it commits or shows. Expiry, vanished requests, a restart of the server and the writes
outside the module (`OtherWrite`) enter at any time; the latter differ in what a revert finds after
them: a move by hand (`api/manual_plan.py:329`) and a promise (`api/data.py:2223`) save the plan
they replace as an application does, changed inputs keep what was saved, a load or a restored plan leaves nothing. `offered` is a
history variable: what the last change replaced, if its answer says `can_revert`. What a
calculation returns is any of `Results`, some of which need an approval.

### PlansStore and ManualMoves

`rows` are the snapshots with their `created_at`, `active` the pointer. A commit inserts, moves
the pointer and prunes in one transaction (`CommitSnapshot`); the clock may be set back between
any two. `SaveReads` and `SaveInserts` are the two halves of `save_plan`. `ManualMoves` adds the
job manager: checks are numbered as they start, the executor's one thread takes the oldest
(`Dequeues`, `Takes`), stops at a cancellation, looks a last time, stores
its candidate and publishes it in two steps; `Captures`, `Calculates`, `Applies` and `Marks` are
an application under `manual:<job>`. The search of `manual_move.py` is success or refusal.

### Planning: from orders to a plan

`Planning` is one state machine. `stage` says how far a plan is; each phase extends the one
before, and what a phase computed stays visible to the properties of the next.

| Stage | Actions | Code |
|---|---|---|
| orders, sizing | `OffsetSupply`, `TwinCycle`, `TwinCycleFails`, `SoloDemand`, `Sized` | `create_lots`: supply taken off the demand, joint cycles of twins, economic lots that carry their surplus |
| sized, chained, feasible | `GroupLots`, `SplitInfeasible`, `SplitForced` | `create_tool_runs` and the two splits |
| dispatching | `Assign` with `Assigned`, `Sequenced`; `AllocateRun(m)` | `assign_machines`, `sequence_per_machine`, `per_machine_dispatch` |
| releasing | `ReleaseFirst`, `AllocateRun(m)` | the fallback of `jit.py`: the same with the releases of the material |
| crews, tools, parallel, bounds, hard | `SerializePass`, `ToolPass`, `ParallelPass`, `BoundsPass`, `HardPass` | the passes of `schedule_all`, each with its rule of acceptance |
| (handed over) | `HandOver`, `Construct`, `Repair(i)`, `Audited` | alternative, tail and exchange repair, the audit: any plan that passes what the code requires |
| search | `TryCandidate`, `Retain`, `Polish`, `Normalize`, `Revert`, `LeaveSearch`, `KeepComplete` | `_optimize` |
| improving | `ImproveStep`, `TakeImproved` | `improve_plan` |
| any, from the hand-over | `Tick`, `Cancel`, `Checkpoint` | the planning scopes |

A plan before the hand-over is made of real blocks: machine, tool, run, lot, start, setup,
minutes, pieces. After it, it is abstracted to what acceptance reads: validity, lateness per order,
starts, setups. The abstraction is what makes the loop checkable: the search may produce *any*
plan, so what holds does not rest on the quality of a heuristic.

`PlanChecks` translates the validation and the score, and beside them `CanBeCarriedOut`, a
reference that the code does not have: the plan carried out minute by minute, with what is mounted on
each machine, where each tool is and whom the crew serves. `ValidatorIsSound` compares the two.

Simplified: whole minutes and shifts without pauses; one crew for each group of machines; every
block produces at least a minute (no block that is a setup only); speeds do not depend on the
machine; no automatic buffer, no latest-start gates. Aliasing is kept where it decides
(`shared`: `_normalize_operational_result` rewrites `best_result` in place, which may be the
trusted one). The scheduler's reserve of 8 seconds and the optimizer's of `min(10, 20%)` are one
phase `Closing`; the modes `deep` and `max` behave as `normal` here.

### Scenarios

`config` is the factory's shifts, holidays, stops and absences; `data` is what a plan is computed
from, rebuilt from `config` by every edit, recalculation and restart; `active` are the
mutations laid over it. `Mutated` is one mutation, `Simulated` a
list of them with its validation, `Reapplied` the replay over rebuilt data. The orders of a sku are entries of a client, a day and a quantity, as imported; a rush order is an
entry of the operation's own client, and the demand of a day is what its entries add up to (`Ordered`), until the
mutations change one and `Traced` the other. `asked` is a ghost:
what clients were told is applied, from which the properties compute what calendars and demand
have to be (`History`), independently of the code's order of steps. Machine and tool stops are one
`resource_down`; stops that end beyond the horizon, the mutations of master data
(`oee_change`, `force_machine`, `change_eco_lot`) and `current_machine_states` are not modelled;
simulating and applying is one step, because `Reviews` takes it apart.


## 3. The runs

Deadlock is checked in every run but `planning` and `twin_cycles`, whose system is a computation
that ends.

| Run | Instance | What it shows |
|---|---|---|
| `commit` | 2 operations, 2 fingerprints, one API and one executor request, one hand edit, handlers that change the plan alone, the configuration, or both files; 420 thousand states | `CopiesAgree`, `NoLostUpdate`, `AcknowledgedIsDurable`, `RevisionsIdentifyPlans`, `PlanMovesForward`, and that the protocol implements `AtomicPlan` |
| `commit_live` | rollbacks may fail half way; fairness | `JournalsResolved`: once the server stops crashing no journal stays |
| `loads` | 2 uploads, another writer that may roll back; 861 thousand states | `AppliedIffActivated`, `PlanAndFileAgree`, `NoWriteLost`, `AppliedAsAgreed`: applied exactly when its plan is active, on its origin and with consent |
| `loads_live` | fairness | `LoadsSettle`: every load ends, or waits for its client |
| `replan` | 2 jobs, a table of 1, two applying clients, either name of the operation, a restart; fairness | `NoOrphans`, `AppliedOnceOnItsBase`, `OneJobPerRequest`, `AnswersHold`; `JobsSettle`: every job leaves 'queued' and 'running' |
| `replan_request_id` | one job | finding 2 |
| `robustness` | 2 analyses, a writer with two contents, a new day, 1 sample, a pool of 1, scopes two deep, a restart; fairness; 688 thousand states | `AnalysisIsCurrent`, `BoundToItsInputs`, `EndsAreTrue`; `AnalysesSettle`: an analysis yields to planning but not for ever |
| `reviews` | a browser, 2 requests at the server, 3 results of which 2 need approval, a store of 1 preview, other writers up to revision 2 of 3; 1.2 million states | `AppliedAsShown`, `RevertUndoesTheLastChange`, `StaleAnswersAreTrue` |
| `manual_moves` | 2 moves, a table of 1, 2 applications, a clock with 2 readings, 1 kept snapshot; fairness; 837 thousand states | `ActivePlanIsStored`, `MovesAreAsChecked`; `ChecksEnd` |
| `planning` | every book of up to 4 orders over 8 slots, with an optional supply, through sizing, grouping, layout and repairs; then 8 abstract plans through the optimizer; 410 thousand states | the ten properties of the pipeline, below |
| `twin_cycles` | the same | finding 1 |
| `scenarios` | 12 requests of one or two mutations, a promise, an edit, recalculation, revert and restart; 89 thousand states | `CalendarAsAsked`, `DemandAsAsked`, `RebuiltAsHeld` |

What the properties of `planning` say, in the order of the pipeline:

- `DemandIsMet`: if the lots are finished on their own due days and the supplies come on theirs,
  every demand is covered by its milestone, with lead times, twins and carried stock.
- `NothingMadeTwice`: less than one campaign of an operation is ever left over.
- `RunsAreSound`: each lot is in one run; no run waits for later material, exceeds its gap, its
  span or its duration, or shares an identifier.
- `LayoutIsExecutable`: the layouts of dispatch and fallback, before any repair: no machine or
  tool is in two places, no work on a day it is not there, each lot made once and whole, and in the
  fallback no piece before its release. (The crew is not in it: see section 4.)
- `WorkIsConserved`, `OrderIsKept`, `RepairedIsExecutable`: no repair loses pieces or minutes; the
  hard pass moves work later and never reorders a machine; what it returns obeys every rule it
  repairs, so its rules do not undo each other until its passes run out.
- `ValidatorIsSound`: a plan without violations can be carried out, minute by minute, at every stage.
- `NeverWorseThanBaseline`, `ImprovementKeepsReference`: what `optimize` returns is valid and no
  later than its baseline whatever search, normalizer and clock do; and however many tolerant
  steps the improvement took, no order is later in its outcome than in the plan it was given.

**Bounds.** Two operations are enough for a lost update, a reused identifier and two
journals; two requests for every race of captures and commits, since `commit_lock` admits
one at a time and a third could only repeat the part of one of them; contents are sets, so
each operation commits at most once and revisions are bounded by the operations and the
edits without a bound of their own. Crashes are unbounded in `PlanCommit` and `LoadJobs`. Other
writers of `LoadJobs` commit once each. In `ReplanJobs` and `RobustnessJobs` `MaxRevision` bounds
the writers and `MaxProcesses` the restarts, and `Jobs` the rows ever created: a table of one
already prunes. In `Reviews` three requests are a simulation, an application and the retry or
revert that races them; two previews for a store of one show eviction; the writers outside publish up to
revision `OthersUntil`, one below the last, so that the revert they must stop can still commit. Three snapshots, of which
one is kept, let the clock make the newest look the oldest.

In `planning` the horizon has four days, the second a holiday; twins 1 and 2 (1 at a subcontractor, two
workdays and a margin of one), operations 3 and 4 share a tool with two setup families and may move to
the other machine; two machines share one crew; machine 2 is away on day 3, and machine 1, machine 2
and tool 1 each have a stop. The orders are few because every further order only adds lots to phases that
handle them one at a time; four are enough that these happen, each seen in a trace: two setups that want
the crew at once, a serialization that is accepted, one that is rejected, and one whose safe
variant is tried; a tool wanted on two machines and deferred; parallel setups accepted and rejected; blocks
merged; the rules for stops, blocked days and crews in the hard pass; and plans that end with
violations of the score. These do *not* happen in it: `Sanitize` finds nothing left to
do at `bounds`, no retained setup is removed there, and the tool rule, the first sweeps and
`AfterSetup` find nothing at the start of the hard pass. They are translated, and evaluated, but
their effect is not exercised.

In `scenarios` two days are imported, one of a weekend, and the horizon grows to four; three
mutations at a time are enough for one to undo another around a third. Symmetry is used on
identifiers only, and never in a liveness run.

**Fairness.** The code has one thread per executor and one event loop, and a thread that
holds `commit_lock` calls nothing that waits for another: so a writer inside its window, the
workers, the delivery of their messages and the ready coroutines are each weakly fair; a
calculation ends because it has a planning budget. A stopped server is started again
(`autorestart=true` in `docker/supervisord.conf`, `restart` in compose), and a server that was asked
to shut down exits. Nothing is assumed of clients, and nothing promises a lock to a request:
`threading.RLock` has no queue. Nothing is
assumed of planning either: `AnalysesSettle` speaks of behaviours in which planning pauses for good.
`LoadsSettle`, `JobsSettle`, `AnalysesSettle` and `ChecksEnd` hold with any crashes of the model;
`JournalsResolved` needs crashes to stop eventually, because a server that stops in every
recovery recovers nothing.

**Mutants.** Every property of every passing run has a mutant: a definition of the model
changed as a plausible bug would change it (a comparison of half the origin, a lock not
awaited, a rollback that does not look for a receipt, surplus that is carried twice, a stop that is
compared with a block's start only, a trusted plan forgotten by a revert), under which TLC finds that
property violated. They stand next to the definition they replace, under a comment that starts with
"Mutant".

## 4. Findings

With a run:

1. **Twins of which one is subcontracted** (`scheduler/lot_sizing.py:276`, run `twin_cycles`). A
   joint cycle is cut for the most urgent demand, but its output goes to the oldest demand of
   each side. When the lead time of a subcontractor makes the two differ, the demand that controls the
   cycle stays open, and `create_lots` raises "Falha ao consumir o evento controlador de gémeas.",
   which ends the planning of the whole factory.
2. **The receipt of an application with a `request_id` is not looked for**
   (`replan/jobs.py:611`, run `replan_request_id`). The browser always sends one. If the callback
   after the commit is lost, an applied job reads 'ready', and `cancel` answers 'cancelled'.

Met while modelling. The first three are reachable in the models with the constant that is named;
the runs set the first and the third to the value under which they do not occur, and the second
occurs in `loads`, where it contradicts no property:

- A journal left by a failed rollback is undone over later commits (`plans/transactions.py:144`,
  `FaultyUndo = TRUE`). New captures answer 503, but a request captured before still commits, and the
  next start restores the older configuration over it. The docstring says "a committed receipt
  always wins". `commit_live` runs with it; the safety run does not.
- A load may read a configuration that is rolled back (`loading/jobs.py:106`,
  `WritersRollBack = TRUE`): `parse_upload` reads the file without `commit_lock`, and the origin
  holds an earlier hash, which agrees again after the rollback.
- An interrupted job can read 'running' for ever when the new server has the process identifier of
  the old one (`replan/jobs.py:289`, `PidsReused = TRUE`), which is usual in a container.
- With three tools for one crew, dispatch may book the crew twice (`scheduler/dispatch.py:644`
  against `:707`; the docstring at 425 says otherwise). `_serialize_crew_setups` repairs it later.
- `_pending_mutations` (`api/data.py:175`) drops a repeated mutation even if one between undid it:
  the answer is "unchanged" though it is not in effect. The ghost `asked` of `Scenarios` follows the
  code.
- `GET /api/data/plan/edits` (`api/manual_plan.py:416`) says `can_revert` whenever a plan is saved, also when the
  revision has moved on and `/revert` refuses (`api/data.py:1941`); `/can-revert` asks the same as the revert.
- `is_factory_workday` (`calendar.py:62`) does not see a what-if holiday removed from a
  weekend, nor one added on an extra workday.
- Overtime (`simulator/mutations.py:729`) leaves the capacities that machines have of their own;
  `validate_config` (`config/loader.py:626`) refuses the result at the next edit or start.
  `OwnMinutes = 0` in the run.
- `validate_plan` does not check for work on a holiday; the passes keep blocks off them.
- `_try_pull_back` decides that a pull is whole before it is clamped (`scheduler/scheduler.py:3737`);
  up to ten rounds follow.


## 5. What is proved

Eight modules hold theorems. They hold for every value of the constants that satisfies the named
`ASSUME`s: any number of requests, loads, jobs, browsers, writers, snapshots and plans, and any bound.
Two theorem groups have a hypothesis, which is the constant the run sets as well, and one,
`ValidPlansCanBeCarriedOut`, assumes a property that TLC checks.

| Theorem | States | Assuming |
|---|---|---|
| `PlanCommitProofs!TypeCorrect` | `TypeOK` | |
| `AcknowledgementsAreDurable` | `AcknowledgedIsDurable` | |
| `ReceiptsStay` | `ReceiptsArePermanent`: a receipt is never changed or removed (no run checks it; the theorems beside it rest on it) | |
| `RevisionsAreUnique` | `RevisionsIdentifyPlans` | |
| `PlanOnlyMovesForward` | `PlanMovesForward` (action property) | |
| `PlanCommitProofs!PlanCopiesAgree` | `CopiesAgree` | `~FaultyUndo` |
| `NoWriteIsLost` | `NoLostUpdate` | `~FaultyUndo` |
| `CommitIsAtomic` | `ImplementsAtomicPlan`: the refinement of `AtomicPlan`, step by step | `~FaultyUndo` |
| `LoadJobsProofs!LoadTypes` | `TypeOK` | |
| `AppliedMeansActivated` | `AppliedIffActivated` | |
| `PlanFileAgreement` | `PlanAndFileAgree` | |
| `LoadsKeepWrites` | `NoWriteLost` | |
| `LoadsApplyAsAgreed` | `AppliedAsAgreed` (action property) | |
| `ReplanJobsProofs!ReplanTypes` | `TypeOK` | |
| `NoJobIsOrphaned` | `NoOrphans` | `~PidsReused` |
| `OneRequestOneJob` | `OneJobPerRequest` | `~PidsReused` |
| `CandidatesAppliedOnce` | `AppliedOnceOnItsBase` | |
| `AnswersAreTrue` | `AnswersHold` | |
| `ReviewsProofs!ReviewTypes` | `TypeOK` | |
| `StaleMeansNotApplied` | `StaleAnswersAreTrue` | |
| `OnlyWhatWasShown` | `AppliedAsShown` (action property) | |
| `RevertsTheLastChange` | `RevertUndoesTheLastChange` (action property) | |
| `ManualMovesProofs!MoveTypes` | `TypeOK` | |
| `ActivePlanStays` | `ActivePlanIsStored` of `PlansStore` | |
| `MovesApplyAsChecked` | `MovesAreAsChecked` (action property) | |
| `RobustnessJobsProofs!AnalysisTypes` | `TypeOK` | |
| `NewestIsCurrent` | `AnalysisIsCurrent` | |
| `AnalysesReplayTheirPlan` | `BoundToItsInputs` | |
| `AnalysesEndAsTold` | `EndsAreTrue` | |
| `PlanningProofs!SizingIsSafe` | the inductive invariant of the sizing, of `SizingSpec` | |
| `PlanningSizes` | that `Planning` implements `SizingSpec`: no later phase touches what the sizing left | |
| `EveryDemandIsMet` | `DemandIsMet` | |
| `NoLotIsMadeTwice` | `NothingMadeTwice` | |
| `LotsAreGrouped` | `RunsAreSound` | |
| `ValidationSuffices` | any plan of workable blocks with no `Violations` `CanBeCarriedOut`, minute by minute | |
| `ValidPlansCanBeCarriedOut` | `ValidatorIsSound` | `[]WorkIsConserved` |
| `ReturnedPlansAreTrusted` | `NeverWorseThanBaseline` | |
| `CycleKeepsReference` | `ImprovementKeepsReference` | |
| `ScenariosProofs!DemandIsAsAsked` | `DemandAsAsked` | |

`~FaultyUndo` and `~PidsReused` are needed: without them the properties are false, and section 4 says
how. `AcknowledgementsAreDurable`, `RevisionsAreUnique` and `PlanOnlyMovesForward` hold with
failing rollbacks too, and the theorems on loads with writers that roll back.

`ValidPlansCanBeCarriedOut` leans on `WorkIsConserved`, which TLC checks, for one thing: that the
repairs leave blocks that produce for some time, on workdays.

Of the constants is assumed that values such as "nobody" are not members of the sets they complete;
that sets of jobs are finite, where rows are counted; that sizes and bounds are positive. Of the planner's:
that there are finitely many operations and holidays (so that there is a workday before any day), that lead times, margins,
economic lots, minutes and the limits of a run are naturals, that setup families are numbered, that a day and a shift have minutes and a day is whole
shifts, and that stops are intervals. Of the abstract plans of `Optimizer`: that one with a
hard violation is not valid, that its starts are integers, and that the lateness of its orders is natural.
Of the scenarios: that the imported orders are of days of the file and of at least a piece
(`ScenarioAssumption`), and of the mutations what `validate_mutation` asks of their parameters before it looks
at the plan (`MutationAssumption`): a known type, a known sku, integer days, a positive quantity, a factor that is a fraction.

No property is inductive. Each module strengthens its own with what the code knows at every step, and
has an initial lemma, a lemma for each action or group of actions, and a temporal
conclusion by `PTL`. The inductive invariants were checked with TLC on the small instances first.

**PlanCommitProofs.** Three layers:

- `Typed`: `TypeOK`, a request that is under way carries an operation, and a recovery that
  has begun undoing names the journal it undoes.
- `Receipts`: the request past `MayCommit` holds `commit_lock` (`Locking`), and nobody does when
  the server is not up (`Stopped`); so only one request at a time has a row in its hands. Between
  `prepared` and `written` that row is 'preparing' and is its own (`Journaling`), and recovery
  undoes only 'preparing' rows (`UndoesJournal`). Hence a 'committed' row is never written
  again, which is `ReceiptsArePermanent`, and an acknowledged success has one. Without `Locking`
  two requests with one identifier could both be in the window, and one would abort the other's
  receipt.
- `Revisions`: a clone that is about to be written contains the live plan's operations
  (`Cloned`), because the staleness check compared the state it was cloned from; outside the
  publication the live revision is the durable one (`LiveIsActive`); and the row being written is
  one ahead of the active plan (`OneAhead`). Hence two receipts never share a revision, and the
  active plan moves by one and loses nothing.

**PlanCommitProofs, the refinement.** `Whole` adds the files. There is one undo journal at most (`OneJournal`);
it names what the clone changes and holds what was there before (`JournalIsUndo`); `FilesAtStep` says
what each file holds at each step of a write and of its rollback, `FilesRecovered` what recovery has
put back. A crash turns the former into the latter. `CommitIsAtomic` maps the durable
state to the abstract one, with the undo of the one journal taken back: then
`CommitMutation` is the only step of a request that the abstract plan sees: it changes exactly what
its receipt names. Every other step, crash and recovery included, is a stutter, an edit of the file
by hand, or the adoption of such an edit at a start.

**LoadJobsProofs.** A load in its window holds the lock (`Locking`); `Journal`, `LoadWindow` and
`WriterWindow` say what each step of either window has done to file, plan and journal, so that a
crash or a lost acknowledgement between two steps finds them in one of two known states. `Grounded` is
why no write is lost: what a load parsed contains the plan's configuration of its origin, even if
the file also held a write that was rolled back later. `Outstanding` counts what the worker owes: at
most one call for each load, with the step of its coroutine that waits for it, so a late
answer is never taken by another step. `Agreed`, and with it `AppliedAsAgreed`, rests on that.

**ReplanJobsProofs.** `Owned` ties the process of a row to the server's; with fresh identifiers a row of
this process is exactly one whose worker lives. `Handed` places each in the worker's queue; pruning
spares it. `OnePending` is what `create_or_get` has to find. `Applying` follows an application under
`commit_lock`: the plan it captured is still the active one when it commits, so a second
application of the candidate finds a later plan. `Told` relates answers to rows.

**ReviewsProofs.** An operation identifier is made of what the browser asks. `Requested`: it fixes the
revision the request was made on, for an application through the candidate it names, because the numbers
of candidates are unique (`Identified`). `Receipted`: an operation that committed while another request
of it was at the server took the revision that request was made on. Together an operation is
committed on one revision only, and `OutOfDate` says that one that was answered 'out of date' is past
it. `Staging` and `Calculated` carry what was shown to the commit; `SavedPlan`: as long as
nothing was committed after what saved the plan, it is the plan that the last change replaced and
offered to bring back (`offered`), so a revert can return to no other.

**ManualMovesProofs.** An application was calculated from a check that ended well (`Concluded`), so no
cancellation can be confirmed for it any more; the worker holds no check that is over, but for a
cancelled one (`Unfinished`), which it cannot bring back (`Confirmed`). `ActivePlanIsStored` is
inductive with the types: pruning spares the active row whatever the clock says.

**RobustnessJobsProofs.** `Accounted`: the published revision has its analysis, or a capture of it is on
its way, or is known to be lost. `Rebinding` is why the step between the comparison and the rebinding is
safe: under the manager's lock the newest analysis stays the one that was compared. `Counted`: the
counter of planning is the number of threads with an open scope, so it never goes below zero and is
zero when nobody plans.

**PlanningProofs, the sizing.** The model is made of sums over sets, of functions defined by recursion (the calendar, the
carried supply) and of choices by a key. The first half of the module is the library these need:
induction over the naturals and over the subsets of a finite set, stated for sets instead of
operators (`NatInd`, `FiniteInduction`), from the library's theorem that a well-founded relation has
minimal elements; with it, that a recursive definition defines a function (`NatRecursion`), that a
sum exists, splits and is monotone, that the calendar finds the last workday (`OnOrBeforeIsLast`) and goes
back further for earlier days (`ProductionDueMonotone`), and that a first element by a key exists and is one
(`FirstExists`). The invariant `SizingInv` says of the sizing in progress:

- `CoveredInTime`: what was open until a day and is not any more is made by lots due by the
  production day of that day. A later demand is never due earlier, which is the monotony of the
  calendar, subcontractor and margins included;
- `Balanced` and `SurplusIsUsed`: what a solo operation makes is what it covered and its surplus, and the surplus
  is less than a campaign beyond what is still open, which is why a campaign that gathered the
  coming demand does not make it again;
- `EarlierFirst`: its lots are made in the order of the days, so that the surplus is there when it is counted on;
- `OpenIsUncovered`: no demand is open that the supplies cover. `SupplyCovers` is what the carried supply is worth.

`DemandIsMet` and `NothingMadeTwice` follow when nothing is open.

**PlanningProofs, the grouping.** `GroupingInv` says that a lot is known by its number (`LotsKeyed`, which the sizing
establishes), and that the runs divide the lots (`Divides`): each lot is in one place of one run. The chain of a
family, the flattening of the families of a tool and the split of an infeasible run are folds of the community modules; each is
shown to be a recursive function over the positions (`ChainExists`, `FlattenExists`, `PartsExist`), and what holds of its first k
positions to hold of k + 1 (`LinkedIs`, `FlatJoined`, `SortingJoins`). That a part of a run keeps the limits of the run needs that
no gap grows: a part picks lots of the run in its order (`Picks`, `SubRun`); the early part of an infeasible run has lots of one
day only and the late part follows it (`SortsGaps`), and a cut takes neighbours (`StretchIs`). Names stay apart because the
infeasible runs are split once, before the cuts (`Undivided`, `Whole`).

**PlanningProofs, the validator.** The validator (`Violations`) compares pairs of neighbours in the order of the
starts, shift ends and setups; `CanBeCarriedOut` looks at every minute. Non-overlapping neighbours
mean non-overlapping pairs (`MachineOnce`, `ToolOnceOnly`, by the last block between); a block
that ends with its shift stays within its day (`OneDay`). That a block produces with its
adjustment mounted is the hard part (`ProducesMounted`): the first block of the adjustment since it
was last unmounted has a neighbour ahead of it that is another adjustment on its machine or the
tool on another one, so that the validator demanded its setup, and it is done before the block produces.

**PlanningProofs, the optimizer.** `Trustworthy` plans are valid and no later than the baseline. In the
search the baseline, the best plan and the observer's copy are (`SearchSound`), but for the best one
between the normalization and the revert, when it may be anything; `Announced` says that a
candidate is never announced then. What is handed over is, and the improvement starts
from it (`HandedSound`). In the cycle, `Lossless` compares with the reference, not with the plan before:
the preference is not transitive, and of it no more is used than that it never prefers a later
delivery. The phases before the optimizer leave its variables alone (`Earlier`).

**ScenariosProofs.** `IInv` says of the plan that its demands and traces are those of the mutations
asked for (`Asking`: `AsAsked`, and that they are known ones), and the same of what a revert brings back (`Revertible`).
What a client was told is in `asked`, a sequence that grows by whole requests and shrinks by reverts, so the
demand it stands for is a fold (`History`); the simulation is another (`Step`), the replay a third (`Reapplied`), and the
orders that are kept (`Kept`) and the mutations that are new (`Unknown`) two more. Each is shown to be a function of the position
that begins and steps as it should (`XExists`, `XSteps`); then what holds of k mutations holds of k + 1:

- `MutatedOk`: a mutation of the demand changes its sku once, pads the others to the new horizon, and
  nothing of it depends on the padding (`AfterPadded`): a rush order far out, then a delay,
  is the same as the two on the imported demand;
- the orders of the clients follow, day by day (`TracedBy`). A cancellation and a rush order only take and add; a delay and
  an advance move orders, and an advance gathers several days on the first one (`SumByDay`); a
  change of demand rounds the total of a day and shares it by largest remainders. `PortionsAddUp` says the shares are exactly the total:
  what is lost by rounding down is less than the number of entries, so that each has at most one piece more, and
  the order of the remainders is total because positions break ties (`AheadIsTotal`);
- mutations of the calendars, a reprojection, a replay and a rebuild leave demand and trace alone (`SameDemand`): an edit, a
  recalculation and a restart cannot apply a scenario of the demand again (`RebuiltOk`).

**Only model-checked.**

- Liveness: `JournalsResolved`, `LoadsSettle`, `JobsSettle`, `AnalysesSettle`, `ChecksEnd`.
  The prover has no rules for fairness.
- The later phases of the scheduler: `LayoutIsExecutable`, `WorkIsConserved`, `RepairedIsExecutable`,
  `OrderIsKept`. They speak of sequences built by folds and of searches that end because
  something in the data grows, block after block.
- `CalendarAsAsked`, `RebuiltAsHeld`: to compare a plan with its own replay one has to know that
  no mutation that was valid when it was asked for is refused when the ones before it are replayed
  without those of the demand between them, and what the bags of absences are after every reprojection.
- `ControllingEventConsumed`, which is false (section 4).

## 6. What is not modelled

- The search for better plans in `scheduler/` and `cpo/`: left shifts, gap filling, campaign and
  alternative repair, the variable neighbourhood search, the global constructor with its
  external solver, the operational normalizer. They are long float heuristics; what the
  code relies on is how their results are accepted, and that is modelled with *any* plan as a result.
  They are more than a third of the back end, which is why the map covers about a sixth of the lines.
- The search of `plans/manual_move.py`, the sampling of `risk/`, the reports of `analytics/`, `audit/`
  and `learning/`: values without protocol.
- The parser's cell formats, the validation of the fields of the configuration, the edits of master
  data (speeds, machines, economic lots) but for the calendars.
- Per schedule: operator-capacity alerts, plan anchors, protected lots, reserved setups, blocks
  that are a setup only, crews of more than one, speeds and setups that depend on the machine.
- The language model, the screens and the operating system; what the code requires of them is in
  the actions marked external.

## 7. Plan

Order, each with its MC module, runs, mutants and map entries:

1. `PlanCommit` with `AtomicPlan`, `LoadJobs`, `ReplanJobs`, `PlanCommitProofs`: done.
2. `PlansStore` with `ManualMoves`; `Reviews` (the preview store and the browser);
   `RobustnessJobs` with the planning scopes: done.
3. The planner: `LotSizing`, `ToolGrouping`, `MachineDispatch`, `PlanChecks`, `LayoutRepair`,
   `Improvement`, `Optimizer`, composed by `Planning`: done. `Scenarios`: done.
4. Left to model: the edits of master data with the validation of the configuration; crews of more
   than one; the operational normalizer and the gates that decide on a replan; the acceptance rules of
   gap filling and alternative repair on real blocks instead of abstract plans.
5. Proofs: the protocols, the sizing, the validator and the optimizer are done (section 5). Left:
   the layout and the repairs, whose invariants are known (`LayoutIsExecutable`, `WorkIsConserved`)
   and whose functions are recursive; the calendars of `Scenarios` (`CalendarAsAsked`, `RebuiltAsHeld`); `ControllingEventConsumed` for
   factories without subcontracted twins.
