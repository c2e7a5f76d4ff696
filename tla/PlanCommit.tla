----------------------------- MODULE PlanCommit -----------------------------
(***************************************************************************)
(* The write path of the planner: backend/plans/transactions.py over the   *)
(* SQLite store of backend/plans/store.py, under the two locks of          *)
(* backend/api/locks.py, with the crash recovery of the server's start.    *)
(*                                                                         *)
(* A write clones the live state, calculates on the clone without a lock,  *)
(* and commits under commit_lock: an undo journal row, the configuration   *)
(* and rules files, one database transaction (snapshot, active pointer,    *)
(* receipt), and last the swap of the live state.  The process may stop    *)
(* between any two of these steps.                                         *)
(*                                                                         *)
(* A content (configuration, rules, plan) is the set of changes folded     *)
(* into it, so that an update lost by a read-modify-write is visible.      *)
(***************************************************************************)
EXTENDS Naturals, FiniteSets

CONSTANTS
    Ops,         \* operation identifiers
    Bodies,      \* request fingerprints an identifier may arrive with
    Calls,       \* concurrent requests
    ApiCalls,    \* those that enter through plan_writer (async, two locks)
    Edits,       \* hand edits of the configuration file
    Effects,     \* the sets of files a handler may change
    FaultyUndo,  \* may a rollback fail half way (disk full, database locked)?
    NoCall,      \* no holder of a lock
    NoOp         \* no operation

ASSUME CallsAssumption == ApiCalls \subseteq Calls /\ NoCall \notin Calls
ASSUME OpsAssumption == Ops \cap Edits = {} /\ NoOp \notin Ops
ASSUME EffectsAssumption == Effects \subseteq SUBSET {"config", "rules"}
ASSUME FaultAssumption == FaultyUndo \in BOOLEAN

VARIABLES
    files,       \* configuration and rules files            (durable)
    active,      \* the active snapshot and its revision     (durable)
    mutations,   \* table plan_mutations: journal / receipt  (durable)
    live,        \* CopilotState of the process
    boot,        \* startup phase of the process
    undoing,     \* the journal recovery is undoing
    planMutationLock,
    commitLock,
    pc,          \* where each request is
    req,         \* the identifier and fingerprint it carries
    origin,      \* input_identity and _file_identity it captured
    staged,      \* its clone of the live state
    acknowledged \* the successes clients were told: operation and revision

durable == <<files, active, mutations>>
process == <<live, boot, undoing>>
locks == <<planMutationLock, commitLock>>
requests == <<pc, req, origin, staged, acknowledged>>
vars == <<files, active, mutations, live, boot, undoing,
          planMutationLock, commitLock, pc, req, origin, staged, acknowledged>>

-----------------------------------------------------------------------------
Contents == SUBSET (Ops \cup Edits)
Files == [config : Contents, rules : SUBSET Ops]
States == [rev : Nat, config : Contents, rules : SUBSET Ops, edits : SUBSET Ops]
Snapshots == [rev : Nat, config : Contents, edits : SUBSET Ops]
Journals == [status : {"none", "preparing", "committed"}, body : Bodies \cup {NoOp},
             rev : Nat, touched : SUBSET {"config", "rules"},
             oldConfig : Contents, oldRules : SUBSET Ops]
Requests == [op : Ops \cup {NoOp}, body : Bodies \cup {NoOp}]

Blank == [rev |-> 0, config |-> {}, rules |-> {}, edits |-> {}]
NoFiles == [config |-> {}, rules |-> {}]
NoJournal == [status |-> "none", body |-> NoOp, rev |-> 0, touched |-> {},
              oldConfig |-> {}, oldRules |-> {}]
NoReq == [op |-> NoOp, body |-> NoOp]

Preparing == {o \in Ops : mutations[o].status = "preparing"}
Committed == {o \in Ops : mutations[o].status = "committed"}

Init ==
    /\ files = NoFiles
    /\ active = [rev |-> 0, config |-> {}, edits |-> {}]
    /\ mutations = [o \in Ops |-> NoJournal]
    /\ live = Blank
    /\ boot = "up"
    /\ undoing = NoOp
    /\ planMutationLock = NoCall
    /\ commitLock = NoCall
    /\ pc = [c \in Calls |-> "idle"]
    /\ req = [c \in Calls |-> NoReq]
    /\ origin = [c \in Calls |-> [live |-> Blank, files |-> NoFiles]]
    /\ staged = [c \in Calls |-> Blank]
    /\ acknowledged = {}

-----------------------------------------------------------------------------
(* Receipts: _receipt, store.mutation_receipt, store.pending_mutations.    *)

IsReplay(o, b) == mutations[o].status = "committed" /\ mutations[o].body = b
IsDifferent(o, b) == mutations[o].status # "none" /\ mutations[o].body # b

(***************************************************************************)
(* A request ends, by its response or by an error: its data is dropped and *)
(* the locks it holds are released.                                        *)
(***************************************************************************)
End(c) ==
    /\ pc' = [pc EXCEPT ![c] = "idle"]
    /\ req' = [req EXCEPT ![c] = NoReq]
    /\ origin' = [origin EXCEPT ![c] = [live |-> Blank, files |-> NoFiles]]
    /\ staged' = [staged EXCEPT ![c] = Blank]
    /\ planMutationLock' = IF planMutationLock = c THEN NoCall ELSE planMutationLock
    /\ commitLock' = IF commitLock = c THEN NoCall ELSE commitLock

Succeed(c, o, r) == End(c) /\ acknowledged' = acknowledged \cup {<<o, r>>}
Fail(c) == End(c) /\ UNCHANGED acknowledged

Advance(c, step) == pc' = [pc EXCEPT ![c] = step]

-----------------------------------------------------------------------------
(* Capture: run_sync_mutation and plan_writer, before the calculation.     *)

MayCapture(c) ==
    /\ boot = "up"
    /\ pc[c] = "idle"
    /\ commitLock = NoCall
    /\ c \in ApiCalls => planMutationLock = NoCall

(* The identifier already holds a receipt: its response is replayed. *)
CaptureReplay(c, o, b) ==
    /\ MayCapture(c)
    /\ IsReplay(o, b)
    /\ Succeed(c, o, mutations[o].rev)
    /\ UNCHANGED <<durable, process>>

(* 409 different_input: the identifier belongs to another request. *)
CaptureDifferent(c, o, b) ==
    /\ MayCapture(c)
    /\ IsDifferent(o, b)
    /\ Fail(c)
    /\ UNCHANGED <<durable, process>>

(* 503: an interrupted write waits for the recovery of the next start. *)
CapturePending(c, o, b) ==
    /\ MayCapture(c)
    /\ ~IsReplay(o, b) /\ ~IsDifferent(o, b)
    /\ Preparing # {}
    /\ Fail(c)
    /\ UNCHANGED <<durable, process>>

(* The identities of the state and of the files, and the clone. *)
Capture(c, o, b) ==
    /\ MayCapture(c)
    /\ ~IsReplay(o, b) /\ ~IsDifferent(o, b)
    /\ Preparing = {}
    /\ Advance(c, "calculating")
    /\ req' = [req EXCEPT ![c] = [op |-> o, body |-> b]]
    /\ origin' = [origin EXCEPT ![c] = [live |-> live, files |-> files]]
    /\ staged' = [staged EXCEPT ![c] = live]
    /\ UNCHANGED <<durable, process, locks, acknowledged>>

-----------------------------------------------------------------------------
(* The calculation runs on the clone, without a lock.                      *)

Changed(s, o, effect) ==
    [rev |-> s.rev,
     config |-> IF "config" \in effect THEN s.config \cup {o} ELSE s.config,
     rules |-> IF "rules" \in effect THEN s.rules \cup {o} ELSE s.rules,
     edits |-> s.edits \cup {o}]

(* The handler changes the clone, or leaves it as it was. *)
Calculate(c) ==
    /\ pc[c] = "calculating"
    /\ \/ UNCHANGED staged
       \/ \E effect \in Effects :
             staged' = [staged EXCEPT ![c] = Changed(staged[c], req[c].op, effect)]
    /\ Advance(c, "calculated")
    /\ UNCHANGED <<durable, process, locks, req, origin, acknowledged>>

(* The handler raises, or the planning budget ends. *)
CalculateFails(c) ==
    /\ pc[c] = "calculating"
    /\ Fail(c)
    /\ UNCHANGED <<durable, process>>

(* plan_writer: the coroutine takes plan_mutation_lock, and keeps it while *)
(* _commit runs in the thread pool.                                        *)
AwaitMutationLock(c) ==
    /\ pc[c] = "calculated"
    /\ c \in ApiCalls
    /\ planMutationLock = NoCall
    /\ planMutationLock' = c
    /\ Advance(c, "queued")
    /\ UNCHANGED <<durable, process, commitLock, req, origin, staged, acknowledged>>

-----------------------------------------------------------------------------
(* _commit, up to the journal row: under commit_lock, without a durable    *)
(* effect before prepare_mutation.                                         *)

MayCommit(c) ==
    /\ pc[c] = IF c \in ApiCalls THEN "queued" ELSE "calculated"
    /\ commitLock = NoCall

(* Mutant: half of the origin is compared. *)
IsStaleByFiles(c) == files # origin[c].files

IsStale(c) == live # origin[c].live \/ files # origin[c].files

(* Mutant: a retry is told the current revision, not its receipt's. *)
CommitReplayCurrent(c) ==
    /\ MayCommit(c)
    /\ IsReplay(req[c].op, req[c].body)
    /\ Succeed(c, req[c].op, live.rev)
    /\ UNCHANGED <<durable, process>>

CommitReplay(c) ==
    /\ MayCommit(c)
    /\ IsReplay(req[c].op, req[c].body)
    /\ Succeed(c, req[c].op, mutations[req[c].op].rev)
    /\ UNCHANGED <<durable, process>>

CommitDifferent(c) ==
    /\ MayCommit(c)
    /\ IsDifferent(req[c].op, req[c].body)
    /\ Fail(c)
    /\ UNCHANGED <<durable, process>>

NoReceipt(c) ==
    /\ ~IsReplay(req[c].op, req[c].body)
    /\ ~IsDifferent(req[c].op, req[c].body)

(* 409 stale_revision: the plan or a file changed during the calculation. *)
CommitStale(c) ==
    /\ MayCommit(c)
    /\ NoReceipt(c)
    /\ IsStale(c)
    /\ Fail(c)
    /\ UNCHANGED <<durable, process>>

(* A checkpoint of the planning scope, a validator, a failed result or a   *)
(* blocked gate ends the write; so does a journal row left by an earlier   *)
(* attempt, whose primary key prepare_mutation would repeat.               *)
CommitRefused(c) ==
    /\ MayCommit(c)
    /\ NoReceipt(c)
    /\ Fail(c)
    /\ UNCHANGED <<durable, process>>

(* The handler changed nothing: its response, without a new revision. *)
CommitUnchanged(c) ==
    /\ MayCommit(c)
    /\ NoReceipt(c)
    /\ ~IsStale(c)
    /\ staged[c] = origin[c].live
    /\ Fail(c)
    /\ UNCHANGED <<durable, process>>

(* Mutant: the journal forgets the rules. *)
TouchedConfig(s) == {f \in {"config"} : s[f] # live[f]}

Touched(s) == {f \in {"config", "rules"} : s[f] # live[f]}

Revised(s, r) == [rev |-> r, config |-> s.config, rules |-> s.rules, edits |-> s.edits]

(* prepare_mutation: the undo journal becomes durable. *)
Prepare(c) ==
    LET o == req[c].op IN
    /\ MayCommit(c)
    /\ NoReceipt(c)
    /\ ~IsStale(c)
    /\ staged[c] # origin[c].live
    /\ mutations[o].status = "none"
    /\ commitLock' = c
    /\ staged' = [staged EXCEPT ![c] = Revised(staged[c], live.rev + 1)]
    /\ mutations' = [mutations EXCEPT ![o] =
            [status |-> "preparing", body |-> req[c].body, rev |-> live.rev + 1,
             touched |-> Touched(staged[c]),
             oldConfig |-> files.config, oldRules |-> files.rules]]
    /\ Advance(c, "prepared")
    /\ UNCHANGED <<files, active, process, planMutationLock, req, origin, acknowledged>>

-----------------------------------------------------------------------------
(* _commit, from the journal row to the swap of the live state.            *)

Journal(c) == mutations[req[c].op]

(* _atomic_text, os.replace: one file is replaced whole, the other stays. *)
WithConfig(text) == [config |-> text, rules |-> files.rules]
WithRules(text) == [config |-> files.config, rules |-> text]

ReplaceConfig(c) ==
    /\ pc[c] = "prepared"
    /\ files' = IF "config" \in Journal(c).touched
                THEN WithConfig(staged[c].config) ELSE files
    /\ Advance(c, "configured")
    /\ UNCHANGED <<active, mutations, process, locks, req, origin, staged, acknowledged>>

ReplaceRules(c) ==
    /\ pc[c] = "configured"
    /\ files' = IF "rules" \in Journal(c).touched
                THEN WithRules(staged[c].rules) ELSE files
    /\ Advance(c, "written")
    /\ UNCHANGED <<active, mutations, process, locks, req, origin, staged, acknowledged>>

(* A file, the checkpoint before the transaction or the transaction fails. *)
WriteFails(c) ==
    /\ pc[c] \in {"prepared", "configured", "written"}
    /\ Advance(c, "failing")
    /\ UNCHANGED <<durable, process, locks, req, origin, staged, acknowledged>>

Receipt(j) == [status |-> "committed", body |-> j.body, rev |-> j.rev,
               touched |-> j.touched, oldConfig |-> j.oldConfig, oldRules |-> j.oldRules]

(* commit_mutation: snapshot, active pointer and receipt in one            *)
(* transaction, whose acknowledgement may be lost.                         *)
CommitMutation(c) ==
    /\ pc[c] = "written"
    /\ active' = [rev |-> staged[c].rev, config |-> staged[c].config,
                  edits |-> staged[c].edits]
    /\ mutations' = [mutations EXCEPT ![req[c].op] = Receipt(Journal(c))]
    /\ \/ Advance(c, "publishing")
       \/ Advance(c, "failing")
    /\ UNCHANGED <<files, process, locks, req, origin, staged, acknowledged>>

(* The receipt shows that only the acknowledgement was lost. *)
RecognizeCommit(c) ==
    /\ pc[c] = "failing"
    /\ Journal(c).status = "committed"
    /\ Advance(c, "publishing")
    /\ UNCHANGED <<durable, process, locks, req, origin, staged, acknowledged>>

UndoConfig(c) ==
    /\ pc[c] = "failing"
    /\ Journal(c).status # "committed"
    /\ files' = IF "config" \in Journal(c).touched
                THEN WithConfig(Journal(c).oldConfig) ELSE files
    /\ Advance(c, "config_undone")
    /\ UNCHANGED <<active, mutations, process, locks, req, origin, staged, acknowledged>>

UndoRules(c) ==
    /\ pc[c] = "config_undone"
    /\ files' = IF "rules" \in Journal(c).touched
                THEN WithRules(Journal(c).oldRules) ELSE files
    /\ Advance(c, "undone")
    /\ UNCHANGED <<active, mutations, process, locks, req, origin, staged, acknowledged>>

AbortMutation(c) ==
    /\ pc[c] = "undone"
    /\ mutations' = [mutations EXCEPT ![req[c].op] = NoJournal]
    /\ Fail(c)
    /\ UNCHANGED <<files, active, process>>

(* The rollback itself raises: the journal stays, the request ends. *)
UndoFails(c) ==
    /\ FaultyUndo
    /\ \/ pc[c] = "failing" /\ Journal(c).status # "committed"
       \/ pc[c] \in {"config_undone", "undone"}
    /\ Fail(c)
    /\ UNCHANGED <<durable, process>>

(* Mutant: the published state keeps the old revision. *)
PublishOldRevision(c) ==
    /\ pc[c] = "publishing"
    /\ live' = Revised(staged[c], live.rev)
    /\ Succeed(c, req[c].op, staged[c].rev)
    /\ UNCHANGED <<durable, boot, undoing>>

(* The clone becomes the live state; post-commit callbacks cannot fail it. *)
Publish(c) ==
    /\ pc[c] = "publishing"
    /\ live' = staged[c]
    /\ Succeed(c, req[c].op, staged[c].rev)
    /\ UNCHANGED <<durable, boot, undoing>>

-----------------------------------------------------------------------------
(* The process stops, and starts again: lifespan of backend/api/copilot.py *)

Crash ==
    /\ boot # "down"
    /\ boot' = "down"
    /\ undoing' = NoOp
    /\ live' = Blank
    /\ planMutationLock' = NoCall
    /\ commitLock' = NoCall
    /\ pc' = [c \in Calls |-> "idle"]
    /\ req' = [c \in Calls |-> NoReq]
    /\ origin' = [c \in Calls |-> [live |-> Blank, files |-> NoFiles]]
    /\ staged' = [c \in Calls |-> Blank]
    /\ UNCHANGED <<durable, acknowledged>>

Start ==
    /\ boot = "down"
    /\ boot' = "recovering"
    /\ UNCHANGED <<durable, live, undoing, locks, requests>>

(* recover_pending_mutations: the files of a journal, then its row. *)
RecoverConfig(o) ==
    /\ boot = "recovering"
    /\ o \in Preparing
    /\ files' = IF "config" \in mutations[o].touched
                THEN WithConfig(mutations[o].oldConfig) ELSE files
    /\ boot' = "config_recovered"
    /\ undoing' = o
    /\ UNCHANGED <<active, mutations, live, locks, requests>>

(* Mutants: recovery forgets the rules file; it keeps the row. *)
RecoverRulesForgotten ==
    /\ boot = "config_recovered"
    /\ boot' = "files_recovered"
    /\ UNCHANGED <<files, active, mutations, live, undoing, locks, requests>>

RecoverKeepsRow ==
    /\ boot = "files_recovered"
    /\ boot' = "recovering"
    /\ undoing' = NoOp
    /\ UNCHANGED <<files, active, mutations, live, locks, requests>>

RecoverRules ==
    /\ boot = "config_recovered"
    /\ files' = IF "rules" \in mutations[undoing].touched
                THEN WithRules(mutations[undoing].oldRules) ELSE files
    /\ boot' = "files_recovered"
    /\ UNCHANGED <<active, mutations, live, undoing, locks, requests>>

RecoverAbort ==
    /\ boot = "files_recovered"
    /\ mutations' = [mutations EXCEPT ![undoing] = NoJournal]
    /\ boot' = "recovering"
    /\ undoing' = NoOp
    /\ UNCHANGED <<files, active, live, locks, requests>>

(* Mutant: another configuration is adopted under the same revision. *)
RestoreSameRevision ==
    /\ boot = "recovering"
    /\ Preparing = {}
    /\ active' = [rev |-> active.rev, config |-> files.config, edits |-> active.edits]
    /\ live' = [rev |-> active.rev, config |-> files.config,
                rules |-> files.rules, edits |-> active.edits]
    /\ boot' = "up"
    /\ UNCHANGED <<files, mutations, undoing, locks, requests>>

(* restore_plan_into_state and _load_rules: the active snapshot with the   *)
(* configuration and the rules of the files; a configuration other than    *)
(* the snapshot's gives the plan a new durable revision.                   *)
Restore ==
    /\ boot = "recovering"
    /\ Preparing = {}
    /\ active' = IF active.config = files.config THEN active
                 ELSE [rev |-> active.rev + 1, config |-> files.config, edits |-> active.edits]
    /\ live' = [rev |-> active'.rev, config |-> files.config,
                rules |-> files.rules, edits |-> active.edits]
    /\ boot' = "up"
    /\ UNCHANGED <<files, mutations, undoing, locks, requests>>

(***************************************************************************)
(* An operator edits the configuration file, at any time but the write     *)
(* window of a commit and the recovery of a journal.                       *)
(***************************************************************************)
EditConfig(e) ==
    /\ boot \in {"up", "down"}
    /\ commitLock = NoCall
    /\ e \notin files.config
    /\ files' = WithConfig(files.config \cup {e})
    /\ UNCHANGED <<active, mutations, process, locks, requests>>

-----------------------------------------------------------------------------
CallStep(c) ==
    \/ Calculate(c) \/ CalculateFails(c) \/ AwaitMutationLock(c)
    \/ CommitReplay(c) \/ CommitDifferent(c) \/ CommitStale(c)
    \/ CommitRefused(c) \/ CommitUnchanged(c) \/ Prepare(c)
    \/ ReplaceConfig(c) \/ ReplaceRules(c) \/ WriteFails(c)
    \/ CommitMutation(c) \/ RecognizeCommit(c)
    \/ UndoConfig(c) \/ UndoRules(c) \/ AbortMutation(c) \/ UndoFails(c)
    \/ Publish(c)

Arrive(c) ==
    \E o \in Ops, b \in Bodies :
        \/ CaptureReplay(c, o, b) \/ CaptureDifferent(c, o, b)
        \/ CapturePending(c, o, b) \/ Capture(c, o, b)

Boot ==
    \/ Start
    \/ \E o \in Ops : RecoverConfig(o)
    \/ RecoverRules \/ RecoverAbort \/ Restore

Next ==
    \/ \E c \in Calls : Arrive(c) \/ CallStep(c)
    \/ Crash
    \/ Boot
    \/ \E e \in Edits : EditConfig(e)

Spec == Init /\ [][Next]_vars

(***************************************************************************)
(* The thread that holds commit_lock runs on, and a stopped server is      *)
(* started again and finishes its start.  No request is promised a lock:   *)
(* threading.RLock has no queue.                                           *)
(***************************************************************************)
WriteStep(c) ==
    \/ ReplaceConfig(c) \/ ReplaceRules(c) \/ CommitMutation(c)
    \/ RecognizeCommit(c) \/ UndoConfig(c) \/ UndoRules(c)
    \/ AbortMutation(c) \/ Publish(c)

Fairness ==
    /\ \A c \in Calls : WF_vars(WriteStep(c))
    /\ WF_vars(Boot)

FairSpec == Spec /\ Fairness

-----------------------------------------------------------------------------
(* Every variable has the type the code gives it: contents hold only       *)
(* changes of operations and edits, a journal row names the files it may   *)
(* restore, and a lock is held by a request or by nobody.                  *)
TypeOK ==
    /\ files \in Files
    /\ active \in Snapshots
    /\ mutations \in [Ops -> Journals]
    /\ live \in States
    /\ boot \in {"up", "down", "recovering", "config_recovered", "files_recovered"}
    /\ undoing \in Ops \cup {NoOp}
    /\ planMutationLock \in Calls \cup {NoCall}
    /\ commitLock \in Calls \cup {NoCall}
    /\ pc \in [Calls -> {"idle", "calculating", "calculated", "queued", "prepared",
                          "configured", "written", "publishing", "failing",
                          "config_undone", "undone"}]
    /\ req \in [Calls -> Requests]
    /\ origin \in [Calls -> [live : States, files : Files]]
    /\ staged \in [Calls -> States]
    /\ acknowledged \subseteq Ops \X Nat

(* The configuration and the rules a restart would end with: those of the  *)
(* files, or of the undo journal that recovery would put back.             *)
Undoes(f) == {o \in Preparing : f \in mutations[o].touched}
EffectiveConfig ==
    IF Undoes("config") = {} THEN files.config
    ELSE mutations[CHOOSE o \in Undoes("config") : TRUE].oldConfig
EffectiveRules ==
    IF Undoes("rules") = {} THEN files.rules
    ELSE mutations[CHOOSE o \in Undoes("rules") : TRUE].oldRules

(* Whenever no commit is under way in a running server the three copies of *)
(* the plan agree: the live state, the active snapshot, and the files (up  *)
(* to edits an operator made by hand); and no undo journal is left behind. *)
CopiesAgree ==
    boot = "up" /\ commitLock = NoCall =>
        /\ Preparing = {}
        /\ live.rev = active.rev /\ live.edits = active.edits
        /\ live.config = active.config
        /\ live.config \cap Ops = files.config \cap Ops
        /\ live.rules = files.rules

(* No read-modify-write is lost: every operation with a committed receipt  *)
(* is in the active plan, and in the configuration and rules it changed,   *)
(* at every instant, through later commits, rollbacks, crashes, recovery.  *)
NoLostUpdate ==
    \A o \in Committed :
        /\ o \in active.edits
        /\ "config" \in mutations[o].touched => o \in EffectiveConfig
        /\ "rules" \in mutations[o].touched => o \in EffectiveRules

(* An answer that says the write succeeded is durable: the receipt exists, *)
(* with the very revision the client was told, also after a crash and when *)
(* a retry was answered from the receipt.                                  *)
AcknowledgedIsDurable ==
    \A a \in acknowledged : a[1] \in Committed /\ mutations[a[1]].rev = a[2]

(* A revision identifies one plan: two receipts never carry the same one,  *)
(* and none is above the revision of the active plan.                      *)
RevisionsIdentifyPlans ==
    \A o \in Committed :
        /\ mutations[o].rev \in 1..active.rev
        /\ \A p \in Committed : mutations[p].rev = mutations[o].rev => p = o

(* The durable plan only moves forward, one revision at a time, and keeps  *)
(* what it contained.                                                      *)
PlanMovesForward ==
    [][active' # active =>
            /\ active'.rev = active.rev + 1
            /\ active.edits \subseteq active'.edits]_vars

(* A committed receipt is never changed, removed or committed again.       *)
ReceiptsArePermanent ==
    [][\A o \in Committed : mutations'[o] = mutations[o]]_vars

(* The whole protocol is one indivisible change per operation, to exactly  *)
(* what its receipt says was touched.                                      *)
Done == {[op |-> o, changes |-> mutations[o].touched] : o \in Committed}
Atomic == INSTANCE AtomicPlan WITH
    rev <- active.rev, plan <- active.edits, config <- EffectiveConfig,
    rules <- EffectiveRules, done <- Done
ImplementsAtomicPlan == Atomic!ASpec

(* Once the server stops crashing, no undo journal stays for ever; one     *)
(* that a failed rollback left behind is resolved by the next start.       *)
JournalsResolved ==
    <>[][~Crash]_vars =>
        \A o \in Ops :
            o \in Preparing /\ (FaultyUndo => boot # "up") ~> o \notin Preparing
=============================================================================
