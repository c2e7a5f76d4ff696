-------------------------- MODULE PlanCommitProofs --------------------------
(***************************************************************************)
(* Proofs about PlanCommit, for every set of operations, requests, hand    *)
(* edits and effects, and whether or not rollbacks may fail.               *)
(*                                                                         *)
(* Typed, the first part of the inductive invariant, adds to the types     *)
(* that a request under way carries an operation.  Receipts says where     *)
(* commit_lock and the journal rows stand at each step of a write,         *)
(* Revisions how the revisions of the three copies of the plan relate, and *)
(* Whole, where rollbacks succeed, what the clone, the journal row and the *)
(* files of the one writer are at each of its steps, and what recovery has *)
(* already put back.                                                       *)
(***************************************************************************)
EXTENDS PlanCommit, TLAPS

USE CallsAssumption, OpsAssumption, EffectsAssumption, FaultAssumption

Carries == \A c \in Calls : pc[c] # "idle" => req[c].op \in Ops /\ req[c].body \in Bodies
RecoversOne == boot \in {"config_recovered", "files_recovered"} => undoing \in Ops
Typed == TypeOK /\ Carries /\ RecoversOne

-----------------------------------------------------------------------------
(* Types.                                                                  *)

LEMMA ConstantTypes ==
    /\ Blank \in States
    /\ NoFiles \in Files
    /\ [live |-> Blank, files |-> NoFiles] \in [live : States, files : Files]
    /\ NoReq \in Requests
    /\ NoJournal \in Journals
    /\ [rev |-> 0, config |-> {}, edits |-> {}] \in Snapshots
BY DEF Blank, States, Contents, NoFiles, Files, NoReq, Requests, NoJournal, Journals, Snapshots

(* What every ending request does to the types of what it touches.         *)
LEMMA EndTypes ==
    ASSUME Typed, NEW c \in Calls, End(c)
    PROVE  /\ pc' \in [Calls -> {"idle", "calculating", "calculated", "queued", "prepared",
                          "configured", "written", "publishing", "failing",
                          "config_undone", "undone"}]
           /\ req' \in [Calls -> Requests]
           /\ origin' \in [Calls -> [live : States, files : Files]]
           /\ staged' \in [Calls -> States]
           /\ planMutationLock' \in Calls \cup {NoCall}
           /\ commitLock' \in Calls \cup {NoCall}
           /\ Carries'
BY ConstantTypes DEF Typed, TypeOK, End, Carries

LEMMA TypeInit == Init => Typed
BY ConstantTypes DEF Init, Typed, TypeOK, Carries, RecoversOne

(* A clone stays a state whatever a handler changes in it.                 *)
LEMMA ChangedType ==
    ASSUME NEW s \in States, NEW o \in Ops, NEW effect \in Effects
    PROVE  Changed(s, o, effect) \in States
BY DEF Changed, States, Contents

LEMMA RevisedType ==
    ASSUME NEW s \in States, NEW r \in Nat
    PROVE  Revised(s, r) \in States /\ Revised(s, r).rev = r /\ Revised(s, r).edits = s.edits
BY DEF Revised, States

(* Replacing one file keeps the other.                                     *)
LEMMA WithTypes ==
    ASSUME TypeOK
    PROVE  /\ \A text \in Contents : WithConfig(text) \in Files
           /\ \A text \in SUBSET Ops : WithRules(text) \in Files
BY DEF TypeOK, WithConfig, WithRules, Files

(* The fields of the journal rows, the clones and the copies of the plan.  *)
LEMMA FieldTypes ==
    ASSUME TypeOK
    PROVE  /\ \A o \in Ops : /\ mutations[o] \in Journals
                             /\ mutations[o].rev \in Nat
                             /\ mutations[o].oldConfig \in Contents
                             /\ mutations[o].oldRules \in SUBSET Ops
           /\ \A c \in Calls : /\ staged[c] \in States
                               /\ staged[c].rev \in Nat
                               /\ staged[c].config \in Contents
                               /\ staged[c].rules \in SUBSET Ops
                               /\ staged[c].edits \in SUBSET Ops
           /\ live \in States /\ live.rev \in Nat
           /\ active.rev \in Nat /\ active.config \in Contents /\ active.edits \in SUBSET Ops
           /\ files.config \in Contents /\ files.rules \in SUBSET Ops
BY DEF TypeOK, Journals, States, Snapshots, Files

LEMMA ReceiptType ==
    ASSUME NEW j \in Journals
    PROVE  Receipt(j) \in Journals /\ Receipt(j).status = "committed"
           /\ Receipt(j).rev = j.rev /\ Receipt(j).body = j.body
BY DEF Receipt, Journals

(* Every step keeps the types.                                             *)
LEMMA TypeStep == Typed /\ [Next]_vars => Typed'
<1> SUFFICES ASSUME Typed, [Next]_vars PROVE Typed'
    OBVIOUS
<1>1. CASE UNCHANGED vars
    BY <1>1 DEF Typed, TypeOK, Carries, RecoversOne, vars
<1>2. ASSUME NEW c \in Calls, Arrive(c) PROVE Typed'
  <2> PICK o \in Ops, b \in Bodies :
        \/ CaptureReplay(c, o, b) \/ CaptureDifferent(c, o, b)
        \/ CapturePending(c, o, b) \/ Capture(c, o, b)
    BY <1>2 DEF Arrive
  <2>1. CASE CaptureReplay(c, o, b)
    BY <2>1, EndTypes, FieldTypes
       DEF CaptureReplay, Succeed, Typed, TypeOK, RecoversOne, durable, process
  <2>2. CASE CaptureDifferent(c, o, b)
    BY <2>2, EndTypes
       DEF CaptureDifferent, Fail, Typed, TypeOK, RecoversOne, durable, process
  <2>3. CASE CapturePending(c, o, b)
    BY <2>3, EndTypes DEF CapturePending, Fail, Typed, TypeOK, RecoversOne, durable, process
  <2>4. CASE Capture(c, o, b)
    BY <2>4, FieldTypes
       DEF Capture, Advance, Typed, TypeOK, Carries, RecoversOne, durable, process,
           locks, Requests, MayCapture
  <2>5. QED
    BY <2>1, <2>2, <2>3, <2>4
<1>3. ASSUME NEW c \in Calls, CallStep(c) PROVE Typed'
  <2>1. CASE Calculate(c)
    BY <2>1, ChangedType, FieldTypes
       DEF Calculate, Advance, Typed, TypeOK, Carries, RecoversOne, durable, process,
           locks
  <2>2. CASE CalculateFails(c)
    BY <2>2, EndTypes DEF CalculateFails, Fail, Typed, TypeOK, RecoversOne, durable, process
  <2>3. CASE AwaitMutationLock(c)
    BY <2>3
       DEF AwaitMutationLock, Advance, Typed, TypeOK, Carries, RecoversOne, process,
           locks, durable
  <2>4. CASE CommitReplay(c)
    BY <2>4, EndTypes, FieldTypes
       DEF CommitReplay, Succeed, Typed, TypeOK, RecoversOne, durable, process,
           MayCommit, Carries
  <2>5. CASE CommitDifferent(c)
    BY <2>5, EndTypes
       DEF CommitDifferent, Fail, Typed, TypeOK, RecoversOne, durable, process
  <2>6. CASE CommitStale(c)
    BY <2>6, EndTypes DEF CommitStale, Fail, Typed, TypeOK, RecoversOne, durable, process
  <2>7. CASE CommitRefused(c)
    BY <2>7, EndTypes DEF CommitRefused, Fail, Typed, TypeOK, RecoversOne, durable, process
  <2>8. CASE CommitUnchanged(c)
    BY <2>8, EndTypes
       DEF CommitUnchanged, Fail, Typed, TypeOK, RecoversOne, durable, process
  <2>9. CASE Prepare(c)
    <3>1. req[c].op \in Ops /\ req[c].body \in Bodies /\ live.rev + 1 \in Nat
      BY <2>9, FieldTypes DEF Prepare, MayCommit, Typed, Carries
    <3>2. Revised(staged[c], live.rev + 1) \in States
      BY <3>1, RevisedType, FieldTypes DEF Typed
    <3>3. [status |-> "preparing", body |-> req[c].body, rev |-> live.rev + 1,
           touched |-> Touched(staged[c]),
           oldConfig |-> files.config, oldRules |-> files.rules] \in Journals
      BY <3>1, FieldTypes DEF Typed, Journals, Touched
    <3>4. QED
      BY <2>9, <3>1, <3>2, <3>3
         DEF Prepare, Advance, MayCommit, Typed, TypeOK, Carries, RecoversOne,
             durable, process, locks
  <2>10. CASE ReplaceConfig(c)
    BY <2>10, FieldTypes, WithTypes
       DEF ReplaceConfig, Advance, Typed, TypeOK, Carries, RecoversOne, durable, process,
           locks, Journal
  <2>11. CASE ReplaceRules(c)
    BY <2>11, FieldTypes, WithTypes
       DEF ReplaceRules, Advance, Typed, TypeOK, Carries, RecoversOne, durable, process,
           locks, Journal
  <2>12. CASE WriteFails(c)
    BY <2>12
       DEF WriteFails, Advance, Typed, TypeOK, Carries, RecoversOne, durable, process,
           locks
  <2>13. CASE CommitMutation(c)
    BY <2>13, FieldTypes, ReceiptType
       DEF CommitMutation, Advance, Typed, TypeOK, Carries, RecoversOne, durable,
           process, locks, Journal, Snapshots
  <2>14. CASE RecognizeCommit(c)
    BY <2>14
       DEF RecognizeCommit, Advance, Typed, TypeOK, Carries, RecoversOne, durable,
           process, locks
  <2>15. CASE UndoConfig(c)
    BY <2>15, FieldTypes, WithTypes
       DEF UndoConfig, Advance, Typed, TypeOK, Carries, RecoversOne, durable, process,
           locks, Journal
  <2>16. CASE UndoRules(c)
    BY <2>16, FieldTypes, WithTypes
       DEF UndoRules, Advance, Typed, TypeOK, Carries, RecoversOne, durable, process,
           locks, Journal
  <2>17. CASE AbortMutation(c)
    BY <2>17, EndTypes, ConstantTypes
       DEF AbortMutation, Fail, Typed, TypeOK, RecoversOne, durable, process
  <2>18. CASE UndoFails(c)
    BY <2>18, EndTypes DEF UndoFails, Fail, Typed, TypeOK, RecoversOne, durable, process
  <2>19. CASE Publish(c)
    BY <2>19, EndTypes, FieldTypes
       DEF Publish, Succeed, Typed, TypeOK, RecoversOne, durable, process, Carries
  <2>20. QED
    BY <1>3, <2>1, <2>2, <2>3, <2>4, <2>5, <2>6, <2>7, <2>8, <2>9,
       <2>10, <2>11, <2>12, <2>13, <2>14, <2>15, <2>16, <2>17, <2>18, <2>19
       DEF CallStep
<1>4. CASE Crash
    BY <1>4, ConstantTypes
       DEF Crash, Typed, TypeOK, Carries, RecoversOne, durable, process, locks, requests
<1>5. CASE Boot
  <2>1. CASE Start
    BY <2>1
       DEF Start, Typed, TypeOK, Carries, RecoversOne, durable, process, locks, requests
  <2>2. ASSUME NEW o \in Ops, RecoverConfig(o) PROVE Typed'
    BY <2>2, FieldTypes, WithTypes
       DEF RecoverConfig, Typed, TypeOK, Carries, RecoversOne, durable, process, locks,
           requests
  <2>3. CASE RecoverRules
    BY <2>3, FieldTypes, WithTypes
       DEF RecoverRules, Typed, TypeOK, Carries, RecoversOne, durable, process, locks,
           requests
  <2>4. CASE RecoverAbort
    BY <2>4, ConstantTypes
       DEF RecoverAbort, Typed, TypeOK, Carries, RecoversOne, durable, process, locks,
           requests
  <2>5. CASE Restore
    BY <2>5, FieldTypes
       DEF Restore, Typed, TypeOK, Carries, RecoversOne, durable, process, locks,
           requests, Snapshots, States
  <2>6. QED
    BY <1>5, <2>1, <2>2, <2>3, <2>4, <2>5 DEF Boot
<1>6. ASSUME NEW e \in Edits, EditConfig(e) PROVE Typed'
    BY <1>6, FieldTypes, WithTypes
       DEF EditConfig, Typed, TypeOK, Carries, RecoversOne, durable, process, locks,
           requests, Contents
<1>7. QED
    BY <1>1, <1>2, <1>3, <1>4, <1>5, <1>6 DEF Next

(* Every variable keeps the type the code gives it, whatever requests,     *)
(* failures, crashes and edits arrive.                                     *)
THEOREM TypeCorrect == Spec => []TypeOK
<1>1. Typed => TypeOK
    BY DEF Typed
<1>2. QED
    BY TypeInit, TypeStep, <1>1, PTL DEF Spec

-----------------------------------------------------------------------------
(* Locks, journal rows and receipts.                                       *)

WriteSteps == {"prepared", "configured", "written", "publishing", "failing",
               "config_undone", "undone"}

(* The calls past prepare_mutation are exactly the holder of commit_lock.  *)
Locking == \A c \in Calls : pc[c] \in WriteSteps <=> commitLock = c

(* A stopped or starting server has no requests.                           *)
Stopped == boot # "up" => \A c \in Calls : pc[c] = "idle"

(* A writer's row has the revision of its clone, and is an undo journal    *)
(* until the transaction makes it a receipt.                               *)
Journaling ==
    \A c \in Calls : pc[c] \in WriteSteps =>
        /\ Journal(c).rev = staged[c].rev
        /\ Journal(c).status \in {"preparing", "committed"}
        /\ pc[c] = "publishing" => Journal(c).status = "committed"
        /\ pc[c] \notin {"publishing", "failing"} => Journal(c).status = "preparing"

(* Recovery undoes journals, never receipts.                               *)
UndoesJournal == boot \in {"config_recovered", "files_recovered"} => undoing \in Preparing

Receipts == Typed /\ Locking /\ Stopped /\ Journaling /\ UndoesJournal /\ AcknowledgedIsDurable

LEMMA ReceiptsInit == Init => Receipts
BY TypeInit DEF Init, Receipts, Locking, Stopped, Journaling, UndoesJournal, WriteSteps,
                AcknowledgedIsDurable

(* A request that ends leaves the other requests as they are, and gives up *)
(* commit_lock exactly when it holds it.                                   *)
LEMMA EndMoves ==
    ASSUME Typed, Locking, Stopped, NEW c \in Calls, End(c)
    PROVE  /\ pc'[c] = "idle"
           /\ \A d \in Calls \ {c} : /\ pc'[d] = pc[d] /\ req'[d] = req[d]
                                     /\ staged'[d] = staged[d] /\ origin'[d] = origin[d]
           /\ Locking'
           /\ \A d \in Calls : pc[d] = "idle" => pc'[d] = "idle"
BY DEF Typed, TypeOK, Locking, End, WriteSteps

(* A request that only advances leaves the other requests as they are.     *)
LEMMA AdvanceMoves ==
    ASSUME Typed, NEW c \in Calls, NEW step, Advance(c, step)
    PROVE  /\ pc'[c] = step
           /\ \A d \in Calls \ {c} : pc'[d] = pc[d]
BY DEF Typed, TypeOK, Advance

(* Nobody writes when a writer ends.                                       *)
LEMMA LastWriter ==
    ASSUME Typed, Locking, Stopped, NEW c \in Calls, pc[c] \in WriteSteps, End(c)
    PROVE  \A d \in Calls : pc'[d] \notin WriteSteps
BY EndMoves DEF Locking, WriteSteps

(* Every step keeps the locks, the journal rows and the receipts in order. *)
LEMMA ReceiptsStep == Receipts /\ [Next]_vars => Receipts'
<1> SUFFICES ASSUME Receipts, [Next]_vars PROVE Receipts'
    OBVIOUS
<1>0. Typed'
    BY TypeStep DEF Receipts
<1>1. CASE UNCHANGED vars
    BY <1>1 DEF Receipts, Typed, TypeOK, Carries, RecoversOne, Locking, Stopped,
       Journaling, UndoesJournal, AcknowledgedIsDurable, Journal, Preparing, Committed, vars
<1>2. ASSUME NEW c \in Calls, Arrive(c) PROVE Receipts'
  <2> PICK o \in Ops, b \in Bodies :
        \/ CaptureReplay(c, o, b) \/ CaptureDifferent(c, o, b)
        \/ CapturePending(c, o, b) \/ Capture(c, o, b)
    BY <1>2 DEF Arrive
  <2>1. CASE CaptureReplay(c, o, b)
    BY <2>1, <1>0, EndMoves
       DEF CaptureReplay, IsReplay, MayCapture, Succeed, Receipts, Stopped, Journaling,
           UndoesJournal, AcknowledgedIsDurable, Preparing, Committed, Journal, durable,
           process, WriteSteps
  <2>2. CASE CaptureDifferent(c, o, b)
    BY <2>2, <1>0, EndMoves
       DEF CaptureDifferent, MayCapture, Fail, Receipts, Stopped, Journaling,
           UndoesJournal, AcknowledgedIsDurable, Preparing, Committed, Journal, durable,
           process, WriteSteps
  <2>3. CASE CapturePending(c, o, b)
    BY <2>3, <1>0, EndMoves
       DEF CapturePending, MayCapture, Fail, Receipts, Stopped, Journaling,
           UndoesJournal, AcknowledgedIsDurable, Preparing, Committed, Journal, durable,
           process, WriteSteps
  <2>4. CASE Capture(c, o, b)
    BY <2>4, <1>0, AdvanceMoves
       DEF Capture, Receipts, Stopped, Journaling, UndoesJournal, AcknowledgedIsDurable,
           Preparing, Committed, Journal, durable, process, Locking, locks, WriteSteps,
           MayCapture, Typed, TypeOK
  <2>5. QED
    BY <2>1, <2>2, <2>3, <2>4
<1>3. ASSUME NEW c \in Calls, CallStep(c) PROVE Receipts'
  <2>1. CASE Calculate(c)
    BY <2>1, <1>0, AdvanceMoves
       DEF Calculate, Receipts, Stopped, Journaling, UndoesJournal,
           AcknowledgedIsDurable, Preparing, Committed, Journal, durable, process,
           Locking, locks, WriteSteps, Typed, TypeOK
  <2>2. CASE CalculateFails(c)
    BY <2>2, <1>0, EndMoves
       DEF CalculateFails, Fail, Receipts, Stopped, Journaling, UndoesJournal,
           AcknowledgedIsDurable, Preparing, Committed, Journal, durable, process,
           WriteSteps
  <2>3. CASE AwaitMutationLock(c)
    BY <2>3, <1>0, AdvanceMoves
       DEF AwaitMutationLock, Receipts, Stopped, Journaling, UndoesJournal,
           AcknowledgedIsDurable, Preparing, Committed, Journal, durable, process,
           Locking, locks, WriteSteps
  <2>4. CASE CommitReplay(c)
    BY <2>4, <1>0, EndMoves
       DEF CommitReplay, IsReplay, MayCommit, Succeed, Receipts, Stopped, Journaling,
           UndoesJournal, AcknowledgedIsDurable, Preparing, Committed, Journal, durable,
           process, Carries, Typed, WriteSteps
  <2>5. CASE CommitDifferent(c)
    BY <2>5, <1>0, EndMoves
       DEF CommitDifferent, MayCommit, Fail, Receipts, Stopped, Journaling,
           UndoesJournal, AcknowledgedIsDurable, Preparing, Committed, Journal, durable,
           process, WriteSteps
  <2>6. CASE CommitStale(c)
    BY <2>6, <1>0, EndMoves
       DEF CommitStale, MayCommit, Fail, Receipts, Stopped, Journaling, UndoesJournal,
           AcknowledgedIsDurable, Preparing, Committed, Journal, durable, process,
           WriteSteps
  <2>7. CASE CommitRefused(c)
    BY <2>7, <1>0, EndMoves
       DEF CommitRefused, MayCommit, Fail, Receipts, Stopped, Journaling, UndoesJournal,
           AcknowledgedIsDurable, Preparing, Committed, Journal, durable, process,
           WriteSteps
  <2>8. CASE CommitUnchanged(c)
    BY <2>8, <1>0, EndMoves
       DEF CommitUnchanged, MayCommit, Fail, Receipts, Stopped, Journaling,
           UndoesJournal, AcknowledgedIsDurable, Preparing, Committed, Journal, durable,
           process, WriteSteps
  <2>9. CASE Prepare(c)
    BY <2>9, <1>0, AdvanceMoves
       DEF Prepare, Receipts, Stopped, Journaling, UndoesJournal, AcknowledgedIsDurable,
           Preparing, Committed, Journal, durable, process, Locking, locks, WriteSteps,
           MayCommit, Typed, TypeOK, Carries, Revised
  <2>10. CASE ReplaceConfig(c)
    BY <2>10, <1>0, AdvanceMoves
       DEF ReplaceConfig, Receipts, Stopped, Journaling, UndoesJournal,
           AcknowledgedIsDurable, Preparing, Committed, Journal, durable, process,
           Locking, locks, WriteSteps
  <2>11. CASE ReplaceRules(c)
    BY <2>11, <1>0, AdvanceMoves
       DEF ReplaceRules, Receipts, Stopped, Journaling, UndoesJournal,
           AcknowledgedIsDurable, Preparing, Committed, Journal, durable, process,
           Locking, locks, WriteSteps
  <2>12. CASE WriteFails(c)
    BY <2>12, <1>0, AdvanceMoves
       DEF WriteFails, Receipts, Stopped, Journaling, UndoesJournal,
           AcknowledgedIsDurable, Preparing, Committed, Journal, durable, process,
           Locking, locks, WriteSteps
  <2>13. CASE CommitMutation(c)
    BY <2>13, <1>0, AdvanceMoves, ReceiptType, FieldTypes
       DEF CommitMutation, Receipts, Stopped, Journaling, UndoesJournal,
           AcknowledgedIsDurable, Preparing, Committed, Journal, durable, process,
           Locking, locks, WriteSteps, Typed, TypeOK, Carries
  <2>14. CASE RecognizeCommit(c)
    BY <2>14, <1>0, AdvanceMoves
       DEF RecognizeCommit, Receipts, Stopped, Journaling, UndoesJournal,
           AcknowledgedIsDurable, Preparing, Committed, Journal, durable, process,
           Locking, locks, WriteSteps
  <2>15. CASE UndoConfig(c)
    BY <2>15, <1>0, AdvanceMoves
       DEF UndoConfig, Receipts, Stopped, Journaling, UndoesJournal,
           AcknowledgedIsDurable, Preparing, Committed, Journal, durable, process,
           Locking, locks, WriteSteps
  <2>16. CASE UndoRules(c)
    BY <2>16, <1>0, AdvanceMoves
       DEF UndoRules, Receipts, Stopped, Journaling, UndoesJournal,
           AcknowledgedIsDurable, Preparing, Committed, Journal, durable, process,
           Locking, locks, WriteSteps
  <2>17. CASE AbortMutation(c)
    <3>1. req[c].op \in Ops /\ mutations[req[c].op].status = "preparing" /\ boot = "up"
      BY <2>17 DEF AbortMutation, Journal, Receipts, Journaling, Stopped, Typed, Carries, WriteSteps
    <3>2. mutations' = [mutations EXCEPT ![req[c].op] = NoJournal] /\ Committed' = Committed
      BY <2>17, <3>1 DEF AbortMutation, Receipts, Typed, TypeOK, Committed, NoJournal
    <3>3. AcknowledgedIsDurable'
      BY <2>17, <3>1, <3>2 DEF AbortMutation, Fail, Receipts, Typed, TypeOK, AcknowledgedIsDurable,
                             Committed
    <3>4. \A d \in Calls : pc'[d] \notin WriteSteps
      BY <2>17, LastWriter DEF AbortMutation, Fail, Receipts, WriteSteps
    <3>5. QED
      BY <2>17, <1>0, <3>1, <3>3, <3>4, EndMoves
         DEF AbortMutation, Fail, Receipts, Stopped, Journaling, UndoesJournal, process
  <2>18. CASE UndoFails(c)
    BY <2>18, <1>0, EndMoves
       DEF UndoFails, Fail, Receipts, Stopped, Journaling, UndoesJournal,
           AcknowledgedIsDurable, Preparing, Committed, Journal, durable, process,
           WriteSteps
  <2>19. CASE Publish(c)
    BY <2>19, <1>0, EndMoves
       DEF Publish, Succeed, Receipts, Stopped, Journaling, UndoesJournal,
           AcknowledgedIsDurable, Preparing, Committed, Journal, durable, process,
           WriteSteps, Carries, Typed, TypeOK, Locking
  <2>20. QED
    BY <1>3, <2>1, <2>2, <2>3, <2>4, <2>5, <2>6, <2>7, <2>8, <2>9,
       <2>10, <2>11, <2>12, <2>13, <2>14, <2>15, <2>16, <2>17, <2>18, <2>19
       DEF CallStep
<1>4. CASE Crash
    BY <1>4, <1>0
       DEF Crash, Receipts, Stopped, Journaling, UndoesJournal, AcknowledgedIsDurable,
           Preparing, Committed, Journal, durable, process, Locking, locks, requests,
           WriteSteps, Typed, TypeOK
<1>5. CASE Boot
  <2>1. CASE Start
    BY <2>1, <1>0
       DEF Start, Receipts, Stopped, Journaling, UndoesJournal, AcknowledgedIsDurable,
           Preparing, Committed, Journal, durable, process, Locking, locks, requests,
           WriteSteps, Typed, TypeOK
  <2>2. ASSUME NEW o \in Ops, RecoverConfig(o) PROVE Receipts'
    BY <2>2, <1>0
       DEF RecoverConfig, Receipts, Stopped, Journaling, UndoesJournal,
           AcknowledgedIsDurable, Preparing, Committed, Journal, durable, process,
           Locking, locks, requests, WriteSteps, Typed, TypeOK
  <2>3. CASE RecoverRules
    BY <2>3, <1>0
       DEF RecoverRules, Receipts, Stopped, Journaling, UndoesJournal,
           AcknowledgedIsDurable, Preparing, Committed, Journal, durable, process,
           Locking, locks, requests, WriteSteps, Typed, TypeOK
  <2>4. CASE RecoverAbort
    BY <2>4, <1>0
       DEF RecoverAbort, Receipts, Stopped, Journaling, UndoesJournal,
           AcknowledgedIsDurable, Preparing, Committed, Journal, durable, process,
           Locking, locks, requests, WriteSteps, Typed, TypeOK, RecoversOne
  <2>5. CASE Restore
    BY <2>5, <1>0
       DEF Restore, Receipts, Stopped, Journaling, UndoesJournal, AcknowledgedIsDurable,
           Preparing, Committed, Journal, durable, process, Locking, locks, requests,
           WriteSteps, Typed, TypeOK
  <2>6. QED
    BY <1>5, <2>1, <2>2, <2>3, <2>4, <2>5 DEF Boot
<1>6. ASSUME NEW e \in Edits, EditConfig(e) PROVE Receipts'
    BY <1>6, <1>0
       DEF EditConfig, Receipts, Stopped, Journaling, UndoesJournal,
           AcknowledgedIsDurable, Preparing, Committed, Journal, durable, process,
           Locking, locks, requests, WriteSteps
<1>7. QED
    BY <1>1, <1>2, <1>3, <1>4, <1>5, <1>6 DEF Next

(* An answer that says the write succeeded is durable, with the revision   *)
(* the client was told, through crashes, retries and failing rollbacks.    *)
THEOREM AcknowledgementsAreDurable == Spec => []AcknowledgedIsDurable
<1>1. Receipts => AcknowledgedIsDurable
    BY DEF Receipts
<1>2. QED
    BY ReceiptsInit, ReceiptsStep, <1>1, PTL DEF Spec

(* Journal rows and receipts are written by three steps of a write and by  *)
(* recovery, and the active plan by two steps.                             *)
LEMMA WhoWritesRows ==
    ASSUME [Next]_vars, mutations' # mutations
    PROVE  \/ \E c \in Calls : Prepare(c) \/ CommitMutation(c) \/ AbortMutation(c)
           \/ RecoverAbort
<1>1. ASSUME NEW c \in Calls, Arrive(c) PROVE mutations' = mutations
    BY <1>1 DEF Arrive, durable, CaptureReplay, CaptureDifferent, CapturePending, Capture
<1>2. ASSUME NEW c \in Calls, CallStep(c)
      PROVE  \/ mutations' = mutations
             \/ Prepare(c) \/ CommitMutation(c) \/ AbortMutation(c)
    BY <1>2 DEF CallStep, durable, Calculate, CalculateFails, AwaitMutationLock, CommitReplay,
                CommitDifferent, CommitStale, CommitRefused, CommitUnchanged, ReplaceConfig,
                ReplaceRules, WriteFails, RecognizeCommit, UndoConfig, UndoRules, UndoFails,
                Publish
<1>3. Crash \/ (\E e \in Edits : EditConfig(e)) \/ UNCHANGED vars => mutations' = mutations
    BY DEF Crash, EditConfig, durable, vars
<1>4. Boot => mutations' = mutations \/ RecoverAbort
    BY DEF Boot, Start, RecoverConfig, RecoverRules, Restore, durable
<1>5. QED
    BY <1>1, <1>2, <1>3, <1>4 DEF Next

LEMMA WhoMovesThePlan ==
    ASSUME [Next]_vars, active' # active
    PROVE  Restore \/ \E c \in Calls : CommitMutation(c)
<1>1. ASSUME NEW c \in Calls, Arrive(c) PROVE active' = active
    BY <1>1 DEF Arrive, durable, CaptureReplay, CaptureDifferent, CapturePending, Capture
<1>2. ASSUME NEW c \in Calls, CallStep(c) PROVE active' = active \/ CommitMutation(c)
    BY <1>2 DEF CallStep, durable, Calculate, CalculateFails, AwaitMutationLock, CommitReplay,
                CommitDifferent, CommitStale, CommitRefused, CommitUnchanged, Prepare,
                ReplaceConfig, ReplaceRules, WriteFails, RecognizeCommit, UndoConfig,
                UndoRules, AbortMutation, UndoFails, Publish
<1>3. Crash \/ (\E e \in Edits : EditConfig(e)) \/ UNCHANGED vars => active' = active
    BY DEF Crash, EditConfig, durable, vars
<1>4. Boot => active' = active \/ Restore
    BY DEF Boot, Start, RecoverConfig, RecoverRules, RecoverAbort, durable
<1>5. QED
    BY <1>1, <1>2, <1>3, <1>4 DEF Next

(* No step touches the row of a committed receipt.                         *)
LEMMA ReceiptsKept ==
    ASSUME Receipts, [Next]_vars
    PROVE  \A o \in Committed : mutations'[o] = mutations[o]
<1>1. CASE mutations' = mutations
    BY <1>1
<1>2. ASSUME NEW c \in Calls, Prepare(c) PROVE \A o \in Committed : mutations'[o] = mutations[o]
    BY <1>2 DEF Prepare, MayCommit, Committed, Receipts, Typed, TypeOK, Carries
<1>3. ASSUME NEW c \in Calls, CommitMutation(c)
      PROVE  \A o \in Committed : mutations'[o] = mutations[o]
    BY <1>3 DEF CommitMutation, Journal, Committed, Receipts, Journaling, WriteSteps,
                Typed, TypeOK, Carries
<1>4. ASSUME NEW c \in Calls, AbortMutation(c)
      PROVE  \A o \in Committed : mutations'[o] = mutations[o]
    BY <1>4 DEF AbortMutation, Journal, Committed, Receipts, Journaling, WriteSteps,
                Typed, TypeOK, Carries
<1>5. CASE RecoverAbort
    BY <1>5 DEF RecoverAbort, Preparing, Committed, Receipts, UndoesJournal, Typed, TypeOK
<1>6. QED
    BY <1>1, <1>2, <1>3, <1>4, <1>5, WhoWritesRows

(* A committed receipt is never changed, removed or committed again.       *)
THEOREM ReceiptsStay == Spec => ReceiptsArePermanent
BY ReceiptsInit, ReceiptsStep, ReceiptsKept, PTL DEF Spec, ReceiptsArePermanent

-----------------------------------------------------------------------------
(* Revisions.                                                              *)

(* A clone contains what the state it was taken from contained.            *)
Cloned == \A c \in Calls : pc[c] \in {"calculating", "calculated", "queued"} =>
                origin[c].live.edits \subseteq staged[c].edits

(* Unless a writer has committed and not yet published, the live state is  *)
(* the active plan.                                                        *)
LiveIsActive ==
    boot = "up" /\ (\A c \in Calls : pc[c] \in WriteSteps => Journal(c).status = "preparing") =>
        live.rev = active.rev /\ live.edits = active.edits

(* A writer's clone is one revision ahead of the active plan until its     *)
(* transaction, and the active plan after it.                              *)
OneAhead ==
    \A c \in Calls : pc[c] \in WriteSteps =>
        /\ Journal(c).status = "preparing" =>
                staged[c].rev = active.rev + 1 /\ active.edits \subseteq staged[c].edits
        /\ Journal(c).status = "committed" =>
                staged[c].rev = active.rev /\ staged[c].edits = active.edits

Revisions == Receipts /\ Cloned /\ LiveIsActive /\ OneAhead /\ RevisionsIdentifyPlans

LEMMA RevisionsInit == Init => Revisions
BY ReceiptsInit DEF Init, Revisions, Cloned, LiveIsActive, OneAhead, RevisionsIdentifyPlans,
                    Committed, WriteSteps, Blank, NoJournal

(* Every step keeps the revisions in order.                                *)
LEMMA RevisionsStep == Revisions /\ [Next]_vars => Revisions'
<1> SUFFICES ASSUME Revisions, [Next]_vars PROVE Revisions'
    OBVIOUS
<1>0. Receipts'
    BY ReceiptsStep DEF Revisions
<1>1. CASE UNCHANGED vars
    BY <1>1 DEF Revisions, Receipts, Typed, TypeOK, Carries, RecoversOne, Locking, Stopped,
       Journaling, UndoesJournal, AcknowledgedIsDurable, Cloned, LiveIsActive, OneAhead,
       RevisionsIdentifyPlans, Journal, Preparing, Committed, vars
<1>2. ASSUME NEW c \in Calls, Arrive(c) PROVE Revisions'
  <2> PICK o \in Ops, b \in Bodies :
        \/ CaptureReplay(c, o, b) \/ CaptureDifferent(c, o, b)
        \/ CapturePending(c, o, b) \/ Capture(c, o, b)
    BY <1>2 DEF Arrive
  <2>1. CASE CaptureReplay(c, o, b)
    BY <2>1, <1>0, EndMoves
       DEF CaptureReplay, MayCapture, Succeed, Revisions, Receipts, Cloned, LiveIsActive,
           OneAhead, RevisionsIdentifyPlans, Committed, Journal, durable, process,
           WriteSteps
  <2>2. CASE CaptureDifferent(c, o, b)
    BY <2>2, <1>0, EndMoves
       DEF CaptureDifferent, MayCapture, Fail, Revisions, Receipts, Cloned, LiveIsActive,
           OneAhead, RevisionsIdentifyPlans, Committed, Journal, durable, process,
           WriteSteps
  <2>3. CASE CapturePending(c, o, b)
    BY <2>3, <1>0, EndMoves
       DEF CapturePending, MayCapture, Fail, Revisions, Receipts, Cloned, LiveIsActive,
           OneAhead, RevisionsIdentifyPlans, Committed, Journal, durable, process,
           WriteSteps
  <2>4. CASE Capture(c, o, b)
    BY <2>4, <1>0, AdvanceMoves
       DEF Capture, Revisions, Receipts, Cloned, LiveIsActive, OneAhead,
           RevisionsIdentifyPlans, Committed, Journal, durable, process, Locking, locks,
           WriteSteps, MayCapture, Typed, TypeOK
  <2>5. QED
    BY <2>1, <2>2, <2>3, <2>4
<1>3. ASSUME NEW c \in Calls, CallStep(c) PROVE Revisions'
  <2>1. CASE Calculate(c)
    <3>1. origin[c].live.edits \subseteq staged'[c].edits
      BY <2>1 DEF Calculate, Revisions, Receipts, Cloned, Typed, TypeOK, Changed
    <3>2. \A d \in Calls \ {c} : staged'[d] = staged[d]
      BY <2>1 DEF Calculate, Revisions, Receipts, Typed, TypeOK
    <3>3. Cloned'
      BY <2>1, <3>1, <3>2, AdvanceMoves DEF Calculate, Revisions, Receipts, Cloned
    <3>4. OneAhead' /\ LiveIsActive'
      BY <2>1, <3>2, AdvanceMoves
         DEF Calculate, Revisions, Receipts, OneAhead, LiveIsActive, Journal, WriteSteps,
             durable, process
    <3>5. QED
      BY <2>1, <1>0, <3>3, <3>4
         DEF Calculate, Revisions, RevisionsIdentifyPlans, Committed, durable
  <2>2. CASE CalculateFails(c)
    BY <2>2, <1>0, EndMoves
       DEF CalculateFails, Fail, Revisions, Receipts, Cloned, LiveIsActive, OneAhead,
           RevisionsIdentifyPlans, Committed, Journal, durable, process, WriteSteps
  <2>3. CASE AwaitMutationLock(c)
    BY <2>3, <1>0, AdvanceMoves
       DEF AwaitMutationLock, Revisions, Receipts, Cloned, LiveIsActive, OneAhead,
           RevisionsIdentifyPlans, Committed, Journal, durable, process, Locking, locks,
           WriteSteps
  <2>4. CASE CommitReplay(c)
    BY <2>4, <1>0, EndMoves
       DEF CommitReplay, MayCommit, Succeed, Revisions, Receipts, Cloned, LiveIsActive,
           OneAhead, RevisionsIdentifyPlans, Committed, Journal, durable, process,
           WriteSteps
  <2>5. CASE CommitDifferent(c)
    BY <2>5, <1>0, EndMoves
       DEF CommitDifferent, MayCommit, Fail, Revisions, Receipts, Cloned, LiveIsActive,
           OneAhead, RevisionsIdentifyPlans, Committed, Journal, durable, process,
           WriteSteps
  <2>6. CASE CommitStale(c)
    BY <2>6, <1>0, EndMoves
       DEF CommitStale, MayCommit, Fail, Revisions, Receipts, Cloned, LiveIsActive,
           OneAhead, RevisionsIdentifyPlans, Committed, Journal, durable, process,
           WriteSteps
  <2>7. CASE CommitRefused(c)
    BY <2>7, <1>0, EndMoves
       DEF CommitRefused, MayCommit, Fail, Revisions, Receipts, Cloned, LiveIsActive,
           OneAhead, RevisionsIdentifyPlans, Committed, Journal, durable, process,
           WriteSteps
  <2>8. CASE CommitUnchanged(c)
    BY <2>8, <1>0, EndMoves
       DEF CommitUnchanged, MayCommit, Fail, Revisions, Receipts, Cloned, LiveIsActive,
           OneAhead, RevisionsIdentifyPlans, Committed, Journal, durable, process,
           WriteSteps
  <2>9. CASE Prepare(c)
    <3> DEFINE o == req[c].op
    <3>1. /\ o \in Ops /\ mutations[o].status = "none"
          /\ pc[c] \in {"calculated", "queued"} /\ boot = "up"
          /\ live = origin[c].live
      BY <2>9 DEF Prepare, MayCommit, IsStale, Revisions, Receipts, Stopped, Typed, Carries
    <3>2. \A d \in Calls : pc[d] \notin WriteSteps
      BY <2>9 DEF Prepare, MayCommit, Revisions, Receipts, Locking
    <3>3. live.rev = active.rev /\ live.edits = active.edits
      BY <3>1, <3>2 DEF Revisions, LiveIsActive
    <3>4. staged'[c].rev = active.rev + 1 /\ active.edits \subseteq staged'[c].edits
      BY <2>9, <3>1, <3>3 DEF Prepare, Revised, Revisions, Receipts, Cloned, Typed, TypeOK
    <3>5. Committed' = Committed /\ \A p \in Committed : mutations'[p] = mutations[p]
      BY <2>9, <3>1 DEF Prepare, Committed, Revisions, Receipts, Typed, TypeOK
    <3>6. mutations'[o].status = "preparing"
      BY <2>9, <3>1 DEF Prepare, Revisions, Receipts, Typed, TypeOK
    <3>7. Cloned' /\ OneAhead' /\ LiveIsActive'
      BY <2>9, <3>1, <3>2, <3>3, <3>4, <3>6, AdvanceMoves
         DEF Prepare, Revisions, Receipts, Typed, TypeOK, Cloned, OneAhead, LiveIsActive,
             Journal, WriteSteps, process
    <3>8. RevisionsIdentifyPlans'
      BY <2>9, <3>5 DEF Prepare, Revisions, RevisionsIdentifyPlans
    <3>9. QED
      BY <1>0, <3>7, <3>8 DEF Revisions
  <2>10. CASE ReplaceConfig(c)
    BY <2>10, <1>0, AdvanceMoves
       DEF ReplaceConfig, Revisions, Receipts, Cloned, LiveIsActive, OneAhead,
           RevisionsIdentifyPlans, Committed, Journal, durable, process, Locking, locks,
           WriteSteps
  <2>11. CASE ReplaceRules(c)
    BY <2>11, <1>0, AdvanceMoves
       DEF ReplaceRules, Revisions, Receipts, Cloned, LiveIsActive, OneAhead,
           RevisionsIdentifyPlans, Committed, Journal, durable, process, Locking, locks,
           WriteSteps
  <2>12. CASE WriteFails(c)
    BY <2>12, <1>0, AdvanceMoves
       DEF WriteFails, Revisions, Receipts, Cloned, LiveIsActive, OneAhead,
           RevisionsIdentifyPlans, Committed, Journal, durable, process, Locking, locks,
           WriteSteps
  <2>13. CASE CommitMutation(c)
    BY <2>13, <1>0, AdvanceMoves, ReceiptType, FieldTypes
       DEF CommitMutation, Revisions, Receipts, Cloned, LiveIsActive, OneAhead,
           RevisionsIdentifyPlans, Committed, Journal, durable, process, Locking, locks,
           WriteSteps, Journaling, Typed, TypeOK, Carries
  <2>14. CASE RecognizeCommit(c)
    BY <2>14, <1>0, AdvanceMoves
       DEF RecognizeCommit, Revisions, Receipts, Cloned, LiveIsActive, OneAhead,
           RevisionsIdentifyPlans, Committed, Journal, durable, process, Locking, locks,
           WriteSteps
  <2>15. CASE UndoConfig(c)
    BY <2>15, <1>0, AdvanceMoves
       DEF UndoConfig, Revisions, Receipts, Cloned, LiveIsActive, OneAhead,
           RevisionsIdentifyPlans, Committed, Journal, durable, process, Locking, locks,
           WriteSteps
  <2>16. CASE UndoRules(c)
    BY <2>16, <1>0, AdvanceMoves
       DEF UndoRules, Revisions, Receipts, Cloned, LiveIsActive, OneAhead,
           RevisionsIdentifyPlans, Committed, Journal, durable, process, Locking, locks,
           WriteSteps
  <2>17. CASE AbortMutation(c)
    <3>1. /\ pc[c] \in WriteSteps /\ req[c].op \in Ops
          /\ Journal(c).status = "preparing" /\ boot = "up"
      BY <2>17 DEF AbortMutation, Journal, Revisions, Receipts, Journaling, Stopped,
          Typed, Carries, WriteSteps
    <3>2. \A d \in Calls : pc[d] \in WriteSteps => d = c
      BY <3>1 DEF Revisions, Receipts, Locking
    <3>3. Committed' = Committed /\ \A p \in Committed : mutations'[p] = mutations[p]
      BY <2>17, <3>1 
         DEF AbortMutation, Journal, Committed, NoJournal, Revisions, Receipts, Typed, TypeOK
    <3>4. live.rev = active.rev /\ live.edits = active.edits
      BY <3>1, <3>2 DEF Revisions, LiveIsActive
    <3>5. \A d \in Calls : pc'[d] \notin WriteSteps
      BY <2>17, <3>1, LastWriter DEF AbortMutation, Fail, Revisions, Receipts
    <3>6. Cloned'
      BY <2>17, EndMoves DEF AbortMutation, Fail, Revisions, Receipts, Cloned
    <3>7. QED
      BY <2>17, <1>0, <3>3, <3>4, <3>5, <3>6
         DEF AbortMutation, Revisions, OneAhead, LiveIsActive,
             RevisionsIdentifyPlans, durable, process
  <2>18. CASE UndoFails(c)
    <3>1. /\ pc[c] \in WriteSteps /\ req[c].op \in Ops
          /\ Journal(c).status = "preparing" /\ boot = "up"
      BY <2>18 DEF UndoFails, Journal, Revisions, Receipts, Journaling, Stopped,
          Typed, Carries, WriteSteps
    <3>2. \A d \in Calls : pc[d] \in WriteSteps => d = c
      BY <3>1 DEF Revisions, Receipts, Locking
    <3>3. Committed' = Committed /\ \A p \in Committed : mutations'[p] = mutations[p]
      BY <2>18 DEF UndoFails, Committed, durable
    <3>4. live.rev = active.rev /\ live.edits = active.edits
      BY <3>1, <3>2 DEF Revisions, LiveIsActive
    <3>5. \A d \in Calls : pc'[d] \notin WriteSteps
      BY <2>18, <3>1, LastWriter DEF UndoFails, Fail, Revisions, Receipts
    <3>6. Cloned'
      BY <2>18, EndMoves DEF UndoFails, Fail, Revisions, Receipts, Cloned
    <3>7. QED
      BY <2>18, <1>0, <3>3, <3>4, <3>5, <3>6
         DEF UndoFails, Revisions, OneAhead, LiveIsActive, RevisionsIdentifyPlans, durable, process
  <2>19. CASE Publish(c)
    <3>1. /\ pc[c] \in WriteSteps /\ Journal(c).status = "committed"
      BY <2>19 DEF Publish, Revisions, Receipts, Journaling, WriteSteps
    <3>2. staged[c].rev = active.rev /\ staged[c].edits = active.edits
      BY <3>1 DEF Revisions, OneAhead
    <3>3. \A d \in Calls : pc'[d] \notin WriteSteps
      BY <2>19, <3>1, LastWriter DEF Publish, Succeed, Revisions, Receipts
    <3>4. Cloned'
      BY <2>19, EndMoves DEF Publish, Succeed, Revisions, Receipts, Cloned
    <3>5. QED
      BY <2>19, <1>0, <3>2, <3>3, <3>4
         DEF Publish, Revisions, OneAhead, LiveIsActive, RevisionsIdentifyPlans, Committed,
             durable
  <2>20. QED
    BY <1>3, <2>1, <2>2, <2>3, <2>4, <2>5, <2>6, <2>7, <2>8, <2>9,
       <2>10, <2>11, <2>12, <2>13, <2>14, <2>15, <2>16, <2>17, <2>18, <2>19
       DEF CallStep
<1>4. CASE Crash
    BY <1>4, <1>0
       DEF Crash, Revisions, Receipts, Cloned, LiveIsActive, OneAhead,
           RevisionsIdentifyPlans, Committed, Journal, durable, process, Locking,
           Stopped, locks, requests, WriteSteps, Typed, TypeOK
<1>5. CASE Boot
  <2>1. CASE Start
    BY <2>1, <1>0
       DEF Start, Revisions, Receipts, Cloned, LiveIsActive, OneAhead,
           RevisionsIdentifyPlans, Committed, Journal, durable, process, Locking,
           Stopped, locks, requests, WriteSteps, Typed, TypeOK
  <2>2. ASSUME NEW o \in Ops, RecoverConfig(o) PROVE Revisions'
    BY <2>2, <1>0
       DEF RecoverConfig, Revisions, Receipts, Cloned, LiveIsActive, OneAhead,
           RevisionsIdentifyPlans, Committed, Journal, durable, process, Locking,
           Stopped, locks, requests, WriteSteps, Typed, TypeOK
  <2>3. CASE RecoverRules
    BY <2>3, <1>0
       DEF RecoverRules, Revisions, Receipts, Cloned, LiveIsActive, OneAhead,
           RevisionsIdentifyPlans, Committed, Journal, durable, process, Locking,
           Stopped, locks, requests, WriteSteps, Typed, TypeOK
  <2>4. CASE RecoverAbort
    BY <2>4, <1>0
       DEF RecoverAbort, Revisions, Receipts, Cloned, LiveIsActive, OneAhead,
           RevisionsIdentifyPlans, Committed, Journal, durable, process, Locking,
           Stopped, locks, requests, WriteSteps, Typed, TypeOK, RecoversOne, NoJournal
  <2>5. CASE Restore
    BY <2>5, <1>0, FieldTypes
       DEF Restore, Revisions, Receipts, Cloned, LiveIsActive, OneAhead,
           RevisionsIdentifyPlans, Committed, Journal, durable, process, Locking,
           Stopped, locks, requests, WriteSteps, Typed, TypeOK
  <2>6. QED
    BY <1>5, <2>1, <2>2, <2>3, <2>4, <2>5 DEF Boot
<1>6. ASSUME NEW e \in Edits, EditConfig(e) PROVE Revisions'
    BY <1>6, <1>0
       DEF EditConfig, Revisions, Receipts, Cloned, LiveIsActive, OneAhead,
           RevisionsIdentifyPlans, Committed, Journal, durable, process, Locking,
           Stopped, locks, requests, WriteSteps
<1>7. QED
    BY <1>1, <1>2, <1>3, <1>4, <1>5, <1>6 DEF Next

(* A revision identifies one plan: two receipts never carry the same one,  *)
(* and none is above the revision of the active plan.                      *)
THEOREM RevisionsAreUnique == Spec => []RevisionsIdentifyPlans
<1>1. Revisions => RevisionsIdentifyPlans
    BY DEF Revisions
<1>2. QED
    BY RevisionsInit, RevisionsStep, <1>1, PTL DEF Spec

(* The durable plan only moves forward, one revision at a time, and keeps  *)
(* what it contained, also when rollbacks fail.                            *)
THEOREM PlanOnlyMovesForward == Spec => PlanMovesForward
<1>1. ASSUME Revisions, [Next]_vars, active' # active
      PROVE  active'.rev = active.rev + 1 /\ active.edits \subseteq active'.edits
  <2>1. ASSUME NEW c \in Calls, CommitMutation(c)
        PROVE  active'.rev = active.rev + 1 /\ active.edits \subseteq active'.edits
    <3>1. pc[c] \in WriteSteps /\ Journal(c).status = "preparing"
      BY <1>1, <2>1 DEF CommitMutation, Revisions, Receipts, Journaling, WriteSteps
    <3>2. staged[c].rev = active.rev + 1 /\ active.edits \subseteq staged[c].edits
      BY <1>1, <3>1 DEF Revisions, OneAhead
    <3>3. QED
      BY <2>1, <3>2 DEF CommitMutation
  <2>2. CASE Restore
    BY <1>1, <2>2 DEF Restore
  <2>3. QED
    BY <1>1, <2>1, <2>2, WhoMovesThePlan
<1>2. QED
    BY RevisionsInit, RevisionsStep, <1>1, PTL DEF Spec, PlanMovesForward

-----------------------------------------------------------------------------
(* One indivisible change per operation, where rollbacks do not fail.      *)

(* A clone is the state it was taken from, or that state with the changes  *)
(* of its operation folded in.                                             *)
Folded(s, t, o) ==
    /\ s.edits = t.edits \cup {o}
    /\ s.config = t.config \/ s.config = t.config \cup {o}
    /\ s.rules = t.rules \/ s.rules = t.rules \cup {o}

Clones ==
    \A c \in Calls :
        /\ pc[c] = "calculating" => staged[c] = origin[c].live
        /\ pc[c] \in {"calculated", "queued"} =>
             staged[c] = origin[c].live \/ Folded(staged[c], origin[c].live, req[c].op)

(* There is one undo journal at most: the writer's, while there is one.    *)
OneJournal ==
    /\ \A o, p \in Preparing : o = p
    /\ boot = "up" => \A o \in Preparing : \E c \in Calls : pc[c] \in WriteSteps /\ req[c].op = o

(* The journal of a writer names what its clone changes, and what was      *)
(* there before.                                                           *)
JournalIsUndo ==
    \A c \in Calls : pc[c] \in WriteSteps =>
        /\ Folded(staged[c], live, req[c].op)
        /\ "config" \in Journal(c).touched <=> staged[c].config # live.config
        /\ "rules" \in Journal(c).touched <=> staged[c].rules # live.rules
        /\ Journal(c).oldConfig \cap Ops = live.config \cap Ops
        /\ Journal(c).oldRules = live.rules
        /\ active.config = IF Journal(c).status = "preparing" THEN live.config ELSE staged[c].config

(* What the files hold at each step of a write.                            *)
FilesAtStep ==
    \A c \in Calls : pc[c] \in WriteSteps =>
        /\ "config" \notin Journal(c).touched => files.config = Journal(c).oldConfig
        /\ "rules" \notin Journal(c).touched => files.rules = Journal(c).oldRules
        /\ /\ pc[c] \in {"configured", "written"} \/ Journal(c).status = "committed"
           /\ "config" \in Journal(c).touched
           => files.config = staged[c].config
        /\ /\ pc[c] = "written" \/ Journal(c).status = "committed"
           /\ "rules" \in Journal(c).touched
           => files.rules = staged[c].rules
        /\ pc[c] \in {"config_undone", "undone"} => files.config = Journal(c).oldConfig
        /\ pc[c] = "undone" => files.rules = Journal(c).oldRules

(* What recovery has put back.                                             *)
FilesRecovered ==
    /\ boot \in {"config_recovered", "files_recovered"} /\ "config" \in mutations[undoing].touched =>
         files.config = mutations[undoing].oldConfig
    /\ boot = "files_recovered" /\ "rules" \in mutations[undoing].touched =>
         files.rules = mutations[undoing].oldRules

Whole ==
    /\ Revisions /\ Clones /\ OneJournal /\ JournalIsUndo
    /\ FilesAtStep /\ FilesRecovered /\ CopiesAgree /\ NoLostUpdate

-----------------------------------------------------------------------------
(* What a restart would end with, when no journal is left and when one is. *)

LEMMA EffectiveIdle ==
    Preparing = {} => EffectiveConfig = files.config /\ EffectiveRules = files.rules
BY DEF EffectiveConfig, EffectiveRules, Undoes

LEMMA EffectiveJournal ==
    ASSUME NEW o \in Ops, Preparing = {o}
    PROVE  /\ EffectiveConfig = IF "config" \in mutations[o].touched
                                THEN mutations[o].oldConfig ELSE files.config
           /\ EffectiveRules = IF "rules" \in mutations[o].touched
                               THEN mutations[o].oldRules ELSE files.rules
<1>1. \A f : Undoes(f) = IF f \in mutations[o].touched THEN {o} ELSE {}
    BY DEF Undoes
<1>2. (CHOOSE p \in {o} : TRUE) = o
    OBVIOUS
<1>3. QED
    BY <1>1, <1>2 DEF EffectiveConfig, EffectiveRules

LEMMA EffectiveSame ==
    ASSUME UNCHANGED <<files, mutations>>
    PROVE  UNCHANGED <<EffectiveConfig, EffectiveRules, Preparing, Committed>>
BY DEF EffectiveConfig, EffectiveRules, Undoes, Preparing, Committed

(* While somebody writes his is the only journal, and nobody else writes.  *)
LEMMA OneWriter ==
    ASSUME Whole, NEW c \in Calls, pc[c] \in WriteSteps
    PROVE  /\ req[c].op \in Ops /\ boot = "up" /\ commitLock = c
           /\ \A d \in Calls : pc[d] \in WriteSteps => d = c
           /\ Preparing = IF Journal(c).status = "preparing" THEN {req[c].op} ELSE {}
<1>1. req[c].op \in Ops /\ boot = "up" /\ commitLock = c
    BY DEF Whole, Revisions, Receipts, Typed, Carries, Stopped, Locking, WriteSteps
<1>2. \A d \in Calls : pc[d] \in WriteSteps => d = c
    BY <1>1 DEF Whole, Revisions, Receipts, Locking
<1>3. Preparing = IF Journal(c).status = "preparing" THEN {req[c].op} ELSE {}
    BY <1>1, <1>2 DEF Whole, OneJournal, Preparing, Journal
<1>4. QED
    BY <1>1, <1>2, <1>3

(* Without a writer a running server has no journal and its copies agree.  *)
LEMMA NoWriter ==
    ASSUME Whole, boot = "up", commitLock = NoCall
    PROVE  /\ \A c \in Calls : pc[c] \notin WriteSteps
           /\ Preparing = {}
<1>1. ASSUME NEW c \in Calls PROVE pc[c] \notin WriteSteps
    BY DEF Whole, Revisions, Receipts, Locking
<1>2. Preparing = {}
    BY DEF Whole, CopiesAgree
<1>3. QED
    BY <1>1, <1>2

-----------------------------------------------------------------------------
LEMMA WholeInit == Init => Whole
BY RevisionsInit
   DEF Init, Whole, Clones, OneJournal, JournalIsUndo, FilesAtStep, FilesRecovered, CopiesAgree,
       NoLostUpdate, Preparing, Committed, WriteSteps, Blank, NoFiles, NoJournal

(* A step of a request that is not writing leaves the rest as it was.      *)
LEMMA QuietStep ==
    ASSUME Whole, Revisions', Clones',
           UNCHANGED <<files, active, mutations, live, boot, undoing, commitLock>>,
           \A d \in Calls : pc[d] \in WriteSteps \/ pc'[d] \in WriteSteps =>
                pc'[d] = pc[d] /\ req'[d] = req[d] /\ staged'[d] = staged[d]
    PROVE  Whole'
<1>1. UNCHANGED <<EffectiveConfig, EffectiveRules, Preparing, Committed>>
    BY EffectiveSame
<1>2. OneJournal'
    BY <1>1 DEF Whole, OneJournal
<1>3. JournalIsUndo' /\ FilesAtStep'
    BY DEF Whole, JournalIsUndo, FilesAtStep, Journal, Folded
<1>4. FilesRecovered' /\ CopiesAgree' /\ NoLostUpdate'
    BY <1>1 DEF Whole, FilesRecovered, CopiesAgree, NoLostUpdate
<1>5. QED
    BY <1>2, <1>3, <1>4 DEF Whole

(* So does a request that ends without having written.                     *)
LEMMA QuietEnd ==
    ASSUME Whole, Revisions', NEW c \in Calls, End(c), pc[c] \notin WriteSteps,
           commitLock # c,
           UNCHANGED <<files, active, mutations, live, boot, undoing>>
    PROVE  Whole'
<1> Typed /\ Locking /\ Stopped
    BY DEF Whole, Revisions, Receipts
<1>1. commitLock' = commitLock
    BY DEF End
<1>2. \A d \in Calls : pc[d] \in WriteSteps \/ pc'[d] \in WriteSteps =>
                pc'[d] = pc[d] /\ req'[d] = req[d] /\ staged'[d] = staged[d]
    BY EndMoves DEF WriteSteps
<1>3. Clones'
    BY EndMoves DEF Whole, Clones, Folded
<1>4. QED
    BY <1>1, <1>2, <1>3, QuietStep

(* A writer that moves on without changing anything durable.               *)
LEMMA WriterAdvances ==
    ASSUME Whole, Revisions', NEW c \in Calls, NEW step \in WriteSteps, pc[c] \in WriteSteps,
           Advance(c, step),
           UNCHANGED <<files, active, mutations, live, boot, undoing, commitLock, req, origin, staged>>,
           step \in {"publishing", "failing"}
    PROVE  Whole'
<1> Typed /\ Receipts
    BY DEF Whole, Revisions, Receipts
<1>1. UNCHANGED <<EffectiveConfig, EffectiveRules, Preparing, Committed>>
    BY EffectiveSame
<1>2. /\ pc'[c] = step
      /\ \A d \in Calls \ {c} : pc'[d] = pc[d]
    BY AdvanceMoves
<1>3. Clones' /\ OneJournal'
    BY <1>1, <1>2 DEF Whole, Clones, OneJournal, Folded, WriteSteps
<1>4. JournalIsUndo'
    BY <1>2 DEF Whole, JournalIsUndo, Journal, Folded
<1>5. FilesAtStep'
    BY <1>2 DEF Whole, FilesAtStep, Journal
<1>6. FilesRecovered' /\ CopiesAgree' /\ NoLostUpdate'
    BY <1>1 DEF Whole, FilesRecovered, CopiesAgree, NoLostUpdate
<1>7. QED
    BY <1>3, <1>4, <1>5, <1>6 DEF Whole

(* A request that may go on to commit is not a writer, and nobody is.      *)
LEMMA MayCommitIdle ==
    ASSUME Whole, NEW c \in Calls, MayCommit(c)
    PROVE  /\ pc[c] \in {"calculated", "queued"} /\ pc[c] \notin WriteSteps
           /\ boot = "up" /\ commitLock = NoCall /\ req[c].op \in Ops
BY DEF MayCommit, Whole, Revisions, Receipts, Stopped, Typed, Carries, WriteSteps

(* The steps of a request before it writes.                                *)
LEMMA BeforeWriting ==
    ASSUME Whole, Revisions', NEW c \in Calls,
           \/ Arrive(c) \/ Calculate(c) \/ CalculateFails(c) \/ AwaitMutationLock(c)
           \/ CommitReplay(c) \/ CommitDifferent(c) \/ CommitStale(c)
           \/ CommitRefused(c) \/ CommitUnchanged(c)
    PROVE  Whole'
<1> Typed /\ TypeOK
    BY DEF Whole, Revisions, Receipts, Typed
<1>1. ASSUME NEW o \in Ops, NEW b \in Bodies,
             CaptureReplay(c, o, b) \/ CaptureDifferent(c, o, b) \/ CapturePending(c, o, b)
      PROVE  Whole'
  <2>1. MayCapture(c) /\ End(c) /\ UNCHANGED <<files, active, mutations, live, boot, undoing>>
    BY <1>1 DEF CaptureReplay, CaptureDifferent, CapturePending, Succeed, Fail, durable, process
  <2>2. pc[c] \notin WriteSteps /\ commitLock # c
    BY <2>1 DEF MayCapture, WriteSteps
  <2>3. QED
    BY <2>1, <2>2, QuietEnd
<1>2. ASSUME NEW o \in Ops, NEW b \in Bodies, Capture(c, o, b) PROVE Whole'
  <2>1. \A d \in Calls : pc[d] \in WriteSteps \/ pc'[d] \in WriteSteps =>
                pc'[d] = pc[d] /\ req'[d] = req[d] /\ staged'[d] = staged[d]
    BY <1>2, AdvanceMoves DEF Capture, MayCapture, WriteSteps, TypeOK
  <2>2. Clones'
    BY <1>2, AdvanceMoves DEF Capture, Whole, Clones, Folded, TypeOK
  <2>3. QED
    BY <1>2, <2>1, <2>2, QuietStep DEF Capture, durable, process, locks
<1>3. ASSUME Calculate(c) PROVE Whole'
  <2>1. \A d \in Calls : pc[d] \in WriteSteps \/ pc'[d] \in WriteSteps =>
                pc'[d] = pc[d] /\ req'[d] = req[d] /\ staged'[d] = staged[d]
    BY <1>3, AdvanceMoves DEF Calculate, WriteSteps, TypeOK
  <2>2. staged'[c] = staged[c] \/ Folded(staged'[c], staged[c], req[c].op)
    BY <1>3 DEF Calculate, Changed, Folded, TypeOK
  <2>3. /\ staged[c] = origin[c].live
        /\ \A d \in Calls \ {c} : staged'[d] = staged[d]
        /\ UNCHANGED <<req, origin>>
    BY <1>3 DEF Calculate, Whole, Clones, TypeOK
  <2>4. Clones'
    BY <1>3, <2>2, <2>3, AdvanceMoves DEF Calculate, Whole, Clones, Folded
  <2>5. QED
    BY <1>3, <2>1, <2>4, QuietStep DEF Calculate, durable, process, locks
<1>4. ASSUME CalculateFails(c) PROVE Whole'
  <2>1. pc[c] \notin WriteSteps
    BY <1>4 DEF CalculateFails, WriteSteps
  <2>2. commitLock # c
    BY <2>1 DEF Whole, Revisions, Receipts, Locking
  <2>3. QED
    BY <1>4, <2>1, <2>2, QuietEnd DEF CalculateFails, Fail, durable, process
<1>5. ASSUME AwaitMutationLock(c) PROVE Whole'
  <2>1. \A d \in Calls : pc[d] \in WriteSteps \/ pc'[d] \in WriteSteps =>
                pc'[d] = pc[d] /\ req'[d] = req[d] /\ staged'[d] = staged[d]
    BY <1>5, AdvanceMoves DEF AwaitMutationLock, WriteSteps
  <2>2. Clones'
    BY <1>5, AdvanceMoves DEF AwaitMutationLock, Whole, Clones, Folded
  <2>3. QED
    BY <1>5, <2>1, <2>2, QuietStep DEF AwaitMutationLock, durable, process
<1>6. ASSUME \/ CommitReplay(c) \/ CommitDifferent(c) \/ CommitStale(c)
             \/ CommitRefused(c) \/ CommitUnchanged(c)
      PROVE  Whole'
  <2>1. MayCommit(c) /\ End(c) /\ UNCHANGED <<files, active, mutations, live, boot, undoing>>
    BY <1>6 DEF CommitReplay, CommitDifferent, CommitStale, CommitRefused, CommitUnchanged,
                Succeed, Fail, durable, process
  <2>2. pc[c] \notin WriteSteps /\ commitLock # c
    BY <2>1, MayCommitIdle
  <2>3. QED
    BY <2>1, <2>2, QuietEnd
<1>7. QED
    BY <1>1, <1>2, <1>3, <1>4, <1>5, <1>6 DEF Arrive

-----------------------------------------------------------------------------
(* The journal row is written: the clone is the state it is about to       *)
(* replace with one operation folded in.                                   *)
LEMMA PrepareIsWhole ==
    ASSUME Whole, Revisions', NEW c \in Calls, Prepare(c)
    PROVE  Whole' /\ UNCHANGED <<active, EffectiveConfig, EffectiveRules, Committed>>
<1> DEFINE o == req[c].op
<1> TypeOK
    BY DEF Whole, Revisions, Receipts, Typed
<1>1. /\ pc[c] \in {"calculated", "queued"} /\ boot = "up" /\ commitLock = NoCall /\ o \in Ops
      /\ \A d \in Calls : pc[d] \notin WriteSteps
      /\ Preparing = {}
    BY MayCommitIdle, NoWriter DEF Prepare
<1>2. /\ mutations' = [mutations EXCEPT ![o] = mutations'[o]]
      /\ mutations'[o].status = "preparing"
      /\ mutations'[o].touched = Touched(staged[c])
      /\ mutations'[o].oldConfig = files.config /\ mutations'[o].oldRules = files.rules
    BY <1>1 DEF Prepare, TypeOK
<1>3. /\ pc'[c] = "prepared" /\ \A d \in Calls \ {c} : pc'[d] = pc[d] /\ staged'[d] = staged[d]
      /\ UNCHANGED <<req, origin, files, live, active, boot>>
      /\ commitLock' = c
    BY AdvanceMoves DEF Prepare, process, Typed, Whole, Revisions, Receipts, TypeOK
<1>4. /\ live = origin[c].live
      /\ Folded(staged[c], live, o)
    BY <1>1 DEF Prepare, IsStale, Whole, Clones
<1>5. /\ staged'[c].config = staged[c].config /\ staged'[c].rules = staged[c].rules
      /\ staged'[c].edits = staged[c].edits
    BY DEF Prepare, Revised, TypeOK
<1>6. Preparing' = {o} /\ Committed' = Committed /\ \A p \in Committed : mutations'[p] = mutations[p]
    BY <1>1, <1>2 DEF Preparing, Committed, Prepare
<1>7. /\ live.config = active.config
      /\ live.config \cap Ops = files.config \cap Ops
      /\ live.rules = files.rules
    BY <1>1 DEF Whole, CopiesAgree
<1>8. /\ "config" \in Touched(staged[c]) <=> staged[c].config # live.config
      /\ "rules" \in Touched(staged[c]) <=> staged[c].rules # live.rules
    BY DEF Touched
<1>9. Clones'
    BY <1>3 DEF Whole, Clones, Folded
<1>10. OneJournal'
    BY <1>3, <1>6 DEF OneJournal, WriteSteps
<1>11. JournalIsUndo'
    BY <1>1, <1>2, <1>3, <1>4, <1>5, <1>7, <1>8 DEF JournalIsUndo, Journal, Folded
<1>12. FilesAtStep'
    BY <1>1, <1>2, <1>3 DEF FilesAtStep, Journal, WriteSteps
<1>13. /\ EffectiveConfig' = EffectiveConfig
       /\ EffectiveRules' = EffectiveRules
  <2>1. EffectiveConfig = files.config /\ EffectiveRules = files.rules
    BY <1>1, EffectiveIdle
  <2>2. \A f : Undoes(f)' \subseteq {o}
    BY <1>6 DEF Undoes
  <2>3. EffectiveConfig' = files.config
    BY <1>2, <1>3, <2>2 DEF EffectiveConfig
  <2>4. EffectiveRules' = files.rules
    BY <1>2, <1>3, <2>2 DEF EffectiveRules
  <2>5. QED
    BY <2>1, <2>3, <2>4
<1>14. NoLostUpdate'
    BY <1>3, <1>6, <1>13 DEF Whole, NoLostUpdate
<1>15. FilesRecovered' /\ CopiesAgree'
    BY <1>1, <1>3 DEF FilesRecovered, CopiesAgree
<1>16. QED
    BY <1>3, <1>6, <1>9, <1>10, <1>11, <1>12, <1>13, <1>14, <1>15 DEF Whole

(* The steps of a writer that replace or put back files, keeping its       *)
(* journal: what a restart would end with does not change.                 *)
LEMMA FilesUnderJournal ==
    ASSUME Whole, Revisions', NEW c \in Calls, pc[c] \in WriteSteps, Journal(c).status = "preparing",
           NEW step \in WriteSteps \ {"publishing", "failing"}, Advance(c, step),
           UNCHANGED <<active, mutations, live, boot, undoing, commitLock, req, origin, staged>>,
           "config" \notin Journal(c).touched => files'.config = files.config,
           "rules" \notin Journal(c).touched => files'.rules = files.rules,
           FilesAtStep'
    PROVE  Whole' /\ UNCHANGED <<EffectiveConfig, EffectiveRules, Committed>>
<1> Typed
    BY DEF Whole, Revisions, Receipts
<1> DEFINE o == req[c].op
<1>1. /\ pc'[c] = step /\ \A d \in Calls \ {c} : pc'[d] = pc[d]
    BY AdvanceMoves
<1>2. /\ o \in Ops /\ boot = "up" /\ commitLock = c
      /\ Preparing = {o}
      /\ \A d \in Calls : pc[d] \in WriteSteps => d = c
    BY OneWriter
<1>3. UNCHANGED <<Preparing, Committed>>
    BY DEF Preparing, Committed
<1>4. Clones' /\ OneJournal'
    BY <1>1, <1>3 DEF Whole, Clones, OneJournal, Folded, WriteSteps
<1>5. JournalIsUndo'
    BY <1>1 DEF Whole, JournalIsUndo, Journal, Folded
<1>6. \A f : Undoes(f)' = Undoes(f) /\ Undoes(f) \subseteq {o}
         /\ (o \in Undoes(f) <=> f \in Journal(c).touched)
    BY <1>2, <1>3 DEF Undoes, Journal
<1>7. UNCHANGED <<EffectiveConfig, EffectiveRules>>
    BY <1>6 DEF EffectiveConfig, EffectiveRules
<1>8. NoLostUpdate'
    BY <1>3, <1>7 DEF Whole, NoLostUpdate
<1>9. FilesRecovered' /\ CopiesAgree'
    BY <1>2 DEF Whole, FilesRecovered, CopiesAgree
<1>10. QED
    BY <1>3, <1>4, <1>5, <1>7, <1>8, <1>9 DEF Whole

(* The transaction: what the files hold is what the clone holds, and the   *)
(* operation's changes join those of every receipt.                        *)
LEMMA TransactionIsWhole ==
    ASSUME Whole, Revisions', NEW c \in Calls, CommitMutation(c)
    PROVE  Whole' /\ Atomic!Apply(req[c].op, mutations[req[c].op].touched)
<1> DEFINE o == req[c].op
<1> Typed /\ TypeOK /\ Receipts
    BY DEF Whole, Revisions, Receipts, Typed
<1>1. /\ pc[c] = "written" /\ pc[c] \in WriteSteps /\ Journal(c).status = "preparing"
      /\ o \in Ops /\ boot = "up" /\ commitLock = c
      /\ \A d \in Calls : pc[d] \in WriteSteps => d = c
      /\ Preparing = {o} /\ o \notin Committed
  <2>1. pc[c] = "written" /\ pc[c] \in WriteSteps /\ Journal(c).status = "preparing"
    BY DEF CommitMutation, Receipts, Journaling, WriteSteps
  <2>2. QED
    BY <2>1, OneWriter DEF Committed, Journal
<1>2. /\ mutations' = [mutations EXCEPT ![o] = mutations'[o]]
      /\ mutations'[o].status = "committed"
      /\ mutations'[o].touched = mutations[o].touched
      /\ mutations'[o].oldConfig = mutations[o].oldConfig
      /\ mutations'[o].oldRules = mutations[o].oldRules
    BY <1>1 DEF CommitMutation, Journal, Receipt, TypeOK
<1>3. /\ pc'[c] \in {"publishing", "failing"} /\ \A d \in Calls \ {c} : pc'[d] = pc[d]
      /\ UNCHANGED <<req, origin, files, live, boot, staged, commitLock>>
      /\ active'.rev = staged[c].rev /\ active'.config = staged[c].config
      /\ active'.edits = staged[c].edits
    BY AdvanceMoves DEF CommitMutation, process, locks
<1>4. /\ Preparing' = {} /\ Committed' = Committed \cup {o}
      /\ \A p \in Committed : mutations'[p] = mutations[p]
  <2>1. \A p \in Ops \ {o} : mutations'[p] = mutations[p]
    BY <1>1, <1>2 DEF TypeOK
  <2>2. QED
    BY <1>1, <1>2, <2>1 DEF Preparing, Committed
<1>5. /\ EffectiveConfig' = files.config /\ EffectiveRules' = files.rules
    BY <1>3, <1>4 DEF EffectiveConfig, EffectiveRules, Undoes
<1>6. /\ EffectiveConfig = IF "config" \in mutations[o].touched
                           THEN mutations[o].oldConfig ELSE files.config
      /\ EffectiveRules = IF "rules" \in mutations[o].touched
                          THEN mutations[o].oldRules ELSE files.rules
    BY <1>1, EffectiveJournal
<1>7. /\ Folded(staged[c], live, o)
      /\ "config" \in mutations[o].touched <=> staged[c].config # live.config
      /\ "rules" \in mutations[o].touched <=> staged[c].rules # live.rules
      /\ mutations[o].oldConfig \cap Ops = live.config \cap Ops
      /\ mutations[o].oldRules = live.rules
    BY <1>1 DEF Whole, JournalIsUndo, Journal
<1>8. /\ "config" \in mutations[o].touched => files.config = staged[c].config
      /\ "config" \notin mutations[o].touched => files.config = mutations[o].oldConfig
      /\ "rules" \in mutations[o].touched => files.rules = staged[c].rules
      /\ "rules" \notin mutations[o].touched => files.rules = mutations[o].oldRules
    BY <1>1 DEF Whole, FilesAtStep, Journal
<1>9. IF "config" \in mutations[o].touched
      THEN EffectiveConfig' \cap Ops = (EffectiveConfig \cap Ops) \cup {o}
      ELSE EffectiveConfig' = EffectiveConfig
    BY <1>1, <1>5, <1>6, <1>7, <1>8 DEF Folded
<1>10. IF "rules" \in mutations[o].touched
       THEN EffectiveRules' = EffectiveRules \cup {o}
       ELSE EffectiveRules' = EffectiveRules
    BY <1>1, <1>5, <1>6, <1>7, <1>8 DEF Folded
<1>11. /\ staged[c].rev = active.rev + 1
       /\ live.edits = active.edits
    BY <1>1 DEF Whole, Revisions, OneAhead, LiveIsActive
<1>12. active'.edits = active.edits \cup {o} /\ active'.rev = active.rev + 1
    BY <1>3, <1>7, <1>11 DEF Folded
<1>13. NoLostUpdate'
  <2>1. /\ o \in active'.edits
        /\ "config" \in mutations'[o].touched => o \in EffectiveConfig'
        /\ "rules" \in mutations'[o].touched => o \in EffectiveRules'
    BY <1>1, <1>2, <1>9, <1>10, <1>12
  <2>2. ASSUME NEW p \in Committed
        PROVE  /\ p \in active'.edits
               /\ "config" \in mutations'[p].touched => p \in EffectiveConfig'
               /\ "rules" \in mutations'[p].touched => p \in EffectiveRules'
    <3>1. /\ p \in active.edits /\ p \in Ops
          /\ "config" \in mutations[p].touched => p \in EffectiveConfig
          /\ "rules" \in mutations[p].touched => p \in EffectiveRules
      BY DEF Whole, NoLostUpdate, Committed
    <3>2. QED
      BY <1>4, <1>9, <1>10, <1>12, <3>1
  <2>3. QED
    BY <1>4, <2>1, <2>2 DEF NoLostUpdate
<1>14. Clones' /\ OneJournal'
    BY <1>3, <1>4 DEF Whole, Clones, OneJournal, Folded
<1>15. JournalIsUndo'
    BY <1>1, <1>2, <1>3, <1>7 DEF JournalIsUndo, Journal, Folded
<1>16. FilesAtStep'
    BY <1>1, <1>2, <1>3, <1>8 DEF FilesAtStep, Journal
<1>17. FilesRecovered' /\ CopiesAgree'
    BY <1>1, <1>3 DEF FilesRecovered, CopiesAgree
<1>18. /\ Done' = Done \cup {[op |-> o, changes |-> mutations[o].touched]}
       /\ \A d \in Done : d.op # o
    BY <1>1, <1>2, <1>4 DEF Done
<1>19. QED
    BY <1>9, <1>10, <1>12, <1>13, <1>14, <1>15, <1>16, <1>17, <1>18
       DEF Whole, Atomic!Apply

(* The end of a write: the journal is gone or has become a receipt, and    *)
(* the live state, the snapshot and the files say the same.                *)
LEMMA WriterEnds ==
    ASSUME Whole, Revisions', NEW c \in Calls, AbortMutation(c) \/ Publish(c)
    PROVE  Whole' /\ UNCHANGED <<EffectiveConfig, EffectiveRules, Committed>>
<1> DEFINE o == req[c].op
<1> Typed /\ TypeOK /\ Receipts /\ Locking /\ Stopped
    BY DEF Whole, Revisions, Receipts, Typed
<1>1. pc[c] \in WriteSteps /\ End(c) /\ UNCHANGED <<files, active, boot>>
    BY DEF AbortMutation, Publish, Succeed, Fail, WriteSteps, durable, process
<1>2. /\ o \in Ops /\ boot = "up" /\ Preparing \subseteq {o}
      /\ Preparing = IF Journal(c).status = "preparing" THEN {o} ELSE {}
    BY <1>1, OneWriter
<1>3. /\ \A d \in Calls : pc'[d] \notin WriteSteps
      /\ \A d \in Calls \ {c} : /\ pc'[d] = pc[d] /\ req'[d] = req[d]
                                /\ staged'[d] = staged[d] /\ origin'[d] = origin[d]
      /\ pc'[c] = "idle"
    BY <1>1, LastWriter, EndMoves
<1>4. Clones' /\ JournalIsUndo' /\ FilesAtStep' /\ FilesRecovered'
    BY <1>1, <1>2, <1>3 DEF Whole, Clones, JournalIsUndo, FilesAtStep, FilesRecovered, Folded
<1>5. /\ Folded(staged[c], live, o)
      /\ "config" \in Journal(c).touched <=> staged[c].config # live.config
      /\ "rules" \in Journal(c).touched <=> staged[c].rules # live.rules
      /\ Journal(c).oldConfig \cap Ops = live.config \cap Ops
      /\ Journal(c).oldRules = live.rules
      /\ active.config = IF Journal(c).status = "preparing" THEN live.config ELSE staged[c].config
      /\ "config" \notin Journal(c).touched => files.config = Journal(c).oldConfig
      /\ "rules" \notin Journal(c).touched => files.rules = Journal(c).oldRules
    BY <1>1 DEF Whole, JournalIsUndo, FilesAtStep
<1>6. CASE AbortMutation(c)
  <2>1. /\ pc[c] = "undone" /\ Journal(c).status = "preparing" /\ Preparing = {o}
        /\ files.config = Journal(c).oldConfig /\ files.rules = Journal(c).oldRules
    BY <1>2, <1>6 DEF AbortMutation, Receipts, Journaling, WriteSteps, Whole, FilesAtStep
  <2>2. /\ mutations'[o].status = "none"
        /\ \A p \in Ops \ {o} : mutations'[p] = mutations[p]
        /\ live' = live
    BY <1>2, <1>6 DEF AbortMutation, process, NoJournal, TypeOK
  <2>3. Preparing' = {} /\ Committed' = Committed /\ \A p \in Committed : mutations'[p] = mutations[p]
    BY <1>2, <2>1, <2>2 DEF Preparing, Committed, Journal
  <2>4. EffectiveConfig' = files.config /\ EffectiveRules' = files.rules
    BY <1>1, <2>3 DEF EffectiveConfig, EffectiveRules, Undoes
  <2>5. EffectiveConfig = files.config /\ EffectiveRules = files.rules
    BY <1>2, <2>1, EffectiveJournal DEF Journal
  <2>6. live.rev = active.rev /\ live.edits = active.edits
    BY <1>1, <1>2, <2>1, OneWriter DEF Whole, Revisions, LiveIsActive
  <2>7. NoLostUpdate'
    BY <1>1, <2>3, <2>4, <2>5 DEF Whole, NoLostUpdate
  <2>8. CopiesAgree'
    BY <1>1, <1>5, <2>1, <2>2, <2>3, <2>6 DEF CopiesAgree
  <2>9. QED
    BY <1>4, <2>3, <2>4, <2>5, <2>7, <2>8 DEF Whole, OneJournal
<1>7. CASE Publish(c)
  <2>1. Journal(c).status = "committed" /\ Preparing = {}
    BY <1>2, <1>7 DEF Publish, Receipts, Journaling, WriteSteps
  <2>2. live' = staged[c] /\ mutations' = mutations
    BY <1>7 DEF Publish, durable
  <2>3. UNCHANGED <<EffectiveConfig, EffectiveRules, Committed, Preparing>>
    BY <1>1, <2>2, EffectiveSame
  <2>4. live'.rev = active.rev /\ live'.edits = active.edits
    BY <1>1, <2>1, <2>2 DEF Whole, Revisions, OneAhead
  <2>5. /\ "config" \in Journal(c).touched => files.config = staged[c].config
        /\ "rules" \in Journal(c).touched => files.rules = staged[c].rules
    BY <1>1, <2>1 DEF Whole, FilesAtStep
  <2>6. CopiesAgree'
    BY <1>1, <1>5, <2>1, <2>2, <2>3, <2>4, <2>5 DEF CopiesAgree
  <2>7. NoLostUpdate'
    BY <1>1, <2>2, <2>3 DEF Whole, NoLostUpdate
  <2>8. QED
    BY <1>4, <2>1, <2>3, <2>6, <2>7 DEF Whole, OneJournal
<1>8. QED
    BY <1>6, <1>7

(* The steps of a write that touch the files or nothing.                   *)
LEMMA WhileWriting ==
    ASSUME Whole, Revisions', NEW c \in Calls,
           \/ ReplaceConfig(c) \/ ReplaceRules(c) \/ WriteFails(c) \/ RecognizeCommit(c)
           \/ UndoConfig(c) \/ UndoRules(c)
    PROVE  Whole' /\ UNCHANGED <<active, EffectiveConfig, EffectiveRules, Committed>>
<1> DEFINE o == req[c].op
<1> Typed /\ TypeOK /\ Receipts
    BY DEF Whole, Revisions, Receipts, Typed
<1>1. /\ pc[c] \in WriteSteps
      /\ UNCHANGED <<active, mutations, live, boot, undoing, commitLock, req, origin, staged>>
    BY DEF ReplaceConfig, ReplaceRules, WriteFails, RecognizeCommit, UndoConfig, UndoRules,
           WriteSteps, durable, process, locks
<1>2. /\ o \in Ops /\ \A d \in Calls : pc[d] \in WriteSteps => d = c
      /\ Preparing = IF Journal(c).status = "preparing" THEN {o} ELSE {}
    BY <1>1, OneWriter
<1>3. UNCHANGED <<Preparing, Committed>>
    BY <1>1 DEF Preparing, Committed
<1>4. CASE WriteFails(c) \/ RecognizeCommit(c)
  <2>1. files' = files /\ (Advance(c, "failing") \/ Advance(c, "publishing"))
    BY <1>4 DEF WriteFails, RecognizeCommit, durable
  <2>2. Whole'
    BY <1>1, <2>1, WriterAdvances DEF WriteSteps
  <2>3. QED
    BY <1>1, <2>1, <2>2, EffectiveSame
<1>5. ASSUME NEW step \in WriteSteps \ {"publishing", "failing"}, Advance(c, step),
             Journal(c).status = "preparing",
             "config" \notin Journal(c).touched => files'.config = files.config,
             "rules" \notin Journal(c).touched => files'.rules = files.rules,
             FilesAtStep'
      PROVE  Whole' /\ UNCHANGED <<active, EffectiveConfig, EffectiveRules, Committed>>
    BY <1>1, <1>5, FilesUnderJournal
<1>6. CASE ReplaceConfig(c)
  <2>1. Journal(c).status = "preparing" /\ Advance(c, "configured")
    BY <1>6 DEF ReplaceConfig, Receipts, Journaling, WriteSteps
  <2>2. /\ "config" \in Journal(c).touched => files'.config = staged[c].config
        /\ "config" \notin Journal(c).touched => files'.config = files.config
        /\ files'.rules = files.rules
    BY <1>6 DEF ReplaceConfig, WithConfig
  <2>3. FilesAtStep'
    BY <1>1, <1>2, <2>1, <2>2, AdvanceMoves DEF Whole, FilesAtStep, Journal
  <2>4. QED
    BY <1>5, <2>1, <2>2, <2>3 DEF WriteSteps
<1>7. CASE ReplaceRules(c)
  <2>1. Journal(c).status = "preparing" /\ Advance(c, "written") /\ pc[c] = "configured"
    BY <1>7 DEF ReplaceRules, Receipts, Journaling, WriteSteps
  <2>2. /\ "rules" \in Journal(c).touched => files'.rules = staged[c].rules
        /\ "rules" \notin Journal(c).touched => files'.rules = files.rules
        /\ files'.config = files.config
    BY <1>7 DEF ReplaceRules, WithRules
  <2>3. FilesAtStep'
    BY <1>1, <1>2, <2>1, <2>2, AdvanceMoves DEF Whole, FilesAtStep, Journal
  <2>4. QED
    BY <1>5, <2>1, <2>2, <2>3 DEF WriteSteps
<1>8. CASE UndoConfig(c)
  <2>1. Journal(c).status = "preparing" /\ Advance(c, "config_undone") /\ pc[c] = "failing"
    BY <1>8 DEF UndoConfig, Receipts, Journaling, WriteSteps
  <2>2. /\ "config" \in Journal(c).touched => files'.config = Journal(c).oldConfig
        /\ "config" \notin Journal(c).touched => files'.config = files.config
        /\ files'.rules = files.rules
    BY <1>8 DEF UndoConfig, WithConfig
  <2>3. FilesAtStep'
    BY <1>1, <1>2, <2>1, <2>2, AdvanceMoves DEF Whole, FilesAtStep, Journal
  <2>4. QED
    BY <1>5, <2>1, <2>2, <2>3 DEF WriteSteps
<1>9. CASE UndoRules(c)
  <2>1. Journal(c).status = "preparing" /\ Advance(c, "undone") /\ pc[c] = "config_undone"
    BY <1>9 DEF UndoRules, Receipts, Journaling, WriteSteps
  <2>2. /\ "rules" \in Journal(c).touched => files'.rules = Journal(c).oldRules
        /\ "rules" \notin Journal(c).touched => files'.rules = files.rules
        /\ files'.config = files.config
    BY <1>9 DEF UndoRules, WithRules
  <2>3. FilesAtStep'
    BY <1>1, <1>2, <2>1, <2>2, AdvanceMoves DEF Whole, FilesAtStep, Journal
  <2>4. QED
    BY <1>5, <2>1, <2>2, <2>3 DEF WriteSteps
<1>10. QED
    BY <1>4, <1>6, <1>7, <1>8, <1>9

-----------------------------------------------------------------------------
(* The process stops and starts again.                                     *)
LEMMA StopIsWhole ==
    ASSUME Whole, Revisions', Crash \/ Start
    PROVE  Whole' /\ UNCHANGED <<active, EffectiveConfig, EffectiveRules, Committed>>
<1>1. /\ UNCHANGED <<files, active, mutations>> /\ boot' \in {"down", "recovering"}
      /\ \A c \in Calls : pc'[c] = "idle"
    BY DEF Crash, Start, durable, requests, Whole, Revisions, Receipts, Stopped
<1>2. UNCHANGED <<EffectiveConfig, EffectiveRules, Preparing, Committed>>
    BY <1>1, EffectiveSame
<1>3. OneJournal'
    BY <1>1, <1>2 DEF Whole, OneJournal
<1>4. NoLostUpdate'
    BY <1>1, <1>2 DEF Whole, NoLostUpdate
<1>5. Clones' /\ JournalIsUndo' /\ FilesAtStep' /\ FilesRecovered' /\ CopiesAgree'
    BY <1>1 DEF Clones, JournalIsUndo, FilesAtStep, FilesRecovered, CopiesAgree, WriteSteps
<1>6. QED
    BY <1>1, <1>2, <1>3, <1>4, <1>5 DEF Whole

(* Recovery puts back what a restart would end with, and only that.        *)
LEMMA RecoveryIsWhole ==
    ASSUME Whole, Revisions', RecoverRules \/ RecoverAbort \/ \E o \in Ops : RecoverConfig(o)
    PROVE  Whole' /\ UNCHANGED <<active, EffectiveConfig, EffectiveRules, Committed>>
<1> Typed /\ TypeOK /\ Receipts
    BY DEF Whole, Revisions, Receipts, Typed
<1>1. PICK o \in Ops : /\ o \in Preparing
                       /\ \/ RecoverConfig(o)
                          \/ undoing = o /\ (RecoverRules \/ RecoverAbort)
  <2>1. RecoverRules \/ RecoverAbort => undoing \in Preparing /\ undoing \in Ops
    BY DEF RecoverRules, RecoverAbort, Receipts, UndoesJournal, Preparing
  <2>2. \A p \in Ops : RecoverConfig(p) => p \in Preparing
    BY DEF RecoverConfig
  <2>3. QED
    BY <2>1, <2>2
<1>2. Preparing = {o} /\ mutations[o].status = "preparing"
    BY <1>1 DEF Whole, OneJournal, Preparing
<1>3. /\ boot # "up" /\ boot' # "up" /\ active' = active /\ UNCHANGED <<locks, requests>>
      /\ \A c \in Calls : pc[c] = "idle" /\ pc'[c] = "idle"
    BY <1>1 DEF RecoverConfig, RecoverRules, RecoverAbort, Receipts, Stopped, requests
<1>4. Clones' /\ JournalIsUndo' /\ FilesAtStep' /\ CopiesAgree'
    BY <1>3 DEF Clones, JournalIsUndo, FilesAtStep, CopiesAgree, WriteSteps
<1>5. /\ EffectiveConfig = IF "config" \in mutations[o].touched
                           THEN mutations[o].oldConfig ELSE files.config
      /\ EffectiveRules = IF "rules" \in mutations[o].touched
                          THEN mutations[o].oldRules ELSE files.rules
    BY <1>2, EffectiveJournal
<1>6. CASE RecoverConfig(o) \/ RecoverRules
  <2>1. /\ mutations' = mutations /\ Preparing' = {o} /\ Committed' = Committed
        /\ undoing' = o
        /\ "config" \notin mutations[o].touched => files'.config = files.config
        /\ "rules" \notin mutations[o].touched => files'.rules = files.rules
    BY <1>1, <1>2, <1>6 DEF RecoverConfig, RecoverRules, WithConfig, WithRules, Preparing, Committed
  <2>2. /\ EffectiveConfig' = IF "config" \in mutations[o].touched
                              THEN mutations[o].oldConfig ELSE files'.config
        /\ EffectiveRules' = IF "rules" \in mutations[o].touched
                             THEN mutations[o].oldRules ELSE files'.rules
    <3>1. \A f : Undoes(f)' = IF f \in mutations[o].touched THEN {o} ELSE {}
      BY <2>1 DEF Undoes
    <3>2. (CHOOSE p \in {o} : TRUE) = o
      OBVIOUS
    <3>3. QED
      BY <2>1, <3>1, <3>2 DEF EffectiveConfig, EffectiveRules
  <2>3. UNCHANGED <<EffectiveConfig, EffectiveRules>>
    BY <1>5, <2>1, <2>2
  <2>4. FilesRecovered'
    BY <1>1, <1>6, <2>1
       DEF Whole, FilesRecovered, RecoverConfig, RecoverRules, WithConfig, WithRules
  <2>5. NoLostUpdate' /\ OneJournal'
    BY <1>3, <2>1, <2>3 DEF Whole, NoLostUpdate, OneJournal
  <2>6. QED
    BY <1>3, <1>4, <2>1, <2>3, <2>4, <2>5 DEF Whole
<1>7. CASE RecoverAbort /\ undoing = o
  <2>1. files' = files /\ mutations'[o].status = "none"
        /\ \A p \in Ops \ {o} : mutations'[p] = mutations[p]
    BY <1>7 DEF RecoverAbort, NoJournal, TypeOK
  <2>2. Preparing' = {} /\ Committed' = Committed
        /\ \A p \in Committed : mutations'[p] = mutations[p]
    BY <1>2, <2>1 DEF Preparing, Committed
  <2>3. EffectiveConfig' = files.config /\ EffectiveRules' = files.rules
    BY <2>1, <2>2 DEF EffectiveConfig, EffectiveRules, Undoes
  <2>4. /\ "config" \in mutations[o].touched => files.config = mutations[o].oldConfig
        /\ "rules" \in mutations[o].touched => files.rules = mutations[o].oldRules
    BY <1>7 DEF RecoverAbort, Whole, FilesRecovered
  <2>5. UNCHANGED <<EffectiveConfig, EffectiveRules>>
    BY <1>5, <2>3, <2>4
  <2>6. NoLostUpdate' /\ OneJournal' /\ FilesRecovered'
    BY <1>3, <1>7, <2>2, <2>5 DEF Whole, NoLostUpdate, OneJournal, FilesRecovered, RecoverAbort
  <2>7. QED
    BY <1>3, <1>4, <2>2, <2>5, <2>6 DEF Whole
<1>8. QED
    BY <1>1, <1>6, <1>7

(* The start ends with the three copies equal, and keeps or adopts the     *)
(* revision of the plan.                                                   *)
LEMMA RestoreIsWhole ==
    ASSUME Whole, Revisions', Restore
    PROVE  /\ Whole' /\ UNCHANGED <<EffectiveConfig, EffectiveRules, Committed>>
           /\ active'.edits = active.edits
           /\ active'.rev = active.rev \/ active'.rev = active.rev + 1
<1>1. /\ Preparing = {} /\ boot' = "up" /\ UNCHANGED <<files, mutations, locks, requests>>
      /\ \A c \in Calls : pc'[c] = "idle"
    BY DEF Restore, requests, Whole, Revisions, Receipts, Stopped
<1>2. UNCHANGED <<EffectiveConfig, EffectiveRules, Preparing, Committed>>
    BY <1>1, EffectiveSame
<1>3. /\ active'.edits = active.edits /\ active'.config = files.config
      /\ active'.rev = active.rev \/ active'.rev = active.rev + 1
      /\ live'.rev = active'.rev /\ live'.edits = active.edits
      /\ live'.config = files.config /\ live'.rules = files.rules
    BY DEF Restore
<1>4. CopiesAgree' /\ OneJournal'
    BY <1>1, <1>2, <1>3 DEF CopiesAgree, OneJournal
<1>5. NoLostUpdate'
    BY <1>1, <1>2, <1>3 DEF Whole, NoLostUpdate
<1>6. Clones' /\ JournalIsUndo' /\ FilesAtStep' /\ FilesRecovered'
    BY <1>1 DEF Clones, JournalIsUndo, FilesAtStep, FilesRecovered, WriteSteps
<1>7. QED
    BY <1>2, <1>3, <1>4, <1>5, <1>6 DEF Whole

(* A hand edit reaches the file, or is overwritten by a recovery to come.  *)
LEMMA EditIsWhole ==
    ASSUME Whole, Revisions', NEW e \in Edits, EditConfig(e)
    PROVE  /\ Whole' /\ UNCHANGED <<active, EffectiveRules, Committed>>
           /\ \/ EffectiveConfig' = EffectiveConfig \cup {e}
              \/ EffectiveConfig' = EffectiveConfig
<1>1. /\ boot \in {"up", "down"} /\ commitLock = NoCall
      /\ UNCHANGED <<active, mutations, live, boot, undoing, commitLock, pc, req, origin, staged>>
      /\ files'.config = files.config \cup {e} /\ files'.rules = files.rules
    BY DEF EditConfig, WithConfig, process, locks, requests
<1>2. UNCHANGED <<EffectiveRules, Preparing, Committed>>
    BY <1>1 DEF EffectiveRules, Undoes, Preparing, Committed
<1>3. \/ EffectiveConfig' = EffectiveConfig \cup {e}
      \/ EffectiveConfig' = EffectiveConfig
    BY <1>1, <1>2 DEF EffectiveConfig, Undoes
<1>4. \A c \in Calls : pc[c] \notin WriteSteps
    BY <1>1 DEF Whole, Revisions, Receipts, Locking
<1>5. Clones' /\ OneJournal' /\ JournalIsUndo' /\ FilesAtStep'
    BY <1>1, <1>2, <1>4 DEF Whole, Clones, Folded, OneJournal, JournalIsUndo, FilesAtStep
<1>6. FilesRecovered'
    BY <1>1 DEF FilesRecovered
<1>7. CopiesAgree'
    BY <1>1, <1>2 DEF Whole, CopiesAgree
<1>8. NoLostUpdate'
    BY <1>1, <1>2, <1>3 DEF Whole, NoLostUpdate
<1>9. QED
    BY <1>1, <1>2, <1>3, <1>5, <1>6, <1>7, <1>8 DEF Whole

-----------------------------------------------------------------------------
(* A step is one change of the abstract plan, or none.                     *)
PlanStep ==
    \/ UNCHANGED Atomic!avars
    \/ \E o \in Ops, changes \in SUBSET {"config", "rules"} : Atomic!Apply(o, changes)
    \/ \E e \in Edits : Atomic!Edit(e)
    \/ Atomic!Adopt

LEMMA QuietPlan ==
    ASSUME UNCHANGED <<active, EffectiveConfig, EffectiveRules, Committed>>,
           \A o \in Committed : mutations'[o] = mutations[o]
    PROVE  PlanStep
<1>1. UNCHANGED Done
    BY DEF Done
<1>2. QED
    BY <1>1 DEF PlanStep, Atomic!avars

(* Where rollbacks succeed, every step keeps the protocol whole.           *)
LEMMA WholeStep ==
    ASSUME ~FaultyUndo, Whole, [Next]_vars
    PROVE  Whole' /\ PlanStep
<1>0. Revisions'
    BY RevisionsStep DEF Whole
<1> \A o \in Committed : mutations'[o] = mutations[o]
    BY ReceiptsKept DEF Whole, Revisions
<1>1. CASE UNCHANGED vars
  <2>1. UNCHANGED <<EffectiveConfig, EffectiveRules, Preparing, Committed>>
    BY <1>1, EffectiveSame DEF vars
  <2>2. Clones'
    BY <1>1 DEF vars, Whole, Clones, Folded
  <2>3. Whole'
    BY <1>0, <1>1, <2>2, QuietStep DEF vars
  <2>4. QED
    BY <1>1, <2>1, <2>3, QuietPlan DEF vars
<1>2. ASSUME NEW c \in Calls, Arrive(c) PROVE Whole' /\ PlanStep
  <2>1. UNCHANGED <<files, active, mutations>>
    BY <1>2 DEF Arrive, CaptureReplay, CaptureDifferent, CapturePending, Capture, durable
  <2>2. QED
    BY <1>0, <1>2, <2>1, BeforeWriting, EffectiveSame, QuietPlan
<1>3. ASSUME NEW c \in Calls, CallStep(c) PROVE Whole' /\ PlanStep
  <2>1. CASE \/ Calculate(c) \/ CalculateFails(c) \/ AwaitMutationLock(c)
             \/ CommitReplay(c) \/ CommitDifferent(c) \/ CommitStale(c)
             \/ CommitRefused(c) \/ CommitUnchanged(c)
    <3>1. UNCHANGED <<files, active, mutations>>
      BY <2>1 DEF Calculate, CalculateFails, AwaitMutationLock, CommitReplay, CommitDifferent,
                  CommitStale, CommitRefused, CommitUnchanged, durable
    <3>2. QED
      BY <1>0, <2>1, <3>1, BeforeWriting, EffectiveSame, QuietPlan
  <2>2. CASE Prepare(c)
    BY <1>0, <2>2, PrepareIsWhole, QuietPlan
  <2>3. CASE \/ ReplaceConfig(c) \/ ReplaceRules(c) \/ WriteFails(c) \/ RecognizeCommit(c)
             \/ UndoConfig(c) \/ UndoRules(c)
    BY <1>0, <2>3, WhileWriting, QuietPlan
  <2>4. CASE CommitMutation(c)
    <3>1. req[c].op \in Ops
      BY <2>4 DEF CommitMutation, Whole, Revisions, Receipts, Typed, Carries
    <3>2. mutations[req[c].op].touched \in SUBSET {"config", "rules"}
      BY <3>1 DEF Whole, Revisions, Receipts, Typed, TypeOK, Journals
    <3>3. QED
      BY <1>0, <2>4, <3>1, <3>2, TransactionIsWhole DEF PlanStep
  <2>5. CASE AbortMutation(c) \/ Publish(c)
    <3>1. active' = active
      BY <2>5 DEF AbortMutation, Publish, durable
    <3>2. QED
      BY <1>0, <2>5, <3>1, WriterEnds, QuietPlan
  <2>6. CASE UndoFails(c)
    BY <2>6 DEF UndoFails
  <2>7. QED
    BY <1>3, <2>1, <2>2, <2>3, <2>4, <2>5, <2>6 DEF CallStep
<1>4. CASE Crash
    BY <1>0, <1>4, StopIsWhole, QuietPlan
<1>5. CASE Boot
  <2>1. CASE Start
    BY <1>0, <2>1, StopIsWhole, QuietPlan
  <2>2. CASE RecoverRules \/ RecoverAbort \/ \E o \in Ops : RecoverConfig(o)
    BY <1>0, <2>2, RecoveryIsWhole, QuietPlan
  <2>3. CASE Restore
    <3>1. Whole' /\ (Atomic!Adopt \/ UNCHANGED Atomic!avars)
      BY <1>0, <2>3, RestoreIsWhole DEF Done, Atomic!Adopt, Atomic!avars
    <3>2. QED
      BY <3>1 DEF PlanStep
  <2>4. QED
    BY <1>5, <2>1, <2>2, <2>3 DEF Boot
<1>6. ASSUME NEW e \in Edits, EditConfig(e) PROVE Whole' /\ PlanStep
  <2>1. Whole' /\ (Atomic!Edit(e) \/ UNCHANGED Atomic!avars)
    BY <1>0, <1>6, EditIsWhole DEF Done, Atomic!Edit, Atomic!avars
  <2>2. QED
    BY <2>1 DEF PlanStep
<1>7. QED
    BY <1>1, <1>2, <1>3, <1>4, <1>5, <1>6 DEF Next

-----------------------------------------------------------------------------
(* Whenever no commit is under way in a running server, the live state,    *)
(* the active snapshot and the files hold the same plan, through crashes   *)
(* at any step of a write or of a recovery.                                *)
THEOREM PlanCopiesAgree == ~FaultyUndo => (Spec => []CopiesAgree)
<1> SUFFICES ASSUME ~FaultyUndo PROVE Spec => []CopiesAgree
    OBVIOUS
<1>1. Whole /\ [Next]_vars => Whole'
    BY WholeStep
<1>2. Whole => CopiesAgree
    BY DEF Whole
<1>3. QED
    BY WholeInit, <1>1, <1>2, PTL DEF Spec

(* No operation with a receipt is ever missing from the plan, nor from the *)
(* configuration and the rules it changed, whatever is written after it.   *)
THEOREM NoWriteIsLost == ~FaultyUndo => (Spec => []NoLostUpdate)
<1> SUFFICES ASSUME ~FaultyUndo PROVE Spec => []NoLostUpdate
    OBVIOUS
<1>1. Whole /\ [Next]_vars => Whole'
    BY WholeStep
<1>2. Whole => NoLostUpdate
    BY DEF Whole
<1>3. QED
    BY WholeInit, <1>1, <1>2, PTL DEF Spec

(* The protocol implements AtomicPlan: each operation takes effect whole,  *)
(* at most once, in the step of its transaction, and is never taken back.  *)
THEOREM CommitIsAtomic == ~FaultyUndo => (Spec => ImplementsAtomicPlan)
<1> SUFFICES ASSUME ~FaultyUndo PROVE Spec => ImplementsAtomicPlan
    OBVIOUS
<1>1. Init => Atomic!AInit
  <2>1. Init => Preparing = {} /\ Committed = {}
    BY DEF Init, Preparing, Committed, NoJournal
  <2>2. QED
    BY <2>1, EffectiveIdle DEF Init, Atomic!AInit, NoFiles, Done
<1>2. Whole /\ [Next]_vars => Whole' /\ [Atomic!ANext]_(Atomic!avars)
    BY WholeStep DEF PlanStep, Atomic!ANext
<1>3. QED
    BY WholeInit, <1>1, <1>2, PTL DEF Spec, ImplementsAtomicPlan, Atomic!ASpec
=============================================================================
