-------------------------- MODULE ReplanJobsProofs --------------------------
(***************************************************************************)
(* Proofs about ReplanJobs, for every set of jobs, requests and callers,   *)
(* every retention limit and every bound on restarts and commits.          *)
(*                                                                         *)
(* Typed adds to the types what the two lookups of a row rest on.  Handed  *)
(* places every pending row in the queue of the worker; OnePending says    *)
(* what create_or_get must find; Applying follows a request that applies a *)
(* candidate under commit_lock; Told relates the answers to the rows.      *)
(***************************************************************************)
EXTENDS ReplanJobs, FiniteSetTheorems, TLAPS

USE JobsAssumption, PidsAssumption, BoundsAssumption, NoCallAssumption

(* Rows belong to a process that exists, or existed; without the reuse of  *)
(* identifiers a process is known by either of its names.                  *)
Owned ==
    /\ \A j \in Jobs : rows[j].process.id <= process.id
    /\ \A i \in DOMAIN executor : rows[executor[i]].process = process
    /\ ~up => executor = <<>> /\ ~starting.on /\ commitLock = NoCall
    /\ ~PidsReused => /\ process.pid = process.id
                      /\ \A j \in Jobs : rows[j].process.pid = rows[j].process.id

(* A pending row of this process is in the queue, or being worked on.      *)
Handed ==
    up => \A j \in Jobs :
            rows[j].status \in Waiting /\ rows[j].process.id = process.id /\ ~CommittedJob(j)
            => \E i \in DOMAIN executor : executor[i] = j

(* The rows another request for the same replanning may be given.          *)
Pending(j) ==
    \/ rows[j].status = "ready"
    \/ rows[j].status \in Waiting /\ rows[j].process.id = process.id
OnePending ==
    \A j, k \in Jobs :
        /\ Pending(j) /\ Pending(k)
        /\ rows[j].request = rows[k].request /\ rows[j].base = rows[k].base
        => j = k

(* A request between its validation and the end of its callback holds the  *)
(* lock; its candidate was calculated for the plan it captured, which is   *)
(* still the active one until it commits.                                  *)
Locking == \A c \in Calls : calls[c].at \in {"committing", "projecting"} <=> commitLock = c
Applying ==
    \A c \in Calls :
        /\ calls[c].at # "idle" => rows[calls[c].job].status # "unused"
        /\ calls[c].at \in {"calculated", "committing"} =>
                rows[calls[c].job].base = calls[c].origin
        /\ calls[c].at = "committing" => calls[c].origin = rev
        /\ calls[c].at = "projecting" => \E r \in receipts : r.job = calls[c].job

(* No receipt is ahead of the plan, and all of a job that exists.          *)
Past == \A r \in receipts : r.rev <= rev /\ rows[r.job].status # "unused"

(* What the answers of the end of a job rest on.                           *)
Told ==
    /\ \A j \in Jobs : rows[j].status = "completed" => \E r \in receipts : r.job = j
    /\ \A j \in toldCancelled :
          /\ rows[j].status \in {"cancelled", "deleted"}
          /\ \A c \in Calls : calls[c].at = "committing" => calls[c].job # j

Typed == TypeOK /\ Owned
Applied == Typed /\ Locking /\ Applying /\ Past /\ AppliedOnceOnItsBase
Answered == Applied /\ Told /\ AnswersHold

-----------------------------------------------------------------------------
(* The rows.                                                               *)

(* The same jobs exist, with what they were created with.                  *)
SameJobs(rs, ts) ==
    \A k \in Jobs :
        /\ ts[k].base = rs[k].base /\ ts[k].request = rs[k].request
        /\ ts[k].process = rs[k].process
        /\ ts[k].status = "unused" <=> rs[k].status = "unused"

LEMMA UpdatedRows ==
    ASSUME TypeOK, NEW j \in Jobs, NEW s \in {"running", "ready", "completed", "failed"}
    PROVE  /\ Updated(j, s) \in [Jobs -> Rows]
           /\ SameJobs(rows, Updated(j, s))
           /\ \A k \in Jobs \ {j} : Updated(j, s)[k] = rows[k]
           /\ Updated(j, s)[j].status =
                IF rows[j].status \in Ended \cup {"unused", "deleted"} THEN rows[j].status ELSE s
<1>1. CASE rows[j].status \in Ended \cup {"unused", "deleted"}
    BY <1>1 DEF Updated, TypeOK, SameJobs
<1>2. CASE ~(rows[j].status \in Ended \cup {"unused", "deleted"})
  <2>1. rows[j] \in Rows /\ s \in Statuses
    BY DEF TypeOK, Statuses, Waiting, Ended
  <2>2. Updated(j, s) = [rows EXCEPT ![j].status = s]
    BY <1>2 DEF Updated
  <2>3. [rows[j] EXCEPT !.status = s] \in Rows
    BY <2>1 DEF Rows
  <2>4. QED
    BY <1>2, <2>1, <2>2, <2>3 DEF TypeOK, SameJobs, Rows, Ended
<1>3. QED
    BY <1>1, <1>2

LEMMA PrunedRows ==
    ASSUME NEW rs \in [Jobs -> Rows]
    PROVE  /\ Pruned(rs) \in [Jobs -> Rows]
           /\ SameJobs(rs, Pruned(rs))
           /\ \A k \in Jobs : \/ Pruned(rs)[k] = rs[k]
                              \/ rs[k].status # "unused" /\ Pruned(rs)[k].status = "deleted"
<1> DEFINE Gone == Table(rs) \ Kept(rs)
<1>1. \A k \in Jobs : Pruned(rs)[k] = IF k \in Gone
                                      THEN [rs[k] EXCEPT !.status = "deleted"] ELSE rs[k]
    BY DEF Pruned
<1>2. \A k \in Gone : k \in Jobs /\ rs[k].status \notin {"unused", "deleted"}
    BY DEF Table
<1>3. \A k \in Jobs : [rs[k] EXCEPT !.status = "deleted"] \in Rows
    BY DEF Rows, Statuses
<1>4. Pruned(rs) \in [Jobs -> Rows]
    BY <1>1, <1>3 DEF Pruned
<1> HIDE DEF Gone
<1>5. \A k \in Jobs : rs[k] \in Rows
    OBVIOUS
<1>6. SameJobs(rs, Pruned(rs))
    BY <1>1, <1>2, <1>5 DEF SameJobs, Rows
<1>7. QED
    BY <1>1, <1>2, <1>4, <1>5, <1>6 DEF Rows

(* A new row.                                                              *)
NewRows(j) ==
    [rows EXCEPT ![j] = [status |-> "queued", base |-> starting.base,
                         request |-> starting.request, process |-> process,
                         created |-> Cardinality({k \in Jobs : rows[k].created > 0}) + 1]]

LEMMA CreatedRows ==
    ASSUME TypeOK, NEW j \in Jobs, StartCreates(j)
    PROVE  /\ rows' = Pruned(NewRows(j)) /\ rows' \in [Jobs -> Rows]
           /\ rows[j].status = "unused"
           /\ rows'[j].base = starting.base /\ rows'[j].request = starting.request
           /\ rows'[j].process = process /\ rows'[j].status \in {"queued", "deleted"}
           /\ \A k \in Jobs \ {j} :
                 /\ rows'[k].base = rows[k].base /\ rows'[k].request = rows[k].request
                 /\ rows'[k].process = rows[k].process
                 /\ rows'[k].status = "unused" <=> rows[k].status = "unused"
                 /\ rows'[k].status \in {rows[k].status, "deleted"}
<1>1. Cardinality({k \in Jobs : rows[k].created > 0}) \in Nat
  <2>1. IsFiniteSet({k \in Jobs : rows[k].created > 0})
    BY FS_Subset
  <2>2. QED
    BY <2>1, FS_CardinalityType
<1>2. starting.base \in Nat /\ starting.request \in Requests
  <2>1. ~NoStart.on
    BY DEF NoStart
  <2>2. starting # NoStart
    BY <2>1 DEF StartCreates
  <2>3. QED
    BY <2>2 DEF TypeOK, Starts
<1>3. NewRows(j) \in [Jobs -> Rows]
    BY <1>1, <1>2 DEF NewRows, TypeOK, Rows, Statuses, Waiting
<1>4. rows' = Pruned(NewRows(j)) /\ rows[j].status = "unused"
    BY DEF StartCreates, NewRows
<1>5. /\ NewRows(j)[j].base = starting.base /\ NewRows(j)[j].request = starting.request
      /\ NewRows(j)[j].process = process /\ NewRows(j)[j].status = "queued"
      /\ \A k \in Jobs \ {j} : NewRows(j)[k] = rows[k]
    BY DEF NewRows, TypeOK
<1>6. QED
    BY <1>3, <1>4, <1>5, PrunedRows DEF SameJobs

(* Leaving a job drops the head of the queue, and only that.               *)
LEMMA LeftQueue ==
    ASSUME TypeOK, Running, Leave
    PROVE  /\ Head(executor) \in Jobs /\ executor' \in Seq(Jobs)
           /\ 1 \in DOMAIN executor /\ Head(executor) = executor[1]
           /\ \A i \in DOMAIN executor' : i + 1 \in DOMAIN executor /\ executor'[i] = executor[i + 1]
           /\ \A i \in DOMAIN executor : i = 1 \/ (i - 1 \in DOMAIN executor'
                                                   /\ executor'[i - 1] = executor[i])
BY DEF TypeOK, Running, Leave

LEMMA FirstInQueue ==
    ASSUME TypeOK, Running
    PROVE  Head(executor) \in Jobs /\ 1 \in DOMAIN executor /\ Head(executor) = executor[1]
BY DEF TypeOK, Running

LEMMA QueuedJobs ==
    ASSUME TypeOK PROVE \A i \in DOMAIN executor : executor[i] \in Jobs
BY DEF TypeOK

(* A request that is under way.                                            *)
LEMMA CallFields ==
    ASSUME TypeOK, NEW c \in Calls, calls[c].at # "idle"
    PROVE  /\ calls[c].job \in Jobs /\ calls[c].operation \in OperationIds
           /\ calls[c].origin \in Nat
           /\ calls[c].at \in {"calculating", "calculated", "committing", "projecting"}
           /\ \A s \in {"calculating", "calculated", "committing", "projecting"} :
                /\ [calls[c] EXCEPT !.at = s] \in Applications
                /\ [calls[c] EXCEPT !.at = s].at = s
                /\ [calls[c] EXCEPT !.at = s].job = calls[c].job
                /\ [calls[c] EXCEPT !.at = s].operation = calls[c].operation
                /\ [calls[c] EXCEPT !.at = s].origin = calls[c].origin
<1>1. Idle.at = "idle"
    BY DEF Idle
<1>2. calls[c] \in Applications
    BY <1>1 DEF TypeOK
<1>3. QED
    BY <1>2 DEF Applications

-----------------------------------------------------------------------------
(* Types and owners.                                                       *)

LEMMA TypedInit == Init => Typed
BY DEF Init, Typed, TypeOK, Owned, NoStart, Idle, Rows, Statuses, Processes

LEMMA TypedStep == Typed /\ [Next]_vars => Typed'
<1> SUFFICES ASSUME Typed, [Next]_vars PROVE Typed'
    OBVIOUS
<1> TypeOK
    BY DEF Typed
<1>1. CASE UNCHANGED vars
    BY <1>1 DEF Typed, TypeOK, Owned, vars
<1>2. CASE Start
  <2>1. ASSUME NEW r \in Requests, StartCaptures(r) PROVE Typed'
    BY <2>1 DEF StartCaptures, LoopFree, Typed, TypeOK, Owned, durable, worker, answers, Starts
  <2>2. CASE StartDeduplicated \/ StartRefused
    BY <2>2 DEF StartDeduplicated, StartRefused, Typed, TypeOK, Owned, durable, worker, answers,
                NoStart
  <2>3. ASSUME NEW j \in Jobs, StartCreates(j) PROVE Typed'
    <3>1. executor' \in Seq(Jobs)
      BY <2>3 DEF StartCreates, TypeOK
    <3>2. \A i \in DOMAIN executor' : \/ i \in DOMAIN executor /\ executor'[i] = executor[i]
                                      \/ executor'[i] = j
      BY <2>3 DEF StartCreates, TypeOK
    <3>3. \A k \in Jobs \ {j} : rows'[k].process = rows[k].process
      BY <2>3, CreatedRows
    <3>4. \A i \in DOMAIN executor : executor[i] # j => rows'[executor[i]].process = process
      BY <3>3 DEF Typed, TypeOK, Owned
    <3>5. rows'[j].process = process /\ process' = process /\ process.id \in Nat
      BY <2>3, CreatedRows DEF StartCreates, TypeOK, Processes
    <3>6. Owned'
      <4>1. up /\ up' = up /\ starting' = NoStart /\ ~NoStart.on /\ commitLock' = commitLock
        BY <2>3 DEF StartCreates, NoStart
      <4>2. \A i \in DOMAIN executor' : rows'[executor'[i]].process = process'
        BY <3>2, <3>4, <3>5
      <4>3. \A k \in Jobs : rows'[k].process.id <= process'.id
        BY <3>3, <3>5 DEF Typed, Owned
      <4>4. ~PidsReused => /\ process'.pid = process'.id
                           /\ \A k \in Jobs : rows'[k].process.pid = rows'[k].process.id
        BY <3>3, <3>5 DEF Typed, Owned
      <4>5. QED
        BY <4>1, <4>2, <4>3, <4>4 DEF Owned
    <3>7. TypeOK'
      <4>1. rows' \in [Jobs -> Rows]
        BY <2>3, CreatedRows
      <4>2. starting' = NoStart /\ UNCHANGED <<rev, receipts, up, process, phase, commitLock, calls,
                                               toldApplied, toldCancelled>>
        BY <2>3 DEF StartCreates, answers
      <4>3. QED
        BY <3>1, <4>1, <4>2 DEF TypeOK
    <3>8. QED
      BY <3>6, <3>7 DEF Typed
  <2>4. QED
    BY <1>2, <2>1, <2>2, <2>3 DEF Start
<1>3. ASSUME NEW j \in Jobs, Cancel(j) \/ CancelCommitted(j) PROVE Typed'
  <2>1. CASE Cancel(j)
    <3> DEFINE rs == IF rows[j].status \in Waiting \cup {"ready"}
                     THEN [rows EXCEPT ![j].status = "cancelled"] ELSE rows
    <3>1. rs \in [Jobs -> Rows] /\ SameJobs(rows, rs)
      BY DEF TypeOK, Rows, Statuses, Ended, Waiting, SameJobs
    <3>2. rows' = Pruned(rs)
      BY <2>1 DEF Cancel
    <3> HIDE DEF rs
    <3>3. rows' \in [Jobs -> Rows] /\ \A k \in Jobs : rows'[k].process = rows[k].process
      BY <3>1, <3>2, PrunedRows DEF SameJobs
    <3>4. TypeOK'
      BY <2>1, <3>3 DEF Cancel, TypeOK, worker
    <3>5. Owned'
      BY <2>1, <3>3, QueuedJobs DEF Cancel, Typed, Owned, worker
    <3>6. QED
      BY <3>4, <3>5 DEF Typed
  <2>2. CASE CancelCommitted(j)
    BY <2>2 DEF CancelCommitted, Typed, TypeOK, Owned, durable, worker
  <2>3. QED
    BY <1>3, <2>1, <2>2
<1>4. CASE Work
  <2>1. CASE WorkerLooks
    BY <2>1 DEF WorkerLooks, Typed, TypeOK, Owned, durable, answers
  <2>2. CASE WorkerAbandons
    BY <2>2, LeftQueue DEF WorkerAbandons, Leave, Typed, TypeOK, Owned, durable, answers, Running
  <2>3. CASE WorkerMarks
    <3>1. Head(executor) \in Jobs
      BY <2>3, FirstInQueue DEF WorkerMarks
    <3>2. rows' \in [Jobs -> Rows] /\ \A k \in Jobs : rows'[k].process = rows[k].process
      BY <2>3, <3>1, UpdatedRows DEF WorkerMarks, SameJobs
    <3>3. QED
      BY <2>3, <3>2 DEF WorkerMarks, Typed, TypeOK, Owned, answers
  <2>4. CASE WorkerFails \/ WorkerPublishes
    <3>1. Leave /\ Running /\ Head(executor) \in Jobs
      BY <2>4, LeftQueue DEF WorkerFails, WorkerPublishes
    <3>2. rows' \in [Jobs -> Rows] /\ \A k \in Jobs : rows'[k].process = rows[k].process
      BY <2>4, <3>1, UpdatedRows DEF WorkerFails, WorkerPublishes, SameJobs, Ended
    <3>3. UNCHANGED <<rev, receipts, up, process, starting, commitLock, calls, toldApplied,
                      toldCancelled>>
      BY <2>4 DEF WorkerFails, WorkerPublishes, answers
    <3>4. TypeOK'
      BY <3>1, <3>2, <3>3, LeftQueue DEF TypeOK, Leave
    <3>5. Owned'
      BY <3>1, <3>2, <3>3, LeftQueue, QueuedJobs DEF Typed, Owned, Running
    <3>6. QED
      BY <3>4, <3>5 DEF Typed
  <2>5. QED
    BY <1>4, <2>1, <2>2, <2>3, <2>4 DEF Work
<1>5. ASSUME NEW c \in Calls, Arrive(c) PROVE Typed'
  <2> PICK j \in Jobs, o \in OperationIds : ApplyReplayed(c, j, o) \/ ApplyCaptures(c, j, o)
    BY <1>5 DEF Arrive
  <2>1. CASE ApplyReplayed(c, j, o)
    BY <2>1 DEF ApplyReplayed, Typed, TypeOK, Owned, durable, worker
  <2>2. CASE ApplyCaptures(c, j, o)
    BY <2>2 DEF ApplyCaptures, Typed, TypeOK, Owned, durable, worker, answers, Applications
  <2>3. QED
    BY <2>1, <2>2
<1>6. ASSUME NEW c \in Calls, Apply(c) PROVE Typed'
  <2>1. calls[c].at # "idle" \/ calls' = [calls EXCEPT ![c] = Idle]
    BY <1>6 DEF Apply, ApplyCalculates, ApplyCompleted, ApplyRefused, ApplyReplayedAtCommit,
                ApplyValidates, ApplyCommits, ApplyRollsBack, ApplyProjects, Answer
  <2>2. CASE ApplyCalculates(c)
    BY <2>1, <2>2, CallFields DEF ApplyCalculates, Typed, TypeOK, Owned, durable, worker, answers
  <2>3. CASE ApplyCompleted(c) \/ ApplyReplayedAtCommit(c) \/ ApplyRefused(c)
    <3>1. /\ Answer(c)
          /\ UNCHANGED <<rows, rev, receipts, up, process, starting, executor, phase, commitLock,
                         toldCancelled>>
          /\ toldApplied' \in {toldApplied, toldApplied \cup {calls[c].job}}
          /\ calls[c].job \in Jobs
      BY <2>3, CallFields
         DEF ApplyCompleted, ApplyReplayedAtCommit, ApplyRefused, durable, worker, answers
    <3>2. TypeOK'
      BY <3>1 DEF TypeOK, Answer
    <3>3. Owned'
      BY <3>1 DEF Typed, Owned
    <3>4. QED
      BY <3>2, <3>3 DEF Typed
  <2>4. CASE ApplyValidates(c)
    BY <2>1, <2>4, CallFields DEF ApplyValidates, Typed, TypeOK, Owned, durable, worker, answers
  <2>5. CASE ApplyCommits(c)
    <3>1. UNCHANGED <<rows, up, process, starting, executor, phase, commitLock,
                      toldApplied, toldCancelled>>
      BY <2>5 DEF ApplyCommits, worker, answers
    <3>2. TypeOK'
      <4>1. rev \in Nat /\ rev' = rev + 1
        BY <2>5 DEF ApplyCommits, TypeOK
      <4>2. receipts' \subseteq Receipts
        <5>1. calls[c].job \in Jobs /\ calls[c].operation \in OperationIds
          BY <2>5, CallFields DEF ApplyCommits
        <5>2. [job |-> calls[c].job, operation |-> calls[c].operation, rev |-> rev + 1] \in Receipts
          BY <4>1, <5>1 DEF Receipts
        <5>3. QED
          BY <2>5, <5>2 DEF ApplyCommits, TypeOK
      <4>3. calls' \in [Calls -> {Idle} \cup Applications]
        BY <2>5, CallFields DEF ApplyCommits, TypeOK
      <4>4. QED
        BY <3>1, <4>1, <4>2, <4>3 DEF TypeOK
    <3>3. Owned'
      BY <3>1 DEF Typed, Owned
    <3>4. QED
      BY <3>2, <3>3 DEF Typed
  <2>6. CASE ApplyRollsBack(c)
    BY <2>6 DEF ApplyRollsBack, Answer, Typed, TypeOK, Owned, durable, worker, answers
  <2>7. CASE ApplyProjects(c)
    <3>1. calls[c].job \in Jobs
      BY <2>7, CallFields DEF ApplyProjects
    <3>2. rows' \in [Jobs -> Rows] /\ \A k \in Jobs : rows'[k].process = rows[k].process
      BY <2>7, <3>1, UpdatedRows DEF ApplyProjects, SameJobs, Ended, TypeOK
    <3>3. QED
      BY <2>7, <3>1, <3>2 DEF ApplyProjects, Answer, Typed, TypeOK, Owned, worker
  <2>8. QED
    BY <1>6, <2>2, <2>3, <2>4, <2>5, <2>6, <2>7 DEF Apply
<1>7. CASE OtherWrite
    BY <1>7 DEF OtherWrite, Typed, TypeOK, Owned, worker, answers
<1>8. CASE Crash
  <2>1. /\ rows' = rows /\ rev' = rev /\ receipts' = receipts /\ process' = process
        /\ toldApplied' = toldApplied /\ toldCancelled' = toldCancelled
        /\ up' = FALSE /\ starting' = NoStart /\ executor' = <<>> /\ phase' = "queued"
        /\ commitLock' = NoCall /\ calls' = [c \in Calls |-> Idle]
    BY <1>8 DEF Crash, durable, answers
  <2>2. TypeOK'
    <3>1. executor' \in Seq(Jobs) /\ calls' \in [Calls -> {Idle} \cup Applications]
      BY <2>1
    <3>2. QED
      BY <2>1, <3>1 DEF TypeOK
  <2>3. ~NoStart.on
    BY DEF NoStart
  <2>4. Owned'
    BY <2>1, <2>3 DEF Typed, Owned
  <2>5. QED
    BY <2>2, <2>4 DEF Typed
<1>9. CASE Restart
    BY <1>9 DEF Restart, Typed, TypeOK, Owned, durable, worker, answers, Processes, Rows
<1>10. QED
    BY <1>1, <1>2, <1>3, <1>4, <1>5, <1>6, <1>7, <1>8, <1>9 DEF Next

(* The table replan_jobs, the worker and the requests keep their types,    *)
(* through every restart and pruning.                                      *)
THEOREM ReplanTypes == Spec => []TypeOK
<1>1. Typed => TypeOK
    BY DEF Typed
<1>2. QED
    BY TypedInit, TypedStep, <1>1, PTL DEF Spec

-----------------------------------------------------------------------------
(* Pending rows.                                                           *)

LEMMA NotWaiting ==
    \A s \in Ended \cup {"ready", "unused", "deleted", "completed", "failed"} : s \notin Waiting
BY DEF Ended, Waiting

(* A cancellation ends one row at most, and the pruning deletes others.    *)
LEMMA CancelledRows ==
    ASSUME TypeOK, NEW j \in Jobs, Cancel(j)
    PROVE  /\ SameJobs(rows, rows')
           /\ \A k \in Jobs \ {j} : rows'[k].status \in {rows[k].status, "deleted"}
           /\ rows'[j].status \in (Ended \cup {"deleted"})
<1> DEFINE rs == IF rows[j].status \in Waiting \cup {"ready"}
                 THEN [rows EXCEPT ![j].status = "cancelled"] ELSE rows
<1>1. /\ rs \in [Jobs -> Rows] /\ SameJobs(rows, rs)
      /\ \A k \in Jobs \ {j} : rs[k] = rows[k]
    BY DEF TypeOK, Rows, Statuses, Ended, Waiting, SameJobs
<1>2. rs[j].status \in Ended
    BY DEF TypeOK, Rows, Statuses, Cancel, Ended, Table
<1>3. rows' = Pruned(rs)
    BY DEF Cancel
<1> HIDE DEF rs
<1>4. QED
    BY <1>1, <1>2, <1>3, PrunedRows DEF SameJobs

Queues == Typed /\ Handed
Uniques == Typed /\ OnePending

(* With identifiers that are not used again, a row is interrupted when it  *)
(* waits and belongs to another process than the running one.              *)
LEMMA WhoseRow ==
    ASSUME ~PidsReused, Typed, NEW j \in Jobs
    PROVE  /\ Interrupted(rows[j]) <=>
                rows[j].status \in Waiting /\ rows[j].process.id # process.id
           /\ Status(j) \in Waiting <=>
                /\ rows[j].status \in Waiting /\ rows[j].process.id = process.id
                /\ ~CommittedJob(j)
           /\ Status(j) \in Waiting \cup {"ready"} => Pending(j)
<1>1. process.pid = process.id /\ rows[j].process.pid = rows[j].process.id
    BY DEF Typed, Owned
<1>2. Interrupted(rows[j]) <=> rows[j].status \in Waiting /\ rows[j].process.id # process.id
    BY <1>1 DEF Interrupted
<1>3. "completed" \notin Waiting /\ "failed" \notin Waiting
    BY DEF Waiting
<1>4. QED
    BY <1>2, <1>3 DEF Status, Pending

(* A row whose request, base and process stay keeps its place.             *)
LEMMA HandedSame ==
    ASSUME Typed, Handed, UNCHANGED <<up, process, executor>>, receipts \subseteq receipts',
           \A k \in Jobs : /\ rows'[k].process = rows[k].process
                           /\ rows'[k].status \in Waiting => rows[k].status \in Waiting
    PROVE  Handed'
<1>1. \A k \in Jobs : CommittedJob(k) => CommittedJob(k)'
    BY DEF CommittedJob
<1>2. QED
    BY <1>1 DEF Handed

LEMMA HandedInit == Init => Handed
BY DEF Init, Handed, Waiting

LEMMA HandedStep == Queues /\ [Next]_vars => Queues'
<1> SUFFICES ASSUME Queues, [Next]_vars PROVE Handed'
    BY TypedStep DEF Queues
<1> Typed /\ TypeOK /\ Handed
    BY DEF Queues, Typed
<1>1. CASE UNCHANGED vars
    BY <1>1, HandedSame DEF vars
<1>2. CASE Start
  <2>1. CASE StartDeduplicated \/ StartRefused \/ \E r \in Requests : StartCaptures(r)
    BY <2>1, HandedSame DEF StartDeduplicated, StartRefused, StartCaptures, durable, worker
  <2>2. ASSUME NEW j \in Jobs, StartCreates(j) PROVE Handed'
    <3>1. /\ UNCHANGED <<receipts, up, process>> /\ up
          /\ executor' = Append(executor, j)
      BY <2>2 DEF StartCreates
    <3>2. /\ \A i \in DOMAIN executor : i \in DOMAIN executor' /\ executor'[i] = executor[i]
          /\ \E i \in DOMAIN executor' : executor'[i] = j
      BY <3>1 DEF TypeOK
    <3>3. \A k \in Jobs \ {j} : /\ rows'[k].process = rows[k].process
                                /\ rows'[k].status \in Waiting => rows[k].status \in Waiting
      BY <2>2, CreatedRows DEF Waiting
    <3>4. \A k \in Jobs : CommittedJob(k)' = CommittedJob(k)
      BY <3>1 DEF CommittedJob
    <3>5. ASSUME NEW k \in Jobs, rows'[k].status \in Waiting,
                 rows'[k].process.id = process'.id, ~CommittedJob(k)'
          PROVE  \E i \in DOMAIN executor' : executor'[i] = k
      <4>1. CASE k = j
        BY <3>2, <4>1
      <4>2. CASE k # j
        <5>1. \E i \in DOMAIN executor : executor[i] = k
          BY <3>1, <3>3, <3>4, <3>5, <4>2 DEF Handed
        <5>2. QED
          BY <3>2, <5>1
      <4>3. QED
        BY <4>1, <4>2
    <3>6. QED
      BY <3>5 DEF Handed
  <2>3. QED
    BY <1>2, <2>1, <2>2 DEF Start
<1>3. ASSUME NEW j \in Jobs, Cancel(j) \/ CancelCommitted(j) PROVE Handed'
  <2>1. CASE Cancel(j)
    <3>1. \A k \in Jobs : /\ rows'[k].process = rows[k].process
                          /\ rows'[k].status \in Waiting => rows[k].status \in Waiting
      BY <2>1, CancelledRows, NotWaiting DEF SameJobs
    <3>2. QED
      BY <2>1, <3>1, HandedSame DEF Cancel, worker
  <2>2. CASE CancelCommitted(j)
    BY <2>2, HandedSame DEF CancelCommitted, durable, worker
  <2>3. QED
    BY <1>3, <2>1, <2>2
<1>4. CASE Work
  <2>1. CASE WorkerLooks
    BY <2>1, HandedSame DEF WorkerLooks, durable
  <2>2. ASSUME Leave, Running, UNCHANGED <<receipts, up, process>>,
               \A k \in Jobs : rows'[k].process = rows[k].process,
               \A k \in Jobs \ {Head(executor)} : rows'[k] = rows[k],
               \/ rows'[Head(executor)].status \notin Waiting
               \/ rows'[Head(executor)].process.id # process.id
               \/ CommittedJob(Head(executor))
        PROVE  Handed'
    <3>1. \A k \in Jobs : CommittedJob(k)' = CommittedJob(k)
      BY <2>2 DEF CommittedJob
    <3>2. ASSUME NEW k \in Jobs, rows'[k].status \in Waiting,
                 rows'[k].process.id = process'.id, ~CommittedJob(k)'
          PROVE  \E i \in DOMAIN executor' : executor'[i] = k
      <4>1. k # Head(executor) /\ rows'[k] = rows[k]
        BY <2>2, <3>1, <3>2
      <4>2. PICK i \in DOMAIN executor : executor[i] = k
        BY <2>2, <3>1, <3>2, <4>1 DEF Handed, Running
      <4>3. QED
        BY <2>2, <4>1, <4>2, LeftQueue
    <3>3. QED
      BY <3>2 DEF Handed
  <2>3. CASE WorkerAbandons
    <3>1. /\ UNCHANGED <<rows, receipts, up, process>> /\ Leave /\ Running
          /\ Cancelled(Head(executor)) /\ Head(executor) \in Jobs
      BY <2>3, FirstInQueue DEF WorkerAbandons, durable
    <3>2. rows[Head(executor)].process = process
      BY <3>1, FirstInQueue DEF Typed, Owned
    <3>3. rows[Head(executor)].status \notin Waiting \/ CommittedJob(Head(executor))
      BY <3>1, <3>2 DEF Cancelled, Status, Interrupted, Table, Waiting, Ended
    <3>4. QED
      BY <2>2, <3>1, <3>3
  <2>4. CASE WorkerMarks
    <3>1. /\ Head(executor) \in Jobs /\ \E i \in DOMAIN executor : executor[i] = Head(executor)
          /\ UNCHANGED <<receipts, up, process, executor>>
      BY <2>4, FirstInQueue DEF WorkerMarks
    <3>2. /\ \A k \in Jobs \ {Head(executor)} : rows'[k] = rows[k]
          /\ \A k \in Jobs : rows'[k].process = rows[k].process
      BY <2>4, <3>1, UpdatedRows DEF WorkerMarks, SameJobs
    <3>3. \A k \in Jobs : CommittedJob(k)' = CommittedJob(k)
      BY <3>1 DEF CommittedJob
    <3>4. QED
      BY <3>1, <3>2, <3>3 DEF Handed
  <2>5. CASE WorkerFails \/ WorkerPublishes
    <3>1. /\ UNCHANGED <<receipts, up, process>> /\ Leave /\ Running /\ Head(executor) \in Jobs
      BY <2>5, FirstInQueue DEF WorkerFails, WorkerPublishes
    <3>2. PICK s \in {"ready", "failed"} : rows' = Updated(Head(executor), s)
      BY <2>5 DEF WorkerFails, WorkerPublishes
    <3>3. /\ \A k \in Jobs \ {Head(executor)} : rows'[k] = rows[k]
          /\ \A k \in Jobs : rows'[k].process = rows[k].process
          /\ rows'[Head(executor)].status \notin Waiting
      <4>1. SameJobs(rows, rows') /\ \A k \in Jobs \ {Head(executor)} : rows'[k] = rows[k]
        BY <3>1, <3>2, UpdatedRows
      <4>2. rows'[Head(executor)].status \notin Waiting
        BY <3>1, <3>2, UpdatedRows, NotWaiting
      <4>3. QED
        BY <4>1, <4>2, <3>1 DEF SameJobs
    <3>4. QED
      BY <2>2, <3>1, <3>3
  <2>6. QED
    BY <1>4, <2>1, <2>3, <2>4, <2>5 DEF Work
<1>5. ASSUME NEW c \in Calls, Arrive(c) PROVE Handed'
  <2>1. UNCHANGED <<rows, receipts, up, process, executor>>
    BY <1>5 DEF Arrive, ApplyReplayed, ApplyCaptures, durable, worker
  <2>2. QED
    BY <2>1, HandedSame
<1>6. ASSUME NEW c \in Calls, Apply(c) PROVE Handed'
  <2>1. UNCHANGED <<up, process, executor>> /\ receipts \subseteq receipts'
    BY <1>6 DEF Apply, ApplyCalculates, ApplyCompleted, ApplyRefused, ApplyReplayedAtCommit,
                ApplyValidates, ApplyCommits, ApplyRollsBack, ApplyProjects, durable, worker
  <2>2. rows' = rows \/ (calls[c].at = "projecting" /\ rows' = Updated(calls[c].job, "completed"))
    BY <1>6 DEF Apply, ApplyCalculates, ApplyCompleted, ApplyRefused, ApplyReplayedAtCommit,
                ApplyValidates, ApplyCommits, ApplyRollsBack, ApplyProjects, durable
  <2>3. \A k \in Jobs : /\ rows'[k].process = rows[k].process
                        /\ rows'[k].status \in Waiting => rows[k].status \in Waiting
    <3>1. CASE rows' = rows
      BY <3>1
    <3>2. CASE calls[c].at = "projecting" /\ rows' = Updated(calls[c].job, "completed")
      <4>1. calls[c].job \in Jobs
        BY <3>2, CallFields
      <4>2. /\ SameJobs(rows, rows')
            /\ \A k \in Jobs \ {calls[c].job} : rows'[k] = rows[k]
        BY <3>2, <4>1, UpdatedRows
      <4>3. \/ rows'[calls[c].job].status = rows[calls[c].job].status
            \/ rows'[calls[c].job].status = "completed"
        BY <3>2, <4>1, UpdatedRows
      <4>4. \A k \in Jobs : rows'[k].process = rows[k].process
        BY <4>2 DEF SameJobs
      <4>5. \A k \in Jobs : rows'[k].status \in Waiting => rows[k].status \in Waiting
        BY <4>2, <4>3 DEF Waiting
      <4>6. QED
        BY <4>4, <4>5
    <3>3. QED
      BY <2>2, <3>1, <3>2
  <2>4. QED
    BY <2>1, <2>3, HandedSame
<1>7. CASE OtherWrite
    BY <1>7, HandedSame DEF OtherWrite, worker
<1>8. CASE Crash
    BY <1>8 DEF Crash, Handed
<1>9. CASE Restart
    BY <1>9 DEF Restart, Handed, Typed, Owned, durable, TypeOK, Processes, Rows
<1>10. QED
    BY <1>1, <1>2, <1>3, <1>4, <1>5, <1>6, <1>7, <1>8, <1>9 DEF Next

(* A job somebody still waits for is in the hands of this server's worker, *)
(* when process identifiers are not used again.                            *)
THEOREM NoJobIsOrphaned == ~PidsReused => (Spec => []NoOrphans)
<1> SUFFICES ASSUME ~PidsReused PROVE Spec => []NoOrphans
    OBVIOUS
<1>1. Init => Queues
    BY TypedInit, HandedInit DEF Queues
<1>2. Queues => NoOrphans
    BY WhoseRow DEF Queues, NoOrphans, Handed
<1>3. QED
    BY <1>1, <1>2, HandedStep, PTL DEF Spec

-----------------------------------------------------------------------------
(* One job for one request.                                                *)

LEMMA OnePendingSame ==
    ASSUME OnePending,
           \A k \in Jobs : /\ rows'[k].request = rows[k].request /\ rows'[k].base = rows[k].base
                           /\ Pending(k)' => Pending(k)
    PROVE  OnePending'
BY DEF OnePending

(* The rows change by less than a deletion, a cancellation or a worker's   *)
(* update in everything but a creation and a new process.                  *)
LEMMA UpdatedPending ==
    ASSUME Typed, NEW j \in Jobs, NEW s \in {"running", "ready", "completed", "failed"},
           rows' = Updated(j, s), process' = process,
           s # "completed" => rows[j].process = process
    PROVE  \A k \in Jobs : /\ rows'[k].request = rows[k].request /\ rows'[k].base = rows[k].base
                           /\ Pending(k)' => Pending(k)
<1> TypeOK
    BY DEF Typed
<1>1. /\ SameJobs(rows, rows') /\ \A k \in Jobs \ {j} : rows'[k] = rows[k]
      /\ rows'[j].status = IF rows[j].status \in Ended \cup {"unused", "deleted"}
                           THEN rows[j].status ELSE s
    BY UpdatedRows
<1>2. rows[j].status \in Statuses
    BY DEF TypeOK, Rows
<1>3. CASE rows[j].status \in Ended \cup {"unused", "deleted"}
    BY <1>1, <1>3 DEF SameJobs, Pending
<1>4. CASE rows[j].status \notin Ended \cup {"unused", "deleted"}
  <2>1. rows[j].status \in Waiting \cup {"ready"}
    BY <1>2, <1>4 DEF Statuses
  <2>2. s = "completed" => ~Pending(j)'
    BY <1>1, <1>4, NotWaiting DEF Pending
  <2>3. s # "completed" => Pending(j)
    BY <2>1 DEF Pending
  <2>4. QED
    BY <1>1, <2>2, <2>3 DEF SameJobs, Pending
<1>5. QED
    BY <1>3, <1>4

LEMMA UniquesInit == Init => Uniques
BY TypedInit DEF Init, Uniques, OnePending, Pending, Waiting

LEMMA UniquesStep == Uniques /\ [Next]_vars => Uniques'
<1> SUFFICES ASSUME Uniques, [Next]_vars PROVE OnePending'
    BY TypedStep DEF Uniques
<1> Typed /\ TypeOK /\ OnePending
    BY DEF Uniques, Typed
<1>1. CASE UNCHANGED <<rows, process>>
    BY <1>1, OnePendingSame DEF Pending
<1>2. ASSUME NEW j \in Jobs, StartCreates(j) PROVE OnePending'
  <2>1. /\ process' = process /\ ~\E k \in Table(rows) : IsSame(k)
    BY <1>2 DEF StartCreates
  <2>2. \A k \in Jobs \ {j} : /\ rows'[k].request = rows[k].request /\ rows'[k].base = rows[k].base
                              /\ Pending(k)' => Pending(k)
    BY <1>2, <2>1, CreatedRows, NotWaiting DEF Pending
  <2>3. rows'[j].base = starting.base /\ rows'[j].request = starting.request
    BY <1>2, CreatedRows
  <2>4. ASSUME NEW k \in Jobs, Pending(k), rows[k].request = starting.request,
               rows[k].base = starting.base
        PROVE  FALSE
    <3>1. k \in Table(rows) /\ ~Interrupted(rows[k]) /\ rows[k].status \in Waiting \cup {"ready"}
      BY <2>4 DEF Pending, Table, Interrupted, Waiting
    <3>2. IsSame(k)
      BY <2>4, <3>1 DEF IsSame
    <3>3. QED
      BY <2>1, <3>1, <3>2
  <2>5. QED
    BY <2>2, <2>3, <2>4 DEF OnePending
<1>3. ASSUME NEW j \in Jobs, Cancel(j) PROVE OnePending'
  <2>1. \A k \in Jobs : /\ rows'[k].request = rows[k].request /\ rows'[k].base = rows[k].base
                        /\ rows'[k].process = rows[k].process
                        /\ rows'[k].status \in {rows[k].status, "deleted"} \cup Ended
    BY <1>3, CancelledRows DEF SameJobs
  <2>2. \A k \in Jobs : Pending(k)' => Pending(k)
    BY <1>3, <2>1, NotWaiting DEF Pending, Cancel, Ended
  <2>3. QED
    BY <2>1, <2>2, OnePendingSame
<1>4. CASE Work
  <2>1. CASE WorkerLooks \/ WorkerAbandons
    BY <1>1, <2>1 DEF WorkerLooks, WorkerAbandons, durable
  <2>2. CASE WorkerMarks \/ WorkerFails \/ WorkerPublishes
    <3>1. Running /\ process' = process
      BY <2>2 DEF WorkerMarks, WorkerFails, WorkerPublishes
    <3>2. Head(executor) \in Jobs /\ rows[Head(executor)].process = process
      BY <3>1, FirstInQueue DEF Typed, Owned
    <3>3. PICK s \in {"running", "failed", "ready"} : rows' = Updated(Head(executor), s)
      BY <2>2 DEF WorkerMarks, WorkerFails, WorkerPublishes
    <3>4. QED
      BY <3>1, <3>2, <3>3, UpdatedPending, OnePendingSame
  <2>3. QED
    BY <1>4, <2>1, <2>2 DEF Work
<1>5. ASSUME NEW c \in Calls, ApplyProjects(c) PROVE OnePending'
  <2>1. calls[c].job \in Jobs /\ process' = process
    BY <1>5, CallFields DEF ApplyProjects
  <2>2. CASE UNCHANGED rows
    BY <1>1, <2>1, <2>2
  <2>3. CASE rows' = Updated(calls[c].job, "completed")
    BY <2>1, <2>3, UpdatedPending, OnePendingSame
  <2>4. QED
    BY <1>5, <2>2, <2>3 DEF ApplyProjects
<1>6. CASE Restart
  <2>1. rows' = rows /\ process'.id = process.id + 1 /\ process.id \in Nat
    BY <1>6 DEF Restart, durable, TypeOK, Processes
  <2>2. \A k \in Jobs : rows[k].process.id <= process.id /\ rows[k].process.id \in Nat
    BY DEF Typed, Owned, TypeOK, Rows, Processes
  <2>3. \A k \in Jobs : Pending(k)' => Pending(k)
    BY <2>1, <2>2 DEF Pending
  <2>4. QED
    BY <2>1, <2>3, OnePendingSame
<1>7. QED
  <2>1. ASSUME NEW c \in Calls, Arrive(c) \/ Apply(c) PROVE UNCHANGED <<rows, process>> \/ ApplyProjects(c)
    BY <2>1 DEF Arrive, ApplyReplayed, ApplyCaptures, Apply, ApplyCalculates, ApplyCompleted,
                ApplyRefused, ApplyReplayedAtCommit, ApplyValidates, ApplyCommits, ApplyRollsBack,
                durable
  <2>2. Start => UNCHANGED <<rows, process>> \/ \E j \in Jobs : StartCreates(j)
    BY DEF Start, StartCaptures, StartDeduplicated, StartRefused, durable
  <2>3. ASSUME NEW j \in Jobs, CancelCommitted(j) PROVE UNCHANGED <<rows, process>>
    BY <2>3 DEF CancelCommitted, durable
  <2>4. OtherWrite \/ Crash \/ UNCHANGED vars => UNCHANGED <<rows, process>>
    BY DEF OtherWrite, Crash, durable, vars
  <2>5. QED
    BY <1>1, <1>2, <1>3, <1>4, <1>5, <1>6, <2>1, <2>2, <2>3, <2>4 DEF Next

(* One request on one plan has one job: waiting or ready, the same job is  *)
(* returned (create_or_get) to a repeated click, a retry and a reloaded    *)
(* page, when process identifiers are not used again.                      *)
THEOREM OneRequestOneJob == ~PidsReused => (Spec => []OneJobPerRequest)
<1> SUFFICES ASSUME ~PidsReused PROVE Spec => []OneJobPerRequest
    OBVIOUS
<1>1. Uniques => OneJobPerRequest
    BY WhoseRow DEF Uniques, OnePending, OneJobPerRequest
<1>2. QED
    BY UniquesInit, UniquesStep, <1>1, PTL DEF Spec

-----------------------------------------------------------------------------
(* Applying and answering.                                                 *)

(* What a step does to a candidate, a receipt and an answer when it does   *)
(* not concern them.                                                       *)
LEMMA AppliedSame ==
    ASSUME Applied, Typed', UNCHANGED <<rev, receipts, commitLock, calls>>, SameJobs(rows, rows')
    PROVE  Applied'
<1>1. \A c \in Calls : calls[c].at # "idle" => calls[c].job \in Jobs
    BY CallFields DEF Applied, Typed
<1>2. \A r \in receipts : r.job \in Jobs
    BY DEF Applied, Typed, TypeOK, Receipts
<1>3. Locking'
    BY DEF Applied, Locking
<1>4. Applying'
    BY <1>1 DEF Applied, Applying, SameJobs
<1>5. Past' /\ AppliedOnceOnItsBase'
    BY <1>2 DEF Applied, Past, AppliedOnceOnItsBase, SameJobs
<1>6. QED
    BY <1>3, <1>4, <1>5 DEF Applied

LEMMA AppliedInit == Init => Applied
BY TypedInit DEF Init, Applied, Locking, Applying, Past, AppliedOnceOnItsBase, Idle

(* A request that ends gives the lock up exactly when it holds it.         *)
LEMMA EndedCall ==
    ASSUME Applied, Typed', NEW c \in Calls, Answer(c), UNCHANGED <<rev, receipts>>,
           SameJobs(rows, rows'),
           \/ calls[c].at \in {"calculating", "calculated"} /\ commitLock' = commitLock
           \/ calls[c].at \in {"committing", "projecting"} /\ commitLock' = NoCall
    PROVE  Applied'
<1>1. /\ calls'[c].at = "idle" /\ \A d \in Calls \ {c} : calls'[d] = calls[d]
    BY DEF Answer, Applied, Typed, TypeOK, Idle
<1>2. \A d \in Calls : calls[d].at # "idle" => calls[d].job \in Jobs
    BY CallFields DEF Applied, Typed
<1>3. Locking'
  <2>1. CASE calls[c].at \in {"calculating", "calculated"} /\ commitLock' = commitLock
    BY <1>1, <2>1 DEF Applied, Locking
  <2>2. CASE calls[c].at \in {"committing", "projecting"} /\ commitLock' = NoCall
    BY <1>1, <2>2 DEF Applied, Locking
  <2>3. QED
    BY <2>1, <2>2
<1>4. Applying'
    BY <1>1, <1>2 DEF Applied, Applying, SameJobs
<1>5. \A r \in receipts : r.job \in Jobs
    BY DEF Applied, Typed, TypeOK, Receipts
<1>6. Past' /\ AppliedOnceOnItsBase'
    BY <1>5 DEF Applied, Past, AppliedOnceOnItsBase, SameJobs
<1>7. QED
    BY <1>3, <1>4, <1>6 DEF Applied

(* A commit over the plan its candidate was calculated for is the first of *)
(* its candidate: an earlier one would be ahead of that plan.              *)
LEMMA CommittedOnce ==
    ASSUME Applied, Typed', NEW c \in Calls, ApplyCommits(c)
    PROVE  Applied'
<1> DEFINE r0 == [job |-> calls[c].job, operation |-> calls[c].operation, rev |-> rev + 1]
<1> TypeOK
    BY DEF Applied, Typed
<1>1. /\ rev' = rev + 1 /\ receipts' = receipts \cup {r0} /\ rows' = rows /\ rev \in Nat
      /\ commitLock' = commitLock /\ calls[c].at = "committing"
    BY DEF ApplyCommits, TypeOK
<1>2. /\ calls'[c].at = "projecting" /\ calls'[c].job = calls[c].job /\ calls[c].job \in Jobs
      /\ \A d \in Calls \ {c} : calls'[d] = calls[d]
  <2>1. /\ calls'[c] = [calls[c] EXCEPT !.at = "projecting"]
        /\ \A d \in Calls \ {c} : calls'[d] = calls[d]
    BY DEF ApplyCommits, TypeOK
  <2>2. calls[c].job \in Jobs
    BY <1>1, CallFields
  <2>3. \A s \in {"projecting"} : /\ [calls[c] EXCEPT !.at = s].at = s
                                  /\ [calls[c] EXCEPT !.at = s].job = calls[c].job
    BY <1>1, CallFields
  <2>4. QED
    BY <2>1, <2>2, <2>3
<1>3. /\ rows[calls[c].job].base = rev /\ rows[calls[c].job].status # "unused"
    BY <1>1 DEF Applied, Applying
<1>4. \A r \in receipts : r.job # calls[c].job /\ r.rev \in Nat /\ r.rev <= rev /\ r.job \in Jobs
  <2>1. \A r \in receipts : r.rev \in Nat /\ r.rev <= rev /\ r.rev = rows[r.job].base + 1 /\ r.job \in Jobs
    BY DEF Applied, Past, AppliedOnceOnItsBase, TypeOK, Receipts
  <2>2. QED
    BY <1>1, <1>3, <2>1
<1>5. Locking'
    BY <1>1, <1>2 DEF Applied, Locking
<1>6. \A d \in Calls \ {c} : calls[d].at \notin {"committing", "projecting"}
    BY <1>1 DEF Applied, Locking
<1>7. r0.job = calls[c].job /\ r0.rev = rev + 1 /\ r0 \in receipts'
    BY <1>1
<1> HIDE DEF r0
<1>8. Applying'
    BY <1>1, <1>2, <1>3, <1>6, <1>7 DEF Applied, Applying
<1>9. Past'
    BY <1>1, <1>3, <1>4, <1>7 DEF Applied, Past
<1>10. AppliedOnceOnItsBase'
    BY <1>1, <1>3, <1>4, <1>7 DEF Applied, AppliedOnceOnItsBase
<1>11. QED
    BY <1>5, <1>8, <1>9, <1>10 DEF Applied

LEMMA AppliedStep == Applied /\ [Next]_vars => Applied'
<1> SUFFICES ASSUME Applied, [Next]_vars PROVE Applied'
    OBVIOUS
<1> Typed /\ TypeOK
    BY DEF Applied, Typed
<1>0. Typed'
    BY TypedStep DEF Applied
<1>1. CASE UNCHANGED <<rows, rev, receipts, commitLock, calls>>
    BY <1>0, <1>1, AppliedSame DEF SameJobs
<1>2. ASSUME NEW j \in Jobs, StartCreates(j) PROVE Applied'
  <2>1. UNCHANGED <<rev, receipts, commitLock, calls>> /\ rows[j].status = "unused"
    BY <1>2 DEF StartCreates
  <2>2. \A k \in Jobs \ {j} : /\ rows'[k].base = rows[k].base
                              /\ rows'[k].status = "unused" <=> rows[k].status = "unused"
    BY <1>2, CreatedRows
  <2>3. \A c \in Calls : calls[c].at # "idle" => calls[c].job \in Jobs \ {j}
    BY <2>1, CallFields DEF Applied, Applying
  <2>4. \A r \in receipts : r.job \in Jobs \ {j}
    BY <2>1 DEF Applied, Past, TypeOK, Receipts
  <2>5. Locking' /\ Applying'
    BY <2>1, <2>2, <2>3 DEF Applied, Locking, Applying
  <2>6. Past' /\ AppliedOnceOnItsBase'
    BY <2>1, <2>2, <2>4 DEF Applied, Past, AppliedOnceOnItsBase
  <2>7. QED
    BY <1>0, <2>5, <2>6 DEF Applied
<1>3. ASSUME NEW j \in Jobs, Cancel(j) PROVE Applied'
    BY <1>0, <1>3, CancelledRows, AppliedSame DEF Cancel
<1>4. CASE WorkerMarks \/ WorkerFails \/ WorkerPublishes
  <2>1. Running /\ UNCHANGED <<rev, receipts, commitLock, calls>>
    BY <1>4 DEF WorkerMarks, WorkerFails, WorkerPublishes
  <2>2. PICK s \in {"running", "failed", "ready"} : rows' = Updated(Head(executor), s)
    BY <1>4 DEF WorkerMarks, WorkerFails, WorkerPublishes
  <2>3. SameJobs(rows, rows')
    BY <2>1, <2>2, FirstInQueue, UpdatedRows
  <2>4. QED
    BY <1>0, <2>1, <2>3, AppliedSame
<1>5. ASSUME NEW c \in Calls, NEW j \in Jobs, NEW o \in OperationIds, ApplyCaptures(c, j, o)
      PROVE  Applied'
  <2>1. /\ UNCHANGED <<rows, rev, receipts, commitLock>> /\ commitLock = NoCall
        /\ rows[j].status # "unused"
    BY <1>5 DEF ApplyCaptures, durable
  <2>2. /\ calls'[c].at = "calculating" /\ calls'[c].job = j
        /\ \A d \in Calls \ {c} : calls'[d] = calls[d]
    BY <1>5 DEF ApplyCaptures, TypeOK
  <2>3. Locking' /\ Applying'
    BY <2>1, <2>2 DEF Applied, Locking, Applying
  <2>4. Past' /\ AppliedOnceOnItsBase'
    BY <2>1 DEF Applied, Past, AppliedOnceOnItsBase
  <2>5. QED
    BY <1>0, <2>3, <2>4 DEF Applied
<1>6. ASSUME NEW c \in Calls, ApplyCalculates(c) \/ ApplyValidates(c) PROVE Applied'
  <2>1. calls[c].at \in {"calculating", "calculated"} /\ UNCHANGED <<rows, rev, receipts>>
    BY <1>6 DEF ApplyCalculates, ApplyValidates, durable
  <2>2. PICK s \in {"calculated", "committing"} :
            /\ calls' = [calls EXCEPT ![c].at = s]
            /\ s = "calculated" => commitLock' = commitLock /\ IsApplicable(c)
            /\ s = "committing" => /\ commitLock = NoCall /\ commitLock' = c
                                   /\ calls[c].at = "calculated" /\ rev = calls[c].origin
    BY <1>6 DEF ApplyCalculates, ApplyValidates
  <2>3. /\ calls'[c].at = s /\ calls'[c].job = calls[c].job /\ calls'[c].origin = calls[c].origin
        /\ \A d \in Calls \ {c} : calls'[d] = calls[d]
    <3>1. /\ calls'[c] = [calls[c] EXCEPT !.at = s]
          /\ \A d \in Calls \ {c} : calls'[d] = calls[d]
      BY <2>2 DEF TypeOK
    <3>2. QED
      BY <2>1, <3>1, CallFields
  <2>4. s = "calculated" => rows[calls[c].job].base = calls[c].origin
    BY <2>2 DEF IsApplicable
  <2>5. Locking'
    BY <2>1, <2>2, <2>3 DEF Applied, Locking
  <2>6. Applying'
    BY <2>1, <2>2, <2>3, <2>4 DEF Applied, Applying
  <2>7. Past' /\ AppliedOnceOnItsBase'
    BY <2>1 DEF Applied, Past, AppliedOnceOnItsBase
  <2>8. QED
    BY <1>0, <2>5, <2>6, <2>7 DEF Applied
<1>7. ASSUME NEW c \in Calls,
             \/ ApplyCompleted(c) \/ ApplyRefused(c) \/ ApplyReplayedAtCommit(c) \/ ApplyRollsBack(c)
      PROVE  Applied'
  <2>1. /\ Answer(c) /\ UNCHANGED <<rows, rev, receipts>>
        /\ \/ calls[c].at \in {"calculating", "calculated"} /\ commitLock' = commitLock
           \/ calls[c].at \in {"committing", "projecting"} /\ commitLock' = NoCall
    BY <1>7 DEF ApplyCompleted, ApplyRefused, ApplyReplayedAtCommit, ApplyRollsBack, durable
  <2>2. QED
    BY <1>0, <2>1, EndedCall DEF SameJobs
<1>8. ASSUME NEW c \in Calls, ApplyProjects(c) PROVE Applied'
  <2>1. /\ Answer(c) /\ UNCHANGED <<rev, receipts>> /\ calls[c].at = "projecting"
        /\ commitLock' = NoCall
        /\ rows' = rows \/ rows' = Updated(calls[c].job, "completed")
    BY <1>8 DEF ApplyProjects
  <2>2. SameJobs(rows, rows')
    <3>1. calls[c].job \in Jobs
      BY <2>1, CallFields
    <3>2. CASE rows' = rows
      BY <3>2 DEF SameJobs
    <3>3. CASE rows' = Updated(calls[c].job, "completed")
      BY <3>1, <3>3, UpdatedRows
    <3>4. QED
      BY <2>1, <3>2, <3>3
  <2>3. QED
    BY <1>0, <2>1, <2>2, EndedCall
<1>9. CASE OtherWrite
  <2>1. rev \in Nat /\ rev' = rev + 1 /\ UNCHANGED <<rows, receipts, calls, commitLock>>
        /\ commitLock = NoCall
    BY <1>9 DEF OtherWrite, TypeOK
  <2>2. Locking' /\ Applying'
    BY <2>1 DEF Applied, Locking, Applying
  <2>3. Past' /\ AppliedOnceOnItsBase'
    BY <2>1 DEF Applied, Past, AppliedOnceOnItsBase, TypeOK, Receipts
  <2>4. QED
    BY <1>0, <2>2, <2>3 DEF Applied
<1>10. CASE Crash
  <2>1. /\ UNCHANGED <<rows, rev, receipts>> /\ \A c \in Calls : calls'[c].at = "idle"
        /\ commitLock' = NoCall
    BY <1>10 DEF Crash, durable, Idle
  <2>2. Locking' /\ Applying'
    BY <2>1 DEF Locking, Applying
  <2>3. Past' /\ AppliedOnceOnItsBase'
    BY <2>1 DEF Applied, Past, AppliedOnceOnItsBase
  <2>4. QED
    BY <1>0, <2>2, <2>3 DEF Applied
<1>11. QED
  <2>1. ASSUME NEW c \in Calls, Arrive(c)
        PROVE  \/ UNCHANGED <<rows, rev, receipts, commitLock, calls>>
               \/ \E j \in Jobs, o \in OperationIds : ApplyCaptures(c, j, o)
    BY <2>1 DEF Arrive, ApplyReplayed, durable
  <2>2. Start => \/ UNCHANGED <<rows, rev, receipts, commitLock, calls>>
                 \/ \E j \in Jobs : StartCreates(j)
    BY DEF Start, StartCaptures, StartDeduplicated, StartRefused, durable
  <2>3. ASSUME NEW j \in Jobs, CancelCommitted(j)
        PROVE  UNCHANGED <<rows, rev, receipts, commitLock, calls>>
    BY <2>3 DEF CancelCommitted, durable
  <2>4. WorkerLooks \/ WorkerAbandons \/ Restart \/ UNCHANGED vars
            => UNCHANGED <<rows, rev, receipts, commitLock, calls>>
    BY DEF WorkerLooks, WorkerAbandons, Restart, durable, vars
  <2>5. QED
    BY <1>1, <1>2, <1>3, <1>4, <1>5, <1>6, <1>7, <1>8, <1>9, <1>10, <2>1, <2>2, <2>3, <2>4,
       CommittedOnce, <1>0
       DEF Next, Work, Apply

(* A candidate is applied at most once, whatever names the requests give   *)
(* their operation, and over the very plan it was calculated for: the base *)
(* is compared under commit_lock (_apply_locked).                          *)
THEOREM CandidatesAppliedOnce == Spec => []AppliedOnceOnItsBase
<1>1. Applied => AppliedOnceOnItsBase
    BY DEF Applied
<1>2. QED
    BY AppliedInit, AppliedStep, <1>1, PTL DEF Spec

LEMMA AnsweredInit == Init => Answered
BY AppliedInit DEF Init, Answered, Told, AnswersHold, Idle

(* A step that tells nobody anything, and completes or revives no row.     *)
LEMMA AnsweredSame ==
    ASSUME Answered, Applied',
           receipts' = receipts, toldApplied' = toldApplied, toldCancelled' = toldCancelled,
           \A k \in Jobs : /\ rows'[k].status = "completed" => rows[k].status = "completed"
                           /\ rows[k].status \in {"cancelled", "deleted"} =>
                                    rows'[k].status \in {"cancelled", "deleted"},
           \A c \in Calls : calls'[c].at = "committing" =>
                                calls[c].at = "committing" /\ calls'[c].job = calls[c].job
    PROVE  Answered'
<1>1. toldCancelled \subseteq Jobs
    BY DEF Answered, Applied, Typed, TypeOK
<1>2. Told'
    BY <1>1 DEF Answered, Told
<1>3. AnswersHold'
    BY DEF Answered, AnswersHold, CommittedJob
<1>4. QED
    BY <1>2, <1>3 DEF Answered

(* The worker and the callback never revive an ended row.                  *)
LEMMA UpdatedEnd ==
    ASSUME TypeOK, NEW j \in Jobs, NEW s \in {"running", "ready", "completed", "failed"},
           rows' = Updated(j, s)
    PROVE  \A k \in Jobs : /\ rows'[k].status = "completed" =>
                                rows[k].status = "completed" \/ (k = j /\ s = "completed")
                           /\ rows[k].status \in {"cancelled", "deleted"} =>
                                rows'[k].status \in {"cancelled", "deleted"}
<1>1. /\ \A k \in Jobs \ {j} : rows'[k] = rows[k]
      /\ rows'[j].status = IF rows[j].status \in Ended \cup {"unused", "deleted"}
                           THEN rows[j].status ELSE s
    BY UpdatedRows
<1>2. QED
    BY <1>1 DEF Ended

(* An answer that says applied has a receipt behind it.                    *)
LEMMA ToldOfReceipt ==
    ASSUME Answered, Applied', NEW j, \E r \in receipts : r.job = j,
           toldApplied' = toldApplied \cup {j}, toldCancelled' = toldCancelled,
           receipts' = receipts,
           \A k \in Jobs : /\ rows'[k].status = "completed" => rows[k].status = "completed" \/ k = j
                           /\ rows[k].status \in {"cancelled", "deleted"} =>
                                    rows'[k].status \in {"cancelled", "deleted"},
           \A c \in Calls : calls'[c].at = "committing" =>
                                calls[c].at = "committing" /\ calls'[c].job = calls[c].job
    PROVE  Answered'
<1>1. toldCancelled \subseteq Jobs
    BY DEF Answered, Applied, Typed, TypeOK
<1>2. Told'
    BY <1>1 DEF Answered, Told
<1>3. AnswersHold'
    BY DEF Answered, AnswersHold, CommittedJob
<1>4. QED
    BY <1>2, <1>3 DEF Answered

LEMMA AnsweredStep == Answered /\ [Next]_vars => Answered'
<1> SUFFICES ASSUME Answered, [Next]_vars PROVE Answered'
    OBVIOUS
<1> Typed /\ TypeOK /\ Applied /\ Told
    BY DEF Answered, Applied, Typed
<1>0. Applied'
    BY AppliedStep DEF Answered
<1>1. CASE UNCHANGED <<rows, receipts, toldApplied, toldCancelled, calls>>
    BY <1>0, <1>1, AnsweredSame
<1>2. ASSUME NEW j \in Jobs, StartCreates(j) PROVE Answered'
  <2>1. UNCHANGED <<receipts, toldApplied, toldCancelled, calls>> /\ rows[j].status = "unused"
    BY <1>2 DEF StartCreates, answers
  <2>2. /\ rows'[j].status \in {"queued", "deleted"}
        /\ \A k \in Jobs \ {j} : rows'[k].status \in {rows[k].status, "deleted"}
    BY <1>2, CreatedRows
  <2>3. \A k \in Jobs : /\ rows'[k].status = "completed" => rows[k].status = "completed"
                        /\ rows[k].status \in {"cancelled", "deleted"} =>
                                 rows'[k].status \in {"cancelled", "deleted"}
    BY <2>1, <2>2
  <2>4. QED
    BY <1>0, <2>1, <2>3, AnsweredSame
<1>3. ASSUME NEW j \in Jobs, Cancel(j) PROVE Answered'
  <2>1. /\ UNCHANGED <<receipts, toldApplied, calls, commitLock>> /\ commitLock = NoCall
        /\ ~CommittedJob(j)
        /\ toldCancelled' = IF rows'[j].status = "cancelled" THEN toldCancelled \cup {j}
                            ELSE toldCancelled
    BY <1>3 DEF Cancel
  <2>2. \A k \in Jobs \ {j} : rows'[k].status \in {rows[k].status, "deleted"}
    BY <1>3, CancelledRows
  <2>3. /\ rows'[j].status = "completed" => rows[j].status = "completed"
        /\ rows[j].status \in {"cancelled", "deleted"} => rows'[j].status \in {"cancelled", "deleted"}
    <3> DEFINE rs == IF rows[j].status \in Waiting \cup {"ready"}
                     THEN [rows EXCEPT ![j].status = "cancelled"] ELSE rows
    <3>1. /\ rs \in [Jobs -> Rows] /\ rs[j].status \in {rows[j].status, "cancelled"}
          /\ rows[j].status \in {"cancelled", "deleted"} => rs[j].status = rows[j].status
      BY DEF TypeOK, Rows, Statuses, Ended, Waiting
    <3>2. rows' = Pruned(rs)
      BY <1>3 DEF Cancel
    <3> HIDE DEF rs
    <3>3. QED
      BY <3>1, <3>2, PrunedRows
  <2>4. \A c \in Calls : calls[c].at # "committing"
    BY <2>1 DEF Applied, Locking
  <2>5. toldCancelled \subseteq Jobs
    BY DEF TypeOK
  <2>6. Told'
    BY <2>1, <2>2, <2>3, <2>4, <2>5 DEF Told
  <2>7. AnswersHold'
    BY <2>1 DEF Answered, AnswersHold, CommittedJob
  <2>8. QED
    BY <1>0, <2>6, <2>7 DEF Answered
<1>4. CASE WorkerMarks \/ WorkerFails \/ WorkerPublishes
  <2>1. Running /\ UNCHANGED <<receipts, toldApplied, toldCancelled, calls>>
    BY <1>4 DEF WorkerMarks, WorkerFails, WorkerPublishes, answers
  <2>2. PICK s \in {"running", "failed", "ready"} : rows' = Updated(Head(executor), s)
    BY <1>4 DEF WorkerMarks, WorkerFails, WorkerPublishes
  <2>3. \A k \in Jobs : /\ rows'[k].status = "completed" => rows[k].status = "completed"
                        /\ rows[k].status \in {"cancelled", "deleted"} =>
                                 rows'[k].status \in {"cancelled", "deleted"}
    BY <2>1, <2>2, FirstInQueue, UpdatedEnd
  <2>4. QED
    BY <1>0, <2>1, <2>3, AnsweredSame
<1>5. ASSUME NEW j \in Jobs, CancelCommitted(j) PROVE Answered'
  <2>1. /\ UNCHANGED <<rows, receipts, calls, toldCancelled>>
        /\ toldApplied' = toldApplied \cup {j}
        /\ \E r \in receipts : r.job = j
    BY <1>5 DEF CancelCommitted, CommittedJob, durable
  <2>2. QED
    BY <1>0, <2>1, ToldOfReceipt
<1>6. ASSUME NEW c \in Calls, NEW j \in Jobs, NEW o \in OperationIds,
             ApplyReplayed(c, j, o) \/ ApplyCaptures(c, j, o)
      PROVE  Answered'
  <2>1. CASE ApplyReplayed(c, j, o)
    <3>1. /\ UNCHANGED <<rows, receipts, calls, toldCancelled>>
          /\ toldApplied' = toldApplied \cup {j}
          /\ \E r \in receipts : r.job = j
      BY <2>1 DEF ApplyReplayed, Receipt, durable
    <3>2. QED
      BY <1>0, <3>1, ToldOfReceipt
  <2>2. CASE ApplyCaptures(c, j, o)
    <3>1. UNCHANGED <<rows, receipts, toldApplied, toldCancelled>>
      BY <2>2 DEF ApplyCaptures, durable, answers
    <3>2. calls'[c].at = "calculating" /\ \A d \in Calls \ {c} : calls'[d] = calls[d]
      BY <2>2 DEF ApplyCaptures, TypeOK
    <3>3. QED
      BY <1>0, <3>1, <3>2, AnsweredSame
  <2>3. QED
    BY <1>6, <2>1, <2>2
<1>7. ASSUME NEW c \in Calls, ApplyCalculates(c) \/ ApplyRefused(c) \/ ApplyRollsBack(c)
      PROVE  Answered'
  <2>1. UNCHANGED <<rows, receipts, toldApplied, toldCancelled>>
    BY <1>7 DEF ApplyCalculates, ApplyRefused, ApplyRollsBack, durable, answers
  <2>2. calls'[c].at \in {"calculated", "idle"} /\ \A d \in Calls \ {c} : calls'[d] = calls[d]
    <3>1. CASE ApplyCalculates(c)
      <4>1. /\ calls'[c] = [calls[c] EXCEPT !.at = "calculated"]
            /\ \A d \in Calls \ {c} : calls'[d] = calls[d]
        BY <3>1 DEF ApplyCalculates, TypeOK
      <4>2. \A s \in {"calculated"} : [calls[c] EXCEPT !.at = s].at = s
        BY <3>1, CallFields DEF ApplyCalculates
      <4>3. QED
        BY <4>1, <4>2
    <3>2. CASE ApplyRefused(c) \/ ApplyRollsBack(c)
      BY <3>2 DEF ApplyRefused, ApplyRollsBack, Answer, TypeOK, Idle
    <3>3. QED
      BY <1>7, <3>1, <3>2
  <2>3. QED
    BY <1>0, <2>1, <2>2, AnsweredSame
<1>8. ASSUME NEW c \in Calls, ApplyCompleted(c) \/ ApplyReplayedAtCommit(c) \/ ApplyProjects(c)
      PROVE  Answered'
  <2>1. /\ Answer(c) /\ UNCHANGED <<receipts, toldCancelled>>
        /\ toldApplied' = toldApplied \cup {calls[c].job}
    BY <1>8 DEF ApplyCompleted, ApplyReplayedAtCommit, ApplyProjects, durable
  <2>2. calls[c].job \in Jobs
    BY <1>8, CallFields DEF ApplyCompleted, ApplyReplayedAtCommit, ApplyProjects
  <2>3. calls'[c].at = "idle" /\ \A d \in Calls \ {c} : calls'[d] = calls[d]
    BY <2>1 DEF Answer, TypeOK, Idle
  <2>4. \E r \in receipts : r.job = calls[c].job
    <3>1. CASE ApplyCompleted(c)
      <4>1. CommittedJob(calls[c].job) \/ rows[calls[c].job].status = "completed"
        BY <3>1 DEF ApplyCompleted, Status
      <4>2. QED
        BY <2>2, <4>1 DEF CommittedJob, Told
    <3>2. CASE ApplyReplayedAtCommit(c)
      BY <3>2 DEF ApplyReplayedAtCommit, Receipt
    <3>3. CASE ApplyProjects(c)
      BY <3>3 DEF ApplyProjects, Applied, Applying
    <3>4. QED
      BY <1>8, <3>1, <3>2, <3>3
  <2>5. \A k \in Jobs : /\ rows'[k].status = "completed" =>
                                rows[k].status = "completed" \/ k = calls[c].job
                        /\ rows[k].status \in {"cancelled", "deleted"} =>
                                rows'[k].status \in {"cancelled", "deleted"}
    <3>1. CASE rows' = rows
      BY <3>1
    <3>2. CASE rows' = Updated(calls[c].job, "completed")
      BY <2>2, <3>2, UpdatedEnd
    <3>3. QED
      BY <1>8, <3>1, <3>2 DEF ApplyCompleted, ApplyReplayedAtCommit, ApplyProjects, durable
  <2>6. QED
    BY <1>0, <2>1, <2>3, <2>4, <2>5, ToldOfReceipt
<1>9. ASSUME NEW c \in Calls, ApplyValidates(c) PROVE Answered'
  <2>1. /\ UNCHANGED <<rows, receipts, toldApplied, toldCancelled>>
        /\ Status(calls[c].job) = "ready" /\ calls[c].at = "calculated"
        /\ calls' = [calls EXCEPT ![c].at = "committing"]
    BY <1>9 DEF ApplyValidates, durable, answers
  <2>2. /\ calls'[c].job = calls[c].job /\ \A d \in Calls \ {c} : calls'[d] = calls[d]
    <3>1. /\ calls'[c] = [calls[c] EXCEPT !.at = "committing"]
          /\ \A d \in Calls \ {c} : calls'[d] = calls[d]
      BY <2>1 DEF TypeOK
    <3>2. \A s \in {"committing"} : [calls[c] EXCEPT !.at = s].job = calls[c].job
      BY <2>1, CallFields
    <3>3. QED
      BY <3>1, <3>2
  <2>3. rows[calls[c].job].status = "ready"
    BY <2>1 DEF Status
  <2>4. Told'
    BY <2>1, <2>2, <2>3 DEF Told
  <2>5. AnswersHold'
    BY <2>1 DEF Answered, AnswersHold, CommittedJob
  <2>6. QED
    BY <1>0, <2>4, <2>5 DEF Answered
<1>10. ASSUME NEW c \in Calls, ApplyCommits(c) PROVE Answered'
  <2>1. /\ UNCHANGED <<rows, toldApplied, toldCancelled>> /\ calls[c].at = "committing"
        /\ receipts' = receipts \cup {[job |-> calls[c].job, operation |-> calls[c].operation,
                                       rev |-> rev + 1]}
    BY <1>10 DEF ApplyCommits, answers
  <2>2. calls'[c].at = "projecting" /\ \A d \in Calls \ {c} : calls'[d] = calls[d]
    <3>1. /\ calls'[c] = [calls[c] EXCEPT !.at = "projecting"]
          /\ \A d \in Calls \ {c} : calls'[d] = calls[d]
      BY <1>10 DEF ApplyCommits, TypeOK
    <3>2. \A s \in {"projecting"} : [calls[c] EXCEPT !.at = s].at = s
      BY <2>1, CallFields
    <3>3. QED
      BY <3>1, <3>2
  <2>3. calls[c].job \notin toldCancelled
    BY <2>1 DEF Told
  <2>4. Told'
    BY <2>1, <2>2 DEF Told
  <2>5. \A j \in Jobs : CommittedJob(j)' => CommittedJob(j) \/ j = calls[c].job
    BY <2>1 DEF CommittedJob
  <2>6. AnswersHold'
    BY <2>1, <2>3, <2>5 DEF Answered, AnswersHold
  <2>7. QED
    BY <1>0, <2>4, <2>6 DEF Answered
<1>11. CASE Crash
  <2>1. UNCHANGED <<rows, receipts, toldApplied, toldCancelled>> /\ \A c \in Calls : calls'[c].at = "idle"
    BY <1>11 DEF Crash, durable, answers, Idle
  <2>2. QED
    BY <1>0, <2>1, AnsweredSame
<1>12. QED
  <2>1. Start => \/ UNCHANGED <<rows, receipts, toldApplied, toldCancelled, calls>>
                 \/ \E j \in Jobs : StartCreates(j)
    BY DEF Start, StartCaptures, StartDeduplicated, StartRefused, durable, answers
  <2>2. WorkerLooks \/ WorkerAbandons \/ OtherWrite \/ Restart \/ UNCHANGED vars
            => UNCHANGED <<rows, receipts, toldApplied, toldCancelled, calls>>
    BY DEF WorkerLooks, WorkerAbandons, OtherWrite, Restart, durable, answers, vars
  <2>3. QED
    BY <1>1, <1>2, <1>3, <1>4, <1>5, <1>6, <1>7, <1>8, <1>9, <1>10, <1>11, <2>1, <2>2
       DEF Next, Work, Arrive, Apply

(* What a client is told of the end of a job is so: an application that was*)
(* answered is durable, and a job whose cancellation was answered is never *)
(* applied under its own operation (cancel, _committed_job).               *)
THEOREM AnswersAreTrue == Spec => []AnswersHold
<1>1. Answered => AnswersHold
    BY DEF Answered
<1>2. QED
    BY AnsweredInit, AnsweredStep, <1>1, PTL DEF Spec
=============================================================================
