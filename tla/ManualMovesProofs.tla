-------------------------- MODULE ManualMovesProofs --------------------------
(***************************************************************************)
(* Proofs about ManualMoves and PlansStore, for every number of checks, of *)
(* applications and of snapshots, and for any clock.                       *)
(*                                                                         *)
(* Concluded says what a calculated application knows of its check: it is  *)
(* over and not cancelled, so that no cancellation is confirmed any more;  *)
(* Confirmed and Unfinished are why the worker cannot bring a cancelled    *)
(* check back.                                                             *)
(***************************************************************************)
EXTENDS ManualMoves, TLAPS, FiniteSetTheorems

USE JobsAssumption, RetainedAssumption, StoreAssumption

(* A confirmed cancellation is the end of a check.                         *)
Confirmed == \A j \in told : job[j].status \in {"cancelled", "failed"}

(* The worker has no check that is over, but for a cancelled one.          *)
Unfinished ==
    \A j \in Jobs : future[j] # "none" => job[j].status \in {"queued", "running", "cancelled"}

(* An application was calculated from a check that ended well.             *)
Concluded ==
    \A c \in Calls : calls[c].at \in {"calculated", "committed"} =>
        /\ job[calls[c].job].status \in {"ready", "applied"}
        /\ job[calls[c].job].base = calls[c].origin

Checked == TypeOK /\ Confirmed /\ Unfinished /\ Concluded /\ ActivePlanIsStored

-----------------------------------------------------------------------------
(* The snapshots.                                                          *)

(* The snapshot a commit inserts is never pruned by it.                    *)
LEMMA PointerIsKept ==
    ASSUME NEW all, NEW r \in all
    PROVE  r \in Pruned(all, r.id) /\ Pruned(all, r.id) \subseteq all
BY DEF Pruned

LEMMA CommitEffect ==
    ASSUME StoreTypeOK, ActivePlanIsStored, CommitSnapshot
    PROVE  StoreTypeOK' /\ ActivePlanIsStored' /\ live' = live + 1
<1>1. /\ inserted < MaxRows /\ inserted' = inserted + 1
      /\ active' = [snapshot |-> inserted + 1, revision |-> live + 1]
      /\ live' = live + 1 /\ saving' = saving
    BY DEF CommitSnapshot
<1>2. PICK t \in Instants :
        rows' = Pruned(rows \cup {[id |-> inserted + 1, time |-> t, auto |-> TRUE,
                                   data |-> live + 1, schedule |-> live + 1]},
                       inserted + 1)
    BY DEF CommitSnapshot
<1> DEFINE r == [id |-> inserted + 1, time |-> t, auto |-> TRUE,
                 data |-> live + 1, schedule |-> live + 1]
<1>3. inserted + 1 \in 1..MaxRows /\ live + 1 \in Nat /\ live \in Nat
    BY <1>1 DEF StoreTypeOK
<1>4. r \in Snapshots
    BY <1>3 DEF Snapshots
<1>5. r.id = inserted + 1 /\ r.data = live + 1 /\ r.schedule = live + 1
    OBVIOUS
<1> HIDE DEF r
<1>6. r \in rows' /\ rows' \subseteq rows \cup {r}
    <2>1. rows' = Pruned(rows \cup {r}, r.id)
        BY <1>2, <1>5 DEF r
    <2>2. r \in rows \cup {r}
        OBVIOUS
    <2>3. r \in Pruned(rows \cup {r}, r.id) /\ Pruned(rows \cup {r}, r.id) \subseteq rows \cup {r}
        BY <2>2, PointerIsKept
    <2>4. QED
        BY <2>1, <2>3
<1>7. rows' \subseteq Snapshots
    BY <1>4, <1>6 DEF StoreTypeOK
<1>8. StoreTypeOK'
    BY <1>1, <1>3, <1>7 DEF StoreTypeOK
<1>9. ActivePlanIsStored'
    BY <1>1, <1>5, <1>6 DEF ActivePlanIsStored
<1>10. QED
    BY <1>1, <1>8, <1>9

LEMMA ByHandEffect ==
    ASSUME StoreTypeOK, ActivePlanIsStored,
           SaveReads \/ SaveInserts \/ (\E r \in rows : Delete(r)) \/ Reopen
    PROVE  StoreTypeOK' /\ ActivePlanIsStored' /\ live' = live
<1>1. CASE SaveReads
    BY <1>1 DEF SaveReads, StoreTypeOK, ActivePlanIsStored
<1>2. CASE SaveInserts
    <2> DEFINE r == [id |-> inserted + 1, time |-> NoTime, auto |-> FALSE,
                     data |-> saving.data, schedule |-> live]
    <2>1. /\ rows' = rows \cup {r} /\ inserted < MaxRows /\ inserted' = inserted + 1
          /\ saving' = NotSaving /\ UNCHANGED <<active, live>>
        BY <1>2 DEF SaveInserts
    <2>2. inserted + 1 \in 1..MaxRows /\ NotSaving \in [on : BOOLEAN, data : Nat]
        BY <2>1 DEF StoreTypeOK, NotSaving
    <2>3. r \in Snapshots
        BY <2>2 DEF StoreTypeOK, Snapshots
    <2> HIDE DEF r
    <2>4. StoreTypeOK'
        BY <2>1, <2>2, <2>3 DEF StoreTypeOK
    <2>5. QED
        BY <2>1, <2>4 DEF ActivePlanIsStored
<1>3. CASE \E r \in rows : Delete(r)
    BY <1>3 DEF Delete, StoreTypeOK, ActivePlanIsStored
<1>4. CASE Reopen
    BY <1>4 DEF Reopen, StoreTypeOK, NotSaving, ActivePlanIsStored
<1>5. QED
    BY <1>1, <1>2, <1>3, <1>4

-----------------------------------------------------------------------------
(* The checks.                                                             *)

LEMMA CheckFields ==
    ASSUME NEW r \in Checks
    PROVE  r.status \in Statuses /\ r.base \in Nat /\ r.number \in Nat
BY DEF Checks

LEMMA ApplicationFields ==
    ASSUME TypeOK, NEW c \in Calls, calls[c].at # "idle"
    PROVE  /\ calls[c] \in Applications
           /\ calls[c].job \in Jobs /\ calls[c].origin \in Nat
           /\ calls[c].at \in {"captured", "calculated", "committed"}
<1>1. calls[c] \in Applications
    BY DEF TypeOK, Idle
<1>2. QED
    BY <1>1 DEF Applications

LEMMA UpdatedEffect ==
    ASSUME TypeOK, NEW j \in Jobs, NEW s \in Statuses, job' = Updated(j, s)
    PROVE  /\ job' \in [Jobs -> Checks]
           /\ \A k \in Jobs : job'[k].base = job[k].base
           /\ \A k \in Jobs \ {j} : job'[k] = job[k]
           /\ job'[j].status = job[j].status
                \/ (job[j].status # "cancelled" /\ job'[j].status = s)
<1> DEFINE r == [job[j] EXCEPT !.status = s]
<1>1. job \in [Jobs -> Checks] /\ job[j] \in Checks
    BY DEF TypeOK
<1>2. r \in Checks /\ r.status = s /\ r.base = job[j].base
    BY <1>1 DEF Checks
<1>3. CASE Held(j) /\ job[j].status # "cancelled"
    <2>1. job' = [job EXCEPT ![j] = r]
        BY <1>3 DEF Updated
    <2> HIDE DEF r
    <2>2. QED
        BY <1>1, <1>2, <1>3, <2>1
<1>4. CASE ~(Held(j) /\ job[j].status # "cancelled")
    BY <1>1, <1>4 DEF Updated
<1>5. QED
    BY <1>3, <1>4

LEMMA GoesToEffect ==
    ASSUME TypeOK, NEW j \in Jobs, NEW at \in Futures, GoesTo(j, at)
    PROVE  /\ future' \in [Jobs -> Futures] /\ future'[j] = at
           /\ \A k \in Jobs \ {j} : future'[k] = future[k]
BY DEF TypeOK, GoesTo

(* A step of the worker: what becomes of its check.                        *)
LEMMA WorkerStep ==
    ASSUME Checked, NEW j \in Jobs,
           Dequeues(j) \/ Takes(j) \/ Stops(j) \/ LastLook(j) \/ Stores(j) \/ Publishes(j)
    PROVE  Checked'
<1> USE DEF Checked
<1>1. UNCHANGED <<store, table, cancelEvents, told, receipts, calls>>
    BY DEF Dequeues, Takes, Stops, LastLook, Stores, Publishes, Elsewhere
<1>2. moves' \subseteq Jobs
    BY DEF Dequeues, Takes, Stops, LastLook, Stores, Publishes, TypeOK
<1>3. future[j] # "none"
    BY DEF Dequeues, Takes, Stops, LastLook, Stores, Publishes, Working
<1>4. job[j].status \in {"queued", "running", "cancelled"}
    BY <1>3 DEF Unfinished
<1>5. {"running", "cancelled", "failed", "ready"} \subseteq Statuses
    BY DEF Statuses, Terminal
<1>6. \E at \in Futures : GoesTo(j, at)
    BY DEF Dequeues, Takes, Stops, LastLook, Stores, Publishes, Leave, GoesTo, Futures
<1>7. /\ future' \in [Jobs -> Futures]
      /\ \A k \in Jobs \ {j} : future'[k] = future[k]
    BY <1>6, GoesToEffect
<1>8. \/ job' = job
      \/ GoesTo(j, "running") /\ job' = Updated(j, "running")
      \/ GoesTo(j, "none") /\ \E s \in {"cancelled", "failed", "ready"} : job' = Updated(j, s)
    BY DEF Dequeues, Takes, Stops, LastLook, Stores, Publishes, Leave
<1>9. \/ job' = job
      \/ GoesTo(j, "running") /\ job'[j].status \in {"queued", "running", "cancelled"}
      \/ GoesTo(j, "none") /\ job'[j].status \in {"queued", "running", "cancelled", "failed", "ready"}
    <2>1. CASE job' = job
        BY <2>1
    <2>2. CASE GoesTo(j, "running") /\ job' = Updated(j, "running")
        <3>1. job'[j].status \in {job[j].status, "running"}
            BY <1>5, <2>2, UpdatedEffect DEF TypeOK
        <3>2. QED
            BY <1>4, <2>2, <3>1
    <2>3. CASE GoesTo(j, "none") /\ \E s \in {"cancelled", "failed", "ready"} : job' = Updated(j, s)
        BY <1>4, <1>5, <2>3, UpdatedEffect
    <2>4. QED
        BY <1>8, <2>1, <2>2, <2>3
<1>10. /\ job' \in [Jobs -> Checks]
       /\ \A k \in Jobs : job'[k].base = job[k].base
       /\ \A k \in Jobs \ {j} : job'[k] = job[k]
       /\ job[j].status = "cancelled" => job'[j].status = "cancelled"
    BY <1>5, <1>8, UpdatedEffect DEF TypeOK
<1>11. TypeOK' /\ ActivePlanIsStored'
    BY <1>1, <1>2, <1>7, <1>10 DEF TypeOK, StoreTypeOK, ActivePlanIsStored, store
<1>12. Confirmed'
    BY <1>1, <1>4, <1>10 DEF Confirmed, TypeOK
<1>13. Unfinished'
    <2>1. future'[j] # "none" => job'[j].status \in {"queued", "running", "cancelled"}
        BY <1>4, <1>9, GoesToEffect DEF Futures
    <2>2. QED
        BY <1>7, <1>10, <2>1 DEF Unfinished
<1>14. Concluded'
    <2> SUFFICES ASSUME NEW c \in Calls, calls[c].at \in {"calculated", "committed"}
                 PROVE  /\ job'[calls[c].job].status \in {"ready", "applied"}
                        /\ job'[calls[c].job].base = calls[c].origin
        BY <1>1 DEF Concluded
    <2>1. calls[c].job \in Jobs
        BY ApplicationFields
    <2>2. calls[c].job # j
        BY <1>4 DEF Concluded
    <2>3. QED
        BY <1>10, <2>1, <2>2 DEF Concluded
<1>15. QED
    BY <1>11, <1>12, <1>13, <1>14

LEMMA StartStep ==
    ASSUME Checked, NEW j \in Jobs, Start(j)
    PROVE  Checked'
<1> USE DEF Checked
<1> DEFINE r == [status |-> "queued", base |-> live, number |-> Cardinality(Started) + 1]
<1>1. /\ job[j].status = "none" /\ job' = [job EXCEPT ![j] = r]
      /\ table' = (table \ Excess) \cup {j} /\ moves' = moves \ Excess
      /\ future' = [future EXCEPT ![j] = "pending"]
      /\ UNCHANGED <<store, cancelEvents, told, receipts, calls>>
    BY DEF Start
<1>2. Cardinality(Started) \in Nat
    BY FS_Subset, FS_CardinalityType DEF Started
<1>3. r \in Checks /\ r.status = "queued"
    BY <1>2 DEF Checks, Statuses, TypeOK, StoreTypeOK
<1> HIDE DEF r
<1>4. /\ job' \in [Jobs -> Checks] /\ job'[j] = r
      /\ \A k \in Jobs \ {j} : job'[k] = job[k]
    BY <1>1, <1>3 DEF TypeOK
<1>5. /\ future' \in [Jobs -> Futures]
      /\ \A k \in Jobs \ {j} : future'[k] = future[k]
    BY <1>1 DEF TypeOK, Futures
<1>6. TypeOK' /\ ActivePlanIsStored'
    BY <1>1, <1>4, <1>5 DEF TypeOK, StoreTypeOK, ActivePlanIsStored, store
<1>7. Confirmed'
    <2>1. j \notin told
        BY <1>1 DEF Confirmed
    <2>2. QED
        BY <1>1, <1>4, <2>1 DEF Confirmed, TypeOK
<1>8. Unfinished'
    BY <1>3, <1>4, <1>5 DEF Unfinished
<1>9. Concluded'
    <2> SUFFICES ASSUME NEW c \in Calls, calls[c].at \in {"calculated", "committed"}
                 PROVE  /\ job'[calls[c].job].status \in {"ready", "applied"}
                        /\ job'[calls[c].job].base = calls[c].origin
        BY <1>1 DEF Concluded
    <2>1. calls[c].job \in Jobs /\ calls[c].job # j
        BY <1>1, ApplicationFields DEF Concluded
    <2>2. QED
        BY <1>4, <2>1 DEF Concluded
<1>10. QED
    BY <1>6, <1>7, <1>8, <1>9

LEMMA CancelStep ==
    ASSUME Checked, NEW j \in Jobs, Cancel(j)
    PROVE  Checked'
<1> USE DEF Checked
<1> DEFINE r == [job[j] EXCEPT !.status = "cancelled"]
<1>1. /\ Status(j) \in {"queued", "running"}
      /\ cancelEvents' = cancelEvents \cup {j}
      /\ future' = IF future[j] = "pending" THEN [future EXCEPT ![j] = "none"] ELSE future
      /\ job' = [job EXCEPT ![j] = r]
      /\ moves' = moves \ {j} /\ told' = told \cup {j}
      /\ UNCHANGED <<store, table, receipts, calls>>
    BY DEF Cancel
<1>2. job[j].status \in {"queued", "running"}
    BY <1>1 DEF Status
<1>3. r \in Checks /\ r.status = "cancelled"
    BY DEF TypeOK, Checks, Statuses, Terminal
<1> HIDE DEF r
<1>4. /\ job' \in [Jobs -> Checks] /\ job'[j] = r
      /\ \A k \in Jobs \ {j} : job'[k] = job[k]
    BY <1>1, <1>3 DEF TypeOK
<1>5. /\ future' \in [Jobs -> Futures]
      /\ \A k \in Jobs \ {j} : future'[k] = future[k]
    BY <1>1 DEF TypeOK, Futures
<1>6. TypeOK' /\ ActivePlanIsStored'
    BY <1>1, <1>4, <1>5 DEF TypeOK, StoreTypeOK, ActivePlanIsStored, store
<1>7. Confirmed'
    BY <1>1, <1>3, <1>4 DEF Confirmed, TypeOK
<1>8. Unfinished'
    BY <1>3, <1>4, <1>5 DEF Unfinished
<1>9. Concluded'
    <2> SUFFICES ASSUME NEW c \in Calls, calls[c].at \in {"calculated", "committed"}
                 PROVE  /\ job'[calls[c].job].status \in {"ready", "applied"}
                        /\ job'[calls[c].job].base = calls[c].origin
        BY <1>1 DEF Concluded
    <2>1. calls[c].job \in Jobs /\ calls[c].job # j
        BY <1>2, ApplicationFields DEF Concluded
    <2>2. QED
        BY <1>4, <2>1 DEF Concluded
<1>10. QED
    BY <1>6, <1>7, <1>8, <1>9

-----------------------------------------------------------------------------
(* The applications.                                                       *)

LEMMA BecomesEffect ==
    ASSUME TypeOK, NEW c \in Calls, NEW call \in Applications \cup {Idle}, Becomes(c, call)
    PROVE  /\ calls' \in [Calls -> Applications \cup {Idle}] /\ calls'[c] = call
           /\ \A d \in Calls \ {c} : calls'[d] = calls[d]
BY DEF TypeOK, Becomes

LEMMA CallStages ==
    ASSUME NEW k \in Applications
    PROVE  /\ \A at \in {"captured", "calculated", "committed"} :
                /\ [k EXCEPT !.at = at] \in Applications
                /\ [k EXCEPT !.at = at].at = at
                /\ [k EXCEPT !.at = at].job = k.job
                /\ [k EXCEPT !.at = at].origin = k.origin
BY DEF Applications

LEMMA CapturesStep ==
    ASSUME Checked, NEW c \in Calls, NEW j \in Jobs, Captures(c, j)
    PROVE  Checked'
<1> USE DEF Checked
<1> DEFINE k == [at |-> "captured", job |-> j, origin |-> live]
<1>1. Becomes(c, k) /\ UNCHANGED <<store, Beside, receipts>>
    BY DEF Captures
<1>2. k \in Applications /\ k.at = "captured"
    BY DEF Applications, TypeOK, StoreTypeOK
<1> HIDE DEF k
<1>3. /\ calls' \in [Calls -> Applications \cup {Idle}] /\ calls'[c] = k
      /\ \A d \in Calls \ {c} : calls'[d] = calls[d]
    BY <1>1, <1>2, BecomesEffect
<1>4. TypeOK' /\ ActivePlanIsStored' /\ Confirmed' /\ Unfinished'
    BY <1>1, <1>3 DEF TypeOK, StoreTypeOK, ActivePlanIsStored, Confirmed, Unfinished, store, Beside
<1>5. Concluded'
    BY <1>1, <1>2, <1>3 DEF Concluded, Beside
<1>6. QED
    BY <1>4, <1>5

LEMMA CalculatesStep ==
    ASSUME Checked, NEW c \in Calls, Calculates(c)
    PROVE  Checked'
<1> USE DEF Checked
<1>1. calls[c].at = "captured" /\ UNCHANGED <<store, Beside, receipts>>
    BY DEF Calculates, At
<1>2. calls[c] \in Applications /\ calls[c].job \in Jobs
    BY <1>1, ApplicationFields
<1> DEFINE k == IF Applicable(c) THEN [calls[c] EXCEPT !.at = "calculated"] ELSE Idle
<1>3. Becomes(c, k)
    BY DEF Calculates
<1>4. k \in Applications \cup {Idle}
    BY <1>2, CallStages
<1>5. k.at \in {"calculated", "committed"} =>
        /\ job[k.job].status \in {"ready", "applied"} /\ job[k.job].base = k.origin
    <2>1. CASE Applicable(c)
        <3>1. k.job = calls[c].job /\ k.origin = calls[c].origin
            BY <1>2, <2>1, CallStages
        <3>2. job[calls[c].job].status = "ready" /\ job[calls[c].job].base = calls[c].origin
            BY <2>1 DEF Applicable, Status
        <3>3. QED
            BY <3>1, <3>2
    <2>2. CASE ~Applicable(c)
        BY <2>2 DEF Idle
    <2>3. QED
        BY <2>1, <2>2
<1> HIDE DEF k
<1>6. /\ calls' \in [Calls -> Applications \cup {Idle}] /\ calls'[c] = k
      /\ \A d \in Calls \ {c} : calls'[d] = calls[d]
    BY <1>3, <1>4, BecomesEffect
<1>7. TypeOK' /\ ActivePlanIsStored' /\ Confirmed' /\ Unfinished'
    BY <1>1, <1>6 DEF TypeOK, StoreTypeOK, ActivePlanIsStored, Confirmed, Unfinished, store, Beside
<1>8. Concluded'
    BY <1>1, <1>5, <1>6 DEF Concluded, Beside
<1>9. QED
    BY <1>7, <1>8

LEMMA AppliesStep ==
    ASSUME Checked, NEW c \in Calls, Applies(c)
    PROVE  /\ Checked' /\ live' = live + 1
           /\ receipts' = receipts \cup {calls[c].job}
           /\ job[calls[c].job].base = live /\ calls[c].job \notin told
<1> USE DEF Checked
<1>1. /\ calls[c].at = "calculated" /\ calls[c].origin = live
      /\ CommitSnapshot /\ UNCHANGED Beside
      /\ receipts' = receipts \cup {calls[c].job}
    BY DEF Applies, At
<1>2. calls[c] \in Applications /\ calls[c].job \in Jobs
    BY <1>1, ApplicationFields
<1> DEFINE k == [calls[c] EXCEPT !.at = "committed"]
<1>3. Becomes(c, k)
    BY DEF Applies
<1>4. k \in Applications /\ k.job = calls[c].job /\ k.origin = calls[c].origin
    BY <1>2, CallStages
<1> HIDE DEF k
<1>5. /\ calls' \in [Calls -> Applications \cup {Idle}] /\ calls'[c] = k
      /\ \A d \in Calls \ {c} : calls'[d] = calls[d]
    BY <1>3, <1>4, BecomesEffect
<1>6. StoreTypeOK' /\ ActivePlanIsStored' /\ live' = live + 1
    BY <1>1, CommitEffect DEF TypeOK
<1>7. TypeOK' /\ Confirmed' /\ Unfinished'
    BY <1>1, <1>2, <1>5, <1>6 DEF TypeOK, Confirmed, Unfinished, Beside
<1>8. /\ job[calls[c].job].status \in {"ready", "applied"}
      /\ job[calls[c].job].base = calls[c].origin
    BY <1>1 DEF Concluded
<1>9. Concluded'
    BY <1>1, <1>4, <1>5, <1>8 DEF Concluded, Beside
<1>10. calls[c].job \notin told
    BY <1>8 DEF Confirmed
<1>11. QED
    BY <1>1, <1>6, <1>7, <1>8, <1>9, <1>10

LEMMA RefusedStep ==
    ASSUME Checked, NEW c \in Calls, Refused(c)
    PROVE  Checked'
<1> USE DEF Checked
<1>1. Becomes(c, Idle) /\ UNCHANGED <<store, Beside, receipts>> /\ Idle.at = "idle"
    BY DEF Refused, Idle
<1>2. /\ calls' \in [Calls -> Applications \cup {Idle}] /\ calls'[c] = Idle
      /\ \A d \in Calls \ {c} : calls'[d] = calls[d]
    BY <1>1, BecomesEffect
<1>3. TypeOK' /\ ActivePlanIsStored' /\ Confirmed' /\ Unfinished'
    BY <1>1, <1>2 DEF TypeOK, StoreTypeOK, ActivePlanIsStored, Confirmed, Unfinished, store, Beside
<1>4. Concluded'
    BY <1>1, <1>2 DEF Concluded, Beside
<1>5. QED
    BY <1>3, <1>4

LEMMA MarksStep ==
    ASSUME Checked, NEW c \in Calls, Marks(c)
    PROVE  Checked'
<1> USE DEF Checked
<1> DEFINE j == calls[c].job
<1>1. /\ calls[c].at = "committed" /\ job' = Updated(j, "applied") /\ Becomes(c, Idle)
      /\ UNCHANGED <<store, table, future, cancelEvents, moves, told, receipts>>
      /\ Idle.at = "idle"
    BY DEF Marks, At, Idle
<1>2. j \in Jobs /\ job[j].status \in {"ready", "applied"}
    BY <1>1, ApplicationFields DEF Concluded
<1> HIDE DEF j
<1>3. /\ calls' \in [Calls -> Applications \cup {Idle}] /\ calls'[c] = Idle
      /\ \A d \in Calls \ {c} : calls'[d] = calls[d]
    BY <1>1, BecomesEffect
<1>4. "applied" \in Statuses
    BY DEF Statuses, Terminal
<1>5. /\ job' \in [Jobs -> Checks]
      /\ \A k \in Jobs : job'[k].base = job[k].base
      /\ \A k \in Jobs \ {j} : job'[k] = job[k]
      /\ job'[j].status \in {"ready", "applied"}
    BY <1>1, <1>2, <1>4, UpdatedEffect
<1>6. TypeOK' /\ ActivePlanIsStored'
    BY <1>1, <1>3, <1>5 DEF TypeOK, StoreTypeOK, ActivePlanIsStored, store
<1>7. Confirmed'
    BY <1>1, <1>2, <1>5 DEF Confirmed, TypeOK
<1>8. Unfinished'
    BY <1>1, <1>2, <1>5 DEF Unfinished
<1>9. Concluded'
    <2> SUFFICES ASSUME NEW d \in Calls, calls'[d].at \in {"calculated", "committed"}
                 PROVE  /\ job'[calls'[d].job].status \in {"ready", "applied"}
                        /\ job'[calls'[d].job].base = calls'[d].origin
        BY DEF Concluded
    <2>1. d # c /\ calls'[d] = calls[d]
        BY <1>1, <1>3
    <2>2. calls[d].job \in Jobs
        BY <2>1, ApplicationFields
    <2>3. QED
        BY <1>5, <2>1, <2>2 DEF Concluded
<1>10. QED
    BY <1>6, <1>7, <1>8, <1>9

LEMMA RestartStep ==
    ASSUME Checked, Restart
    PROVE  Checked' /\ receipts' = receipts
<1> USE DEF Checked
<1>1. /\ Reopen
      /\ job' = [j \in Jobs |-> IF job[j].status = "none" THEN job[j]
                                ELSE [job[j] EXCEPT !.status = "failed"]]
      /\ table' = {} /\ future' = [j \in Jobs |-> "none"]
      /\ cancelEvents' = {} /\ moves' = {}
      /\ calls' = [c \in Calls |-> Idle]
      /\ UNCHANGED <<told, receipts>>
    BY DEF Restart
<1>2. \A j \in Jobs : [job[j] EXCEPT !.status = "failed"] \in Checks
                      /\ [job[j] EXCEPT !.status = "failed"].status = "failed"
    BY DEF TypeOK, Checks, Statuses, Terminal
<1>3. job' \in [Jobs -> Checks]
    BY <1>1, <1>2 DEF TypeOK
<1>4. StoreTypeOK' /\ ActivePlanIsStored'
    BY <1>1, ByHandEffect DEF TypeOK
<1>5. TypeOK'
    BY <1>1, <1>3, <1>4 DEF TypeOK, Futures
<1>6. Confirmed'
    <2> SUFFICES ASSUME NEW j \in told PROVE job'[j].status = "failed"
        BY <1>1 DEF Confirmed
    <2>1. j \in Jobs /\ job[j].status # "none"
        BY DEF Confirmed, TypeOK
    <2>2. QED
        BY <1>1, <1>2, <2>1
<1>7. Unfinished' /\ Concluded'
    BY <1>1 DEF Unfinished, Concluded, Idle
<1>8. QED
    BY <1>1, <1>4, <1>5, <1>6, <1>7

-----------------------------------------------------------------------------
LEMMA InitChecked == Init => Checked
<1> SUFFICES ASSUME Init PROVE Checked
    OBVIOUS
<1>1. PICK t \in Instants :
        rows = {[id |-> 1, time |-> t, auto |-> TRUE, data |-> 0, schedule |-> 0]}
    BY DEF Init, StoreInit
<1>2. StoreTypeOK /\ ActivePlanIsStored
    BY <1>1 DEF Init, StoreInit, StoreTypeOK, ActivePlanIsStored, Snapshots, NotSaving
<1>3. [status |-> "none", base |-> 0, number |-> 0] \in Checks
    BY DEF Checks, Statuses
<1>4. TypeOK
    BY <1>2, <1>3 DEF Init, TypeOK, Futures
<1>5. Confirmed /\ Unfinished /\ Concluded
    BY DEF Init, Confirmed, Unfinished, Concluded, Idle
<1>6. QED
    BY <1>2, <1>4, <1>5 DEF Checked

(* Every step keeps the invariant, and only a calculated application with  *)
(* the plan of its check adds a receipt.                                   *)
MoveAsChecked ==
    \A j \in receipts' \ receipts :
        /\ job[j].base = live /\ live' = live + 1
        /\ j \notin told

LEMMA NextChecked ==
    ASSUME Checked, [Next]_vars
    PROVE  Checked' /\ MoveAsChecked
<1>1. ASSUME NEW j \in Jobs, Start(j)
      PROVE  Checked' /\ MoveAsChecked
    BY <1>1, StartStep DEF Start, MoveAsChecked
<1>2. ASSUME NEW j \in Jobs, Cancel(j)
      PROVE  Checked' /\ MoveAsChecked
    BY <1>2, CancelStep DEF Cancel, MoveAsChecked
<1>3. ASSUME NEW j \in Jobs, NEW c \in Calls, Captures(c, j)
      PROVE  Checked' /\ MoveAsChecked
    BY <1>3, CapturesStep DEF Captures, MoveAsChecked
<1>4. CASE Worker
    <2>1. PICK j \in Jobs :
            Dequeues(j) \/ Takes(j) \/ Stops(j) \/ LastLook(j) \/ Stores(j) \/ Publishes(j)
        BY <1>4 DEF Worker
    <2>2. receipts' = receipts
        BY <2>1 DEF Dequeues, Takes, Stops, LastLook, Stores, Publishes, Elsewhere
    <2>3. QED
        BY <2>1, <2>2, WorkerStep DEF MoveAsChecked
<1>5. ASSUME NEW c \in Calls, Calculates(c)
      PROVE  Checked' /\ MoveAsChecked
    BY <1>5, CalculatesStep DEF Calculates, MoveAsChecked
<1>6. ASSUME NEW c \in Calls, Applies(c)
      PROVE  Checked' /\ MoveAsChecked
    BY <1>6, AppliesStep DEF MoveAsChecked
<1>7. ASSUME NEW c \in Calls, Refused(c)
      PROVE  Checked' /\ MoveAsChecked
    BY <1>7, RefusedStep DEF Refused, MoveAsChecked
<1>8. ASSUME NEW c \in Calls, Marks(c)
      PROVE  Checked' /\ MoveAsChecked
    BY <1>8, MarksStep DEF Marks, MoveAsChecked
<1>9. CASE OtherCommit
    <2>1. CommitSnapshot /\ UNCHANGED <<Beside, receipts, calls>>
        BY <1>9 DEF OtherCommit
    <2>2. StoreTypeOK' /\ ActivePlanIsStored'
        BY <2>1, CommitEffect DEF Checked, TypeOK
    <2>3. QED
        BY <2>1, <2>2
        DEF Checked, TypeOK, Confirmed, Unfinished, Concluded, Beside, MoveAsChecked
<1>10. CASE ByHand
    <2>1. /\ SaveReads \/ SaveInserts \/ \E r \in rows : Delete(r)
          /\ UNCHANGED <<Beside, receipts, calls>>
        BY <1>10 DEF ByHand
    <2>2. StoreTypeOK' /\ ActivePlanIsStored'
        BY <2>1, ByHandEffect DEF Checked, TypeOK
    <2>3. QED
        BY <2>1, <2>2
        DEF Checked, TypeOK, Confirmed, Unfinished, Concluded, Beside, MoveAsChecked
<1>11. CASE Restart
    BY <1>11, RestartStep DEF MoveAsChecked
<1>12. CASE UNCHANGED vars
    BY <1>12 DEF vars, Checked, TypeOK, StoreTypeOK, ActivePlanIsStored, Confirmed,
                 Unfinished, Concluded, MoveAsChecked
<1>13. QED
    BY <1>1, <1>2, <1>3, <1>4, <1>5, <1>6, <1>7, <1>8, <1>9, <1>10, <1>11, <1>12
    DEF Next, Apply

THEOREM AlwaysChecked == Spec => []Checked
<1>1. Checked /\ [Next]_vars => Checked'
    BY NextChecked
<1>2. QED
    BY <1>1, InitChecked, PTL DEF Spec

(* The job manager, the store and the requests to apply keep their types.  *)
THEOREM MoveTypes == Spec => []TypeOK
<1>1. Checked => TypeOK
    BY DEF Checked
<1>2. QED
    BY <1>1, AlwaysChecked, PTL

(* The active pointer leads to a whole snapshot of the live revision,      *)
(* whatever the clock says and however few snapshots _prune_auto_locked    *)
(* keeps.                                                                  *)
THEOREM ActivePlanStays == Spec => []ActivePlanIsStored
<1>1. Checked => ActivePlanIsStored
    BY DEF Checked
<1>2. QED
    BY <1>1, AlwaysChecked, PTL

(* apply_move changes the plan at most once for a check, on the plan it was*)
(* checked against, and never after cancel confirmed a cancellation.       *)
THEOREM MovesApplyAsChecked == Spec => MovesAreAsChecked
<1>1. Checked /\ [Next]_vars => [MoveAsChecked]_vars
    BY NextChecked
<1>2. QED
    BY <1>1, AlwaysChecked, PTL DEF Spec, MovesAreAsChecked, MoveAsChecked
=============================================================================
