----------------------------- MODULE PlansStore -----------------------------
(***************************************************************************)
(* The snapshots of backend/plans/store.py and the plan API over them:     *)
(* every commit inserts an automatic snapshot, moves the active pointer to *)
(* it and prunes the oldest ones, in one transaction; a planner saves,     *)
(* restores and deletes snapshots by hand (backend/api/plans.py).          *)
(* created_at comes from the machine's clock, which may be set back; the   *)
(* journal around a commit is the one of PlanCommit, one step here.        *)
(***************************************************************************)
EXTENDS Naturals, FiniteSets

CONSTANTS
    Instants,    \* readings of the clock
    Keep,        \* automatic snapshots kept by a pruning
    MaxRows      \* bound: snapshots ever inserted

ASSUME StoreAssumption == Instants \subseteq Nat /\ Keep \in Nat /\ MaxRows \in Nat \ {0}

VARIABLES
    rows,        \* table plans: rowid, created_at, is_auto, and the revisions its
                 \* engine data and its schedule are those of      (durable)
    active,      \* table plan_runtime: snapshot and revision      (durable)
    inserted,    \* rowids handed out                              (durable)
    live,        \* the revision of the state in memory
    saving       \* save_plan: the half it has serialized

store == <<rows, active, inserted, live, saving>>

\* When a planner's own snapshot was made decides nothing: no pruning takes it.
NoTime == 0
NotSaving == [on |-> FALSE, data |-> 0]
Snapshots == [id : 1..MaxRows, time : Instants \cup {NoTime}, auto : BOOLEAN,
              data : Nat, schedule : Nat]

StoreInit ==
    /\ \E t \in Instants :
         rows = {[id |-> 1, time |-> t, auto |-> TRUE, data |-> 0, schedule |-> 0]}
    /\ active = [snapshot |-> 1, revision |-> 0]
    /\ inserted = 1
    /\ live = 0
    /\ saving = NotSaving

-----------------------------------------------------------------------------
\* ORDER BY created_at DESC, rowid DESC
Newer(r, s) == r.time > s.time \/ (r.time = s.time /\ r.id > s.id)
Newest(all) == {r \in all : Cardinality({s \in all : Newer(s, r)}) < Keep}

\* A mutant: the newest automatic snapshots are taken to hold the active one.
PrunedByAge(all, pointer) ==
    LET autos == {r \in all : r.auto} IN all \ (autos \ Newest(autos))

\* _prune_auto_locked
Pruned(all, pointer) ==
    LET autos == {r \in all : r.auto}
    IN {r \in all : r.auto => r \in Newest(autos) \/ r.id = pointer}

\* commit_mutation: row, pointer and pruning in one transaction, then the swap.
CommitSnapshot ==
    LET row == [id |-> inserted + 1, auto |-> TRUE, data |-> live + 1, schedule |-> live + 1]
    IN /\ inserted < MaxRows
       /\ inserted' = inserted + 1
       /\ active' = [snapshot |-> row.id, revision |-> live + 1]
       /\ \E t \in Instants :
            rows' = Pruned(rows \cup {[id |-> row.id, time |-> t, auto |-> TRUE,
                                       data |-> row.data, schedule |-> row.schedule]},
                           row.id)
       /\ live' = live + 1
       /\ UNCHANGED saving

\* save_plan holds plan_mutation_lock, which keeps the API's writers out, while
\* it reads the live state attribute by attribute: two reads here.
SaveReads ==
    /\ ~saving.on /\ inserted < MaxRows
    /\ saving' = [on |-> TRUE, data |-> live]
    /\ UNCHANGED <<rows, active, inserted, live>>

SaveInserts ==
    /\ saving.on /\ inserted < MaxRows
    /\ inserted' = inserted + 1
    /\ rows' = rows \cup {[id |-> inserted + 1, time |-> NoTime, auto |-> FALSE,
                           data |-> saving.data, schedule |-> live]}
    /\ saving' = NotSaving
    /\ UNCHANGED <<active, live>>

\* delete_plan: never the active one ("active_plan_protected").
Delete(r) ==
    /\ r \in rows /\ r.id # active.snapshot
    /\ rows' = rows \ {r}
    /\ UNCHANGED <<active, inserted, live, saving>>

\* The start takes the active snapshot, and nothing else.
Reopen ==
    /\ live' = active.revision
    /\ saving' = NotSaving
    /\ UNCHANGED <<rows, active, inserted>>

-----------------------------------------------------------------------------
StoreTypeOK ==
    /\ rows \subseteq Snapshots
    /\ active.snapshot \in 1..MaxRows /\ active.revision \in Nat
    /\ inserted \in 1..MaxRows /\ live \in Nat
    /\ saving \in [on : BOOLEAN, data : Nat]

(* The plan in memory can always be read back: the active pointer leads to *)
(* a snapshot that is there, whole, and of the live revision, whatever the *)
(* clock said when it was inserted and whatever was deleted or pruned      *)
(* since (commit_mutation, _prune_auto_locked, delete).                    *)
ActivePlanIsStored ==
    /\ active.revision = live
    /\ \E r \in rows : r.id = active.snapshot /\ r.data = live /\ r.schedule = live
=============================================================================
