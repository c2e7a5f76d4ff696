----------------------------- MODULE AtomicPlan -----------------------------
(***************************************************************************)
(* What the commit protocol of backend/plans promises to its clients: the  *)
(* plan, the configuration and the rules of the factory are one value that *)
(* changes in a single indivisible step, each operation is applied at most *)
(* once, and nothing that was applied is ever taken back, whatever crashes *)
(* and retries happen below.  PlanCommit implements this module.           *)
(*                                                                         *)
(* Contents are abstracted to the set of changes folded into them: an      *)
(* operation's identifier, or the token of an edit an operator made to the *)
(* configuration file by hand.                                             *)
(***************************************************************************)
EXTENDS Naturals

CONSTANTS
    Ops,        \* operation identifiers (request_id, replan:..., manual:...)
    Edits       \* hand edits of the configuration file

VARIABLES
    rev,        \* revision of the durable active plan
    plan,       \* operations the active plan contains
    config,     \* changes the configuration contains
    rules,      \* operations the rules contain
    done        \* receipts: operations applied, and what each one changed

avars == <<rev, plan, config, rules, done>>

AInit == /\ rev = 0
         /\ plan = {}
         /\ config = {}
         /\ rules = {}
         /\ done = {}

(***************************************************************************)
(* One operation takes effect, and leaves a receipt of what it changes:    *)
(* the plan always, the configuration and the rules exactly when the       *)
(* receipt names them.  An operator's edit that the server had not read    *)
(* may be overwritten with the configuration, an operation's change not.   *)
(***************************************************************************)
Apply(o, changes) ==
    /\ \A d \in done : d.op # o
    /\ done' = done \cup {[op |-> o, changes |-> changes]}
    /\ rev' = rev + 1
    /\ plan' = plan \cup {o}
    /\ IF "config" \in changes
       THEN config' \cap Ops = (config \cap Ops) \cup {o}
       ELSE config' = config
    /\ rules' = IF "rules" \in changes THEN rules \cup {o} ELSE rules

(***************************************************************************)
(* An operator edits the configuration file.                               *)
(***************************************************************************)
Edit(e) ==
    /\ config' = config \cup {e}
    /\ UNCHANGED <<rev, plan, rules, done>>

(***************************************************************************)
(* The server starts with a configuration other than the one of the active *)
(* plan and gives the plan a new revision.                                 *)
(***************************************************************************)
Adopt ==
    /\ rev' = rev + 1
    /\ UNCHANGED <<plan, config, rules, done>>

ANext ==
    \/ \E o \in Ops, changes \in SUBSET {"config", "rules"} : Apply(o, changes)
    \/ \E e \in Edits : Edit(e)
    \/ Adopt

ASpec == AInit /\ [][ANext]_avars
=============================================================================
