------------------------------ MODULE Pipeline ------------------------------
(* What the phases of the planner share: the phase that is running, and the *)
(* order of the priority keys, tuples that compare as they do in Python.    *)
EXTENDS Integers, SequencesExt

VARIABLE stage  \* "orders", "sizing", ... : the phase of planning

Precedes(s, t) ==
    \E i \in DOMAIN s : s[i] < t[i] /\ \A j \in 1..(i - 1) : s[j] = t[j]

FirstBy(key(_), S) == CHOOSE x \in S : \A y \in S \ {x} : Precedes(key(x), key(y))

\* A finite set from its first element to its last.
InSequence(S, before(_, _)) ==
    [i \in 1..Cardinality(S) |-> CHOOSE x \in S : Cardinality({y \in S : before(y, x)}) = i - 1]
=============================================================================
