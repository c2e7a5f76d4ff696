--------------------------- MODULE PlanningProofs ---------------------------
(***************************************************************************)
(* Proofs about the planner.                                               *)
(*                                                                         *)
(* The lots, for any orders, supplies, calendar and parameters of the      *)
(* operations, tools and runs: the sizing meets every demand in time and   *)
(* makes nothing twice, and the grouping and its splits make of the lots a *)
(* schedule in which each lot is produced once, in a run that keeps its    *)
(* limits.                                                                 *)
(*                                                                         *)
(* The validator of finished layouts: what it compares is enough.          *)
(*                                                                         *)
(* The optimizer and the improvement cycle, for any plans, any budget of   *)
(* candidates and evaluations, and wherever the clock or a cancellation    *)
(* stops them; and that the pipeline implements the sizing of the lots,    *)
(* whose theorems it inherits.  Of the preference between plans nothing is *)
(* used but that it never prefers a later delivery: it is not transitive,  *)
(* so that what holds of one step of the search or of the cycle need not   *)
(* hold of two.                                                            *)
(*                                                                         *)
(* The model is built from sums over finite sets, from functions defined   *)
(* by recursion and from CHOOSE by a key.  What the proofs need of them    *)
(* comes first: inductions over sets instead of operators, with which a    *)
(* recursive definition is shown to define a function and to have its      *)
(* properties.                                                             *)
(***************************************************************************)
EXTENDS Planning, FiniteSetTheorems, SequenceTheorems, WellFoundedInduction, TLAPS

-----------------------------------------------------------------------------
(* Induction.                                                              *)

(* Induction: a set of numbers that has 0 and all successors.              *)
LEMMA NatInd ==
  ASSUME NEW P, P \subseteq Nat, 0 \in P, \A n \in P : n+1 \in P
  PROVE P = Nat
<1> SUFFICES ASSUME Nat \ P # {} PROVE FALSE
  OBVIOUS
<1> DEFINE T == Nat \ P
<1>1. PICK x \in T : \A y \in T : ~(<<y, x>> \in OpToRel(<, Nat))
  BY NatLessThanWellFounded, WFMin
<1>2. \A y \in T : ~ (y < x)
  BY <1>1 DEF OpToRel
<1>3. QED
  BY <1>2

(* Induction over the subsets of a finite set, one element at a time.      *)
LEMMA FiniteInduction ==
    ASSUME NEW S, IsFiniteSet(S), NEW P, {} \in P,
           \A T \in P, x \in S : T \subseteq S /\ x \notin T => T \cup {x} \in P
    PROVE  \A T \in SUBSET S : T \in P
<1> DEFINE N == {n \in Nat : \A T \in SUBSET S : Cardinality(T) = n => T \in P}
<1>1. \A T \in SUBSET S : IsFiniteSet(T) /\ Cardinality(T) \in Nat
    BY FS_Subset, FS_CardinalityType
<1>2. 0 \in N
    BY <1>1, FS_EmptySet
<1>3. ASSUME NEW n \in N PROVE n + 1 \in N
  <2>1. ASSUME NEW T \in SUBSET S, Cardinality(T) = n + 1 PROVE T \in P
    <3>1. PICK x \in T : TRUE
      BY <1>1, <2>1, FS_EmptySet
    <3>2. Cardinality(T \ {x}) = n /\ T \ {x} \in SUBSET S
      BY <1>1, <2>1, FS_RemoveElement
    <3>3. T \ {x} \in P
      BY <3>2
    <3>4. T = (T \ {x}) \cup {x}
      OBVIOUS
    <3>5. QED
      BY <3>3, <3>4
  <2>2. QED
    BY <2>1
<1>4. N = Nat
  <2> HIDE DEF N
  <2>1. N \subseteq Nat
    BY DEF N
  <2>2. QED
    BY <1>2, <1>3, <2>1, NatInd
<1>5. QED
    BY <1>1, <1>4

-----------------------------------------------------------------------------
(* Sums.                                                                   *)

(* The sum of f over the subsets of S, as FoldSet builds it, which takes   *)
(* one element after the other.                                            *)
Pick(S) == CHOOSE x \in S : TRUE
Sums(f, S) == CHOOSE g : g = [s \in SUBSET S |-> IF s = {} THEN 0 ELSE f[Pick(s)] + g[s \ {Pick(s)}]]
Adds(g, f, s) == g[s] = IF s = {} THEN 0 ELSE f[Pick(s)] + g[s \ {Pick(s)}]

(* A sum is the value of that function,                                    *)
LEMMA SumIs == ASSUME NEW f, NEW S PROVE SumOver(f, S) = Sums(f, S)[S]
BY Zenon DEF SumOver, MapThenSumSet, MapThenFoldSet, Sums, Pick

(* which exists and satisfies its recursive equation,                      *)
LEMMA SumsExist ==
    ASSUME NEW f, NEW S, IsFiniteSet(S)
    PROVE  /\ Sums(f, S) = [s \in SUBSET S |-> Sums(f, S)[s]]
           /\ \A s \in SUBSET S : Adds(Sums(f, S), f, s)
<1> DEFINE Good(g, n) == \A s \in SUBSET S : Cardinality(s) <= n => Adds(g, f, s)
           F == {g \in {[s \in SUBSET S |-> 0]} : TRUE}
           N == {n \in Nat : \E g : g = [s \in SUBSET S |-> g[s]] /\ Good(g, n)}
<1>1. \A T \in SUBSET S : IsFiniteSet(T) /\ Cardinality(T) \in Nat
    BY FS_Subset, FS_CardinalityType
<1>2. 0 \in N
  <2> DEFINE g == [s \in SUBSET S |-> 0]
  <2>1. Good(g, 0)
    BY <1>1, FS_EmptySet DEF Adds
  <2>2. QED
    BY <2>1, Zenon
<1>3. ASSUME NEW n \in N PROVE n + 1 \in N
  <2>1. PICK g : g = [s \in SUBSET S |-> g[s]] /\ Good(g, n)
    OBVIOUS
  <2> DEFINE h == [s \in SUBSET S |-> IF s = {} THEN 0 ELSE f[Pick(s)] + g[s \ {Pick(s)}]]
  <2>2. ASSUME NEW s \in SUBSET S, Cardinality(s) <= n PROVE h[s] = g[s]
    BY <2>1, <2>2 DEF Adds
  <2>3. ASSUME NEW s \in SUBSET S, Cardinality(s) <= n + 1 PROVE Adds(h, f, s)
    <3>1. CASE s = {}
      BY <3>1 DEF Adds
    <3>2. CASE s # {}
      <4>1. Pick(s) \in s
        BY <3>2 DEF Pick
      <4>2. Cardinality(s \ {Pick(s)}) <= n /\ s \ {Pick(s)} \in SUBSET S
        BY <1>1, <2>3, <4>1, FS_RemoveElement
      <4>3. h[s \ {Pick(s)}] = g[s \ {Pick(s)}]
        BY <2>2, <4>2
      <4>4. QED
        BY <3>2, <4>3 DEF Adds
    <3>3. QED
      BY <3>1, <3>2
  <2>4. h = [s \in SUBSET S |-> h[s]]
    OBVIOUS
  <2>5. Good(h, n + 1)
    BY <2>3
  <2> HIDE DEF h, Good
  <2>6. \E k : k = [s \in SUBSET S |-> k[s]] /\ Good(k, n + 1)
    BY <2>4, <2>5, Zenon
  <2>7. QED
    BY <2>6
<1>4. N = Nat
  <2> HIDE DEF N
  <2>1. N \subseteq Nat
    BY DEF N
  <2>2. QED
    BY <1>2, <1>3, <2>1, NatInd
<1>5. Cardinality(S) \in N
    BY <1>1, <1>4
<1>6. PICK g : g = [s \in SUBSET S |-> g[s]] /\ Good(g, Cardinality(S))
    BY <1>5
<1>7. \A s \in SUBSET S : Adds(g, f, s)
    BY <1>6, FS_Subset
<1>8. g = [s \in SUBSET S |-> IF s = {} THEN 0 ELSE f[Pick(s)] + g[s \ {Pick(s)}]]
    BY <1>6, <1>7 DEF Adds
<1>9. Sums(f, S) = [s \in SUBSET S |-> IF s = {} THEN 0
                                        ELSE f[Pick(s)] + Sums(f, S)[s \ {Pick(s)}]]
    BY <1>8, Zenon DEF Sums
<1>10. QED
    BY <1>9 DEF Adds

(* and does not depend on the set it is defined over.                      *)
LEMMA SumsAgree ==
    ASSUME NEW f, NEW h, NEW S, IsFiniteSet(S), NEW T \in SUBSET S,
           \A x \in T : f[x] = h[x]
    PROVE  Sums(f, S)[T] = SumOver(h, T)
<1> DEFINE P == {U \in SUBSET T : Sums(f, S)[U] = Sums(h, T)[U]}
           N == {n \in Nat : \A U \in SUBSET T : Cardinality(U) = n => U \in P}
<1>0. IsFiniteSet(T) /\ T \subseteq S
    BY FS_Subset
<1>1. \A U \in SUBSET T : IsFiniteSet(U) /\ Cardinality(U) \in Nat
    BY <1>0, FS_Subset, FS_CardinalityType
<1>2. /\ \A s \in SUBSET T : Adds(Sums(f, S), f, s)
      /\ \A s \in SUBSET T : Adds(Sums(h, T), h, s)
    BY <1>0, SumsExist
<1>3. 0 \in N
    BY <1>1, <1>2, FS_EmptySet DEF Adds
<1>4. ASSUME NEW n \in N PROVE n + 1 \in N
  <2>1. ASSUME NEW U \in SUBSET T, Cardinality(U) = n + 1 PROVE U \in P
    <3>1. U # {}
      BY <1>1, <2>1, FS_EmptySet
    <3>2. Pick(U) \in U
      BY <3>1 DEF Pick
    <3>0. IsFiniteSet(U) /\ Cardinality(U) = n + 1 /\ n \in Nat
      BY <1>1, <2>1
    <3>3. Cardinality(U \ {Pick(U)}) = n /\ U \ {Pick(U)} \in SUBSET T
      <4>1. PICK x \in U : x = Pick(U)
        BY <3>2
      <4>2. Cardinality(U \ {x}) = Cardinality(U) - 1
        BY <3>0, FS_RemoveElement
      <4>3. QED
        BY <3>0, <4>1, <4>2
    <3>4. U \ {Pick(U)} \in P
      BY <3>3
    <3>5. f[Pick(U)] = h[Pick(U)]
      BY <3>2
    <3>6. QED
      BY <1>2, <3>1, <3>4, <3>5 DEF Adds
  <2>2. QED
    BY <2>1
<1>5. N = Nat
  <2> HIDE DEF N
  <2>1. N \subseteq Nat
    BY DEF N
  <2>2. QED
    BY <1>3, <1>4, <2>1, NatInd
<1>6. T \in P
    BY <1>1, <1>5
<1>7. QED
    BY <1>6, SumIs

(* How sums are computed: from nothing,                                    *)
LEMMA SumEmpty ==
    ASSUME NEW f PROVE SumOver(f, {}) = 0
<1>1. IsFiniteSet({})
    BY FS_EmptySet
<1>2. Adds(Sums(f, {}), f, {})
    BY <1>1, SumsExist
<1>3. QED
    BY <1>2, SumIs DEF Adds

(* from the values alone,                                                  *)
LEMMA SumSame ==
    ASSUME NEW f, NEW h, NEW S, IsFiniteSet(S), \A x \in S : f[x] = h[x]
    PROVE  SumOver(f, S) = SumOver(h, S)
<1>1. S \in SUBSET S
    OBVIOUS
<1>2. Sums(f, S)[S] = SumOver(h, S)
    BY <1>1, SumsAgree
<1>3. QED
    BY <1>2, SumIs

(* and from one element and the others.                                    *)
LEMMA SumPick ==
    ASSUME NEW f, NEW S, IsFiniteSet(S), S # {}
    PROVE  Pick(S) \in S /\ SumOver(f, S) = f[Pick(S)] + SumOver(f, S \ {Pick(S)})
<1>1. Pick(S) \in S
    BY DEF Pick
<1>2. Adds(Sums(f, S), f, S)
    BY SumsExist
<1>3. Sums(f, S)[S] = f[Pick(S)] + Sums(f, S)[S \ {Pick(S)}]
    BY <1>2 DEF Adds
<1>4. PICK T \in SUBSET S : T = S \ {Pick(S)}
    OBVIOUS
<1>5. Sums(f, S)[T] = SumOver(f, T)
    BY SumsAgree
<1>6. QED
    BY <1>1, <1>3, <1>4, <1>5, SumIs

(* A sum of integers is one.                                               *)
LEMMA SumType ==
    ASSUME NEW S, IsFiniteSet(S), NEW f, \A x \in S : f[x] \in Int
    PROVE  SumOver(f, S) \in Int
<1> DEFINE N == {n \in Nat : \A T \in SUBSET S : Cardinality(T) = n => SumOver(f, T) \in Int}
<1>1. \A T \in SUBSET S : IsFiniteSet(T) /\ Cardinality(T) \in Nat
    BY FS_Subset, FS_CardinalityType
<1>2. 0 \in N
    BY <1>1, FS_EmptySet, SumEmpty
<1>3. ASSUME NEW n \in N PROVE n + 1 \in N
  <2>1. ASSUME NEW T \in SUBSET S, Cardinality(T) = n + 1 PROVE SumOver(f, T) \in Int
    <3>1. IsFiniteSet(T) /\ T # {} /\ n \in Nat
      BY <1>1, <2>1, FS_EmptySet
    <3>2. PICK x : x = Pick(T)
      OBVIOUS
    <3>3. x \in T /\ SumOver(f, T) = f[x] + SumOver(f, T \ {x})
      BY <3>1, <3>2, SumPick
    <3>4. Cardinality(T \ {x}) = Cardinality(T) - 1
      BY <3>1, <3>3, FS_RemoveElement
    <3>5. T \ {x} \in SUBSET S /\ Cardinality(T \ {x}) = n
      BY <2>1, <3>1, <3>4
    <3>6. SumOver(f, T \ {x}) \in Int /\ f[x] \in Int
      BY <3>3, <3>5
    <3>7. QED
      BY <3>3, <3>6
  <2>2. QED
    BY <2>1
<1>4. N = Nat
  <2> HIDE DEF N
  <2>1. N \subseteq Nat
    BY DEF N
  <2>2. QED
    BY <1>2, <1>3, <2>1, NatInd
<1>5. QED
    BY <1>1, <1>4

(* The order in which a sum is taken does not matter.                      *)
LEMMA SumRemove ==
    ASSUME NEW S, IsFiniteSet(S), NEW f, \A x \in S : f[x] \in Int, NEW e \in S
    PROVE  SumOver(f, S) = f[e] + SumOver(f, S \ {e})
<1> DEFINE N == {n \in Nat : \A T \in SUBSET S : Cardinality(T) = n =>
                    \A x \in T : SumOver(f, T) = f[x] + SumOver(f, T \ {x})}
<1>1. \A T \in SUBSET S : IsFiniteSet(T) /\ Cardinality(T) \in Nat /\ SumOver(f, T) \in Int
    BY FS_Subset, FS_CardinalityType, SumType
<1>2. 0 \in N
    BY <1>1, FS_EmptySet
<1>3. ASSUME NEW n \in N PROVE n + 1 \in N
  <2>1. ASSUME NEW T \in SUBSET S, Cardinality(T) = n + 1, NEW x \in T
        PROVE  SumOver(f, T) = f[x] + SumOver(f, T \ {x})
    <3>1. IsFiniteSet(T) /\ T # {} /\ n \in Nat
      BY <1>1, <2>1
    <3>2. PICK y : y = Pick(T)
      OBVIOUS
    <3>3. y \in T /\ SumOver(f, T) = f[y] + SumOver(f, T \ {y})
      BY <3>1, <3>2, SumPick
    <3>4. \A z \in T : Cardinality(T \ {z}) = Cardinality(T) - 1
      BY <3>1, FS_RemoveElement
    <3>5. \A z \in T : T \ {z} \in SUBSET S /\ Cardinality(T \ {z}) = n
      BY <2>1, <3>1, <3>4
    <3>6. CASE x = y
      BY <3>3, <3>6
    <3>7. CASE x # y
      <4>1. SumOver(f, T \ {y}) = f[x] + SumOver(f, (T \ {y}) \ {x})
        BY <3>3, <3>5, <3>7
      <4>2. SumOver(f, T \ {x}) = f[y] + SumOver(f, (T \ {x}) \ {y})
        BY <3>3, <3>5, <3>7
      <4>3. (T \ {y}) \ {x} = (T \ {x}) \ {y} /\ (T \ {x}) \ {y} \in SUBSET S
        OBVIOUS
      <4>4. SumOver(f, (T \ {x}) \ {y}) \in Int /\ f[x] \in Int /\ f[y] \in Int
        BY <1>1, <3>3, <4>3
      <4>5. PICK r \in Int : r = SumOver(f, (T \ {x}) \ {y})
        BY <4>4
      <4>6. SumOver(f, T \ {y}) = f[x] + r /\ SumOver(f, T \ {x}) = f[y] + r
        BY <4>1, <4>2, <4>3, <4>5
      <4>7. QED
        BY <3>3, <4>4, <4>6
    <3>8. QED
      BY <3>6, <3>7
  <2>2. QED
    BY <2>1
<1>4. N = Nat
  <2> HIDE DEF N
  <2>1. N \subseteq Nat
    BY DEF N
  <2>2. QED
    BY <1>2, <1>3, <2>1, NatInd
<1>5. QED
    BY <1>1, <1>4

(* One more element, and two sets without a common one.                    *)
LEMMA SumAdd ==
    ASSUME NEW S, IsFiniteSet(S), NEW f, NEW e, e \notin S, \A x \in S \cup {e} : f[x] \in Int
    PROVE  SumOver(f, S \cup {e}) = f[e] + SumOver(f, S)
<1>1. PICK U : U = S \cup {e}
    OBVIOUS
<1>2. IsFiniteSet(U) /\ e \in U /\ (\A x \in U : f[x] \in Int) /\ U \ {e} = S
    BY <1>1, FS_AddElement
<1>3. SumOver(f, U) = f[e] + SumOver(f, U \ {e})
    BY <1>2, SumRemove
<1>4. QED
    BY <1>1, <1>2, <1>3

LEMMA SumUnion ==
    ASSUME NEW S, IsFiniteSet(S), NEW T, IsFiniteSet(T), S \cap T = {},
           NEW f, \A x \in S \cup T : f[x] \in Int
    PROVE  SumOver(f, S \cup T) = SumOver(f, S) + SumOver(f, T)
<1> DEFINE P == {U \in SUBSET T : SumOver(f, S \cup U) = SumOver(f, S) + SumOver(f, U)}
<1>1. {} \in P
  <2>1. SumOver(f, S) \in Int /\ S \cup {} = S
    BY SumType
  <2>2. QED
    BY <2>1, SumEmpty
<1>2. ASSUME NEW U \in P, NEW x \in T, U \subseteq T, x \notin U PROVE U \cup {x} \in P
  <2>1. IsFiniteSet(U) /\ U \subseteq T
    BY FS_Subset
  <2>2. IsFiniteSet(S \cup U)
    BY <2>1, FS_Union
  <2>3. SumOver(f, U \cup {x}) = f[x] + SumOver(f, U)
    BY <1>2, <2>1, SumAdd
  <2>4. PICK V : V = S \cup U
    OBVIOUS
  <2>5. SumOver(f, V \cup {x}) = f[x] + SumOver(f, V)
    <3>1. x \notin V /\ IsFiniteSet(V) /\ \A y \in V \cup {x} : f[y] \in Int
      BY <1>2, <2>1, <2>2, <2>4
    <3>2. QED
      BY <3>1, SumAdd
  <2>6. SumOver(f, S) \in Int /\ SumOver(f, U) \in Int /\ f[x] \in Int
    BY <1>2, <2>1, SumType
  <2>7. V \cup {x} = S \cup (U \cup {x}) /\ U \cup {x} \subseteq T
    BY <1>2, <2>4
  <2>8. SumOver(f, V) = SumOver(f, S) + SumOver(f, U)
    BY <2>4
  <2>9. SumOver(f, V \cup {x}) = SumOver(f, S) + SumOver(f, U \cup {x})
    BY <2>3, <2>5, <2>6, <2>8
  <2>10. QED
    BY <2>7, <2>9
<1>3. \A U \in SUBSET T : U \in P
  <2> HIDE DEF P
  <2>1. QED
    BY <1>1, <1>2, FiniteInduction
<1>4. QED
    BY <1>3

(* Sums grow with their summands, and with their sets.                     *)
LEMMA SumAtMost ==
    ASSUME NEW S, IsFiniteSet(S), NEW f, NEW h, \A x \in S : f[x] \in Int /\ h[x] \in Int /\ f[x] <= h[x]
    PROVE  SumOver(f, S) <= SumOver(h, S)
<1> DEFINE P == {U \in SUBSET S : SumOver(f, U) <= SumOver(h, U)}
<1>1. {} \in P
    BY SumEmpty
<1>2. ASSUME NEW U \in P, NEW x \in S, U \subseteq S, x \notin U PROVE U \cup {x} \in P
  <2>1. IsFiniteSet(U) /\ U \subseteq S
    BY FS_Subset
  <2>2. SumOver(f, U \cup {x}) = f[x] + SumOver(f, U) /\ SumOver(h, U \cup {x}) = h[x] + SumOver(h, U)
    BY <1>2, <2>1, SumAdd
  <2>3. SumOver(f, U) \in Int /\ SumOver(h, U) \in Int /\ f[x] \in Int /\ h[x] \in Int /\ f[x] <= h[x]
    BY <1>2, <2>1, SumType
  <2>4. QED
    BY <1>2, <2>2, <2>3
<1>3. \A U \in SUBSET S : U \in P
  <2> HIDE DEF P
  <2>1. QED
    BY <1>1, <1>2, FiniteInduction
<1>4. QED
    BY <1>3

LEMMA SumIsNat ==
    ASSUME NEW S, IsFiniteSet(S), NEW f, \A x \in S : f[x] \in Nat
    PROVE  SumOver(f, S) \in Nat
<1> DEFINE P == {U \in SUBSET S : SumOver(f, U) \in Nat}
<1>1. {} \in P
    BY SumEmpty
<1>2. ASSUME NEW U \in P, NEW x \in S, U \subseteq S, x \notin U PROVE U \cup {x} \in P
  <2>1. IsFiniteSet(U) /\ U \subseteq S
    BY FS_Subset
  <2>0. \A y \in U \cup {x} : f[y] \in Int
    BY <2>1
  <2>2. SumOver(f, U \cup {x}) = f[x] + SumOver(f, U)
    BY <1>2, <2>0, <2>1, SumAdd
  <2>3. QED
    BY <1>2, <2>2
<1>3. \A U \in SUBSET S : U \in P
  <2> HIDE DEF P
  <2>1. QED
    BY <1>1, <1>2, FiniteInduction
<1>4. QED
    BY <1>3

LEMMA SumOfPart ==
    ASSUME NEW S, IsFiniteSet(S), NEW T \in SUBSET S, NEW f, \A x \in S : f[x] \in Nat
    PROVE  SumOver(f, T) <= SumOver(f, S)
<1>1. IsFiniteSet(T) /\ IsFiniteSet(S \ T) /\ T \cap (S \ T) = {} /\ T \cup (S \ T) = S
    BY FS_Subset
<1>2. SumOver(f, S) = SumOver(f, T) + SumOver(f, S \ T)
    BY <1>1, SumUnion
<1>3. SumOver(f, T) \in Nat /\ SumOver(f, S \ T) \in Nat
    BY <1>1, SumIsNat
<1>4. QED
    BY <1>2, <1>3

(* A sum of zeros.                                                         *)
LEMMA SumZero ==
    ASSUME NEW S, IsFiniteSet(S), NEW f, \A x \in S : f[x] = 0
    PROVE  SumOver(f, S) = 0
<1> DEFINE P == {U \in SUBSET S : SumOver(f, U) = 0}
<1>1. {} \in P
    BY SumEmpty
<1>2. ASSUME NEW U \in P, NEW x \in S, U \subseteq S, x \notin U PROVE U \cup {x} \in P
  <2>1. IsFiniteSet(U) /\ U \subseteq S
    BY FS_Subset
  <2>0. \A y \in U \cup {x} : f[y] \in Int
    BY <2>1
  <2>2. SumOver(f, U \cup {x}) = f[x] + SumOver(f, U)
    BY <1>2, <2>0, <2>1, SumAdd
  <2>3. QED
    BY <1>2, <2>2
<1>3. \A U \in SUBSET S : U \in P
  <2> HIDE DEF P
  <2>1. QED
    BY <1>1, <1>2, FiniteInduction
<1>4. QED
    BY <1>3

-----------------------------------------------------------------------------
USE SizingAssumption

-----------------------------------------------------------------------------
(* Recursion, and extremes.                                                *)

(* Induction over the integers, from everything below some number.         *)
LEMMA UpwardInduction ==
    ASSUME NEW P, NEW b \in Int, \A d \in Int : d <= b => d \in P,
           \A d \in Int : d \in P => d + 1 \in P
    PROVE  \A d \in Int : d \in P
<1> DEFINE N == {n \in Nat : b + n \in P}
<1>1. 0 \in N
    OBVIOUS
<1>2. ASSUME NEW n \in N PROVE n + 1 \in N
  <2>1. (b + n) + 1 \in P
    OBVIOUS
  <2>2. (b + n) + 1 = b + (n + 1)
    OBVIOUS
  <2>3. QED
    BY <2>1, <2>2
<1>3. N = Nat
  <2>1. N \subseteq Nat
    OBVIOUS
  <2> HIDE DEF N
  <2>2. QED
    BY <1>1, <1>2, <2>1, NatInd
<1>4. ASSUME NEW d \in Int, d > b PROVE d \in P
  <2>0. d - b \in Nat
    BY <1>4
  <2>1. d - b \in N
    BY <1>3, <2>0
  <2>2. b + (d - b) \in P
    BY <2>1
  <2>3. b + (d - b) = d
    OBVIOUS
  <2>4. QED
    BY <2>2, <2>3
<1>5. QED
    BY <1>4

(* A function that iterates a step s from a exists.                        *)
Iterates(f, A, a, s) == f \in [Nat -> A] /\ f[0] = a /\ \A n \in Nat : f[n + 1] = s[<<n, f[n]>>]

LEMMA NatRecursion ==
    ASSUME NEW A, NEW a, NEW s, a \in A, s \in [Nat \X A -> A]
    PROVE  \E f : Iterates(f, A, a, s)
<1> DEFINE Good(h, n) == h \in [0..n -> A] /\ h[0] = a /\ \A k \in 0..(n - 1) : h[k + 1] = s[<<k, h[k]>>]
           N == {n \in Nat : \E h : Good(h, n)}
<1>1. 0 \in N
  <2> DEFINE h == [k \in 0..0 |-> a]
  <2>1. Good(h, 0)
    OBVIOUS
  <2> HIDE DEF h, Good
  <2>2. QED
    BY <2>1
<1>2. ASSUME NEW n \in N PROVE n + 1 \in N
  <2>1. PICK h : Good(h, n)
    OBVIOUS
  <2> DEFINE k == [i \in 0..(n + 1) |-> IF i = n + 1 THEN s[<<n, h[n]>>] ELSE h[i]]
  <2>2. Good(k, n + 1)
    <3>1. n \in Nat /\ h[n] \in A
      BY <2>1
    <3>2. k \in [0..(n + 1) -> A] /\ k[0] = a
      BY <2>1, <3>1
    <3>3. ASSUME NEW i \in 0..n PROVE k[i + 1] = s[<<i, k[i]>>]
      <4>1. CASE i = n
        <5>1. n \in 0..(n + 1) /\ n + 1 \in 0..(n + 1) /\ n # n + 1
          BY <3>1
        <5>2. k[n + 1] = s[<<n, h[n]>>] /\ k[n] = h[n]
          BY <5>1
        <5>3. QED
          BY <4>1, <5>2
      <4>2. CASE i # n
        <5>1. i \in 0..(n - 1) /\ i + 1 \in 0..(n + 1) /\ i + 1 # n + 1 /\ i # n + 1
          BY <3>1, <4>2
        <5>2. k[i + 1] = h[i + 1] /\ k[i] = h[i]
          BY <5>1
        <5>3. QED
          BY <2>1, <5>1, <5>2
      <4>3. QED
        BY <4>1, <4>2
    <3>4. (n + 1) - 1 = n
      BY <3>1
    <3> HIDE DEF k
    <3>5. QED
      BY <3>2, <3>3, <3>4
  <2> HIDE DEF k, Good
  <2>3. n + 1 \in Nat
    BY DEF N
  <2>4. QED
    BY <2>2, <2>3
<1>3. N = Nat
  <2>1. N \subseteq Nat
    OBVIOUS
  <2> HIDE DEF N
  <2>2. QED
    BY <1>1, <1>2, <2>1, NatInd
<1> DEFINE H(n) == CHOOSE h : Good(h, n)
           f == [n \in Nat |-> H(n)[n]]
<1>4. \A n \in Nat : Good(H(n), n)
  <2> HIDE DEF Good
  <2>1. QED
    BY <1>3, Zenon
<1> HIDE DEF H
<1>5. ASSUME NEW n \in Nat PROVE H(n)[n] = H(n + 1)[n]
  <2>0. PICK m \in Nat : m = n + 1
    OBVIOUS
  <2>1. PICK g, h : g = H(n) /\ h = H(m) /\ Good(g, n) /\ Good(h, m)
    <3> HIDE DEF Good
    <3>1. Good(H(n), n) /\ Good(H(m), m)
      BY <1>4
    <3>2. QED
      BY <3>1
  <2> DEFINE M == {k \in Nat : k <= n => g[k] = h[k]}
  <2>2. 0 \in M
    BY <2>1
  <2>3. ASSUME NEW k \in M PROVE k + 1 \in M
    <3>1. CASE k + 1 <= n
      <4>1. k \in 0..(n - 1) /\ k \in 0..n
        BY <3>1
      <4>2. g[k + 1] = s[<<k, g[k]>>] /\ h[k + 1] = s[<<k, h[k]>>]
        BY <2>0, <2>1, <4>1
      <4>3. QED
        BY <4>1, <4>2
    <3>2. QED
      BY <3>1
  <2>4. M = Nat
    <3>1. M \subseteq Nat
      OBVIOUS
    <3> HIDE DEF M
    <3>2. QED
      BY <2>2, <2>3, <3>1, NatInd
  <2>5. g[n] = h[n]
    BY <2>4
  <2>6. QED
    BY <2>0, <2>1, <2>5
<1>6. f \in [Nat -> A]
  <2>1. ASSUME NEW n \in Nat PROVE H(n)[n] \in A
    <3>1. H(n) \in [0..n -> A] /\ n \in 0..n
      BY <1>4
    <3>2. QED
      BY <3>1
  <2>2. QED
    BY <2>1
<1>7. f[0] = a
  <2>1. f[0] = H(0)[0]
    OBVIOUS
  <2>2. Good(H(0), 0)
    BY <1>4
  <2>3. QED
    BY <2>1, <2>2
<1>8. ASSUME NEW n \in Nat PROVE f[n + 1] = s[<<n, f[n]>>]
  <2>0. PICK m \in Nat : m = n + 1
    OBVIOUS
  <2>1. PICK h : h = H(m) /\ Good(h, m)
    <3> HIDE DEF Good
    <3>1. Good(H(m), m)
      BY <1>4
    <3>2. QED
      BY <3>1
  <2>2. h[n + 1] = s[<<n, h[n]>>]
    BY <2>0, <2>1
  <2>3. f[n] = h[n]
    BY <1>5, <2>0, <2>1
  <2>4. f[m] = h[m]
    BY <2>1
  <2>5. QED
    BY <2>0, <2>2, <2>3, <2>4
<1>9. QED
  <2> HIDE DEF f
  <2>1. Iterates(f, A, a, s)
    BY <1>6, <1>7, <1>8 DEF Iterates
  <2>2. QED
    BY <2>1

(* Extremes.                                                               *)
LEMMA FiniteSetHasMax ==
    ASSUME NEW S, IsFiniteSet(S), S \subseteq Int, S # {}
    PROVE  \E x \in S : \A y \in S : x >= y
<1> DEFINE P == {T \in SUBSET S : T # {} => \E x \in T : \A y \in T : x >= y}
<1>1. {} \in P
    OBVIOUS
<1>2. ASSUME NEW T \in P, NEW x \in S, T \subseteq S, x \notin T PROVE T \cup {x} \in P
  <2>1. CASE T = {}
    BY <2>1
  <2>2. CASE T # {}
    <3>1. PICK m \in T : \A y \in T : m >= y
      BY <2>2
    <3>2. CASE m >= x
      <4>1. \A y \in T \cup {x} : m >= y
        BY <3>1, <3>2
      <4>2. QED
        BY <4>1
    <3>3. CASE ~(m >= x)
      <4>1. \A y \in T \cup {x} : x >= y
        BY <3>1, <3>3
      <4>2. QED
        BY <4>1
    <3>4. QED
      BY <3>2, <3>3
  <2>3. QED
    BY <2>1, <2>2
<1>3. \A T \in SUBSET S : T \in P
  <2> HIDE DEF P
  <2>1. QED
    BY <1>1, <1>2, FiniteInduction
<1>4. QED
    BY <1>3

LEMMA FiniteSetHasMin ==
    ASSUME NEW S, IsFiniteSet(S), S \subseteq Int, S # {}
    PROVE  \E x \in S : \A y \in S : x <= y
<1> DEFINE P == {T \in SUBSET S : T # {} => \E x \in T : \A y \in T : x <= y}
<1>1. {} \in P
    OBVIOUS
<1>2. ASSUME NEW T \in P, NEW x \in S, T \subseteq S, x \notin T PROVE T \cup {x} \in P
  <2>1. CASE T = {}
    BY <2>1
  <2>2. CASE T # {}
    <3>1. PICK m \in T : \A y \in T : m <= y
      BY <2>2
    <3>2. CASE m <= x
      <4>1. \A y \in T \cup {x} : m <= y
        BY <3>1, <3>2
      <4>2. QED
        BY <4>1
    <3>3. CASE ~(m <= x)
      <4>1. \A y \in T \cup {x} : x <= y
        BY <3>1, <3>3
      <4>2. QED
        BY <4>1
    <3>4. QED
      BY <3>2, <3>3
  <2>3. QED
    BY <2>1, <2>2
<1>3. \A T \in SUBSET S : T \in P
  <2> HIDE DEF P
  <2>1. QED
    BY <1>1, <1>2, FiniteInduction
<1>4. QED
    BY <1>3

LEMMA MaxIs ==
    ASSUME NEW S, IsFiniteSet(S), S \subseteq Int, S # {}
    PROVE  Max(S) \in S /\ \A y \in S : Max(S) >= y
<1>1. \E x \in S : \A y \in S : x >= y
    BY FiniteSetHasMax
<1>2. QED
    BY <1>1 DEF Max

LEMMA MinIs ==
    ASSUME NEW S, IsFiniteSet(S), S \subseteq Int, S # {}
    PROVE  Min(S) \in S /\ \A y \in S : Min(S) <= y
<1>1. \E x \in S : \A y \in S : x <= y
    BY FiniteSetHasMin
<1>2. QED
    BY <1>1 DEF Min

-----------------------------------------------------------------------------
(* The calendar.                                                           *)

(* The last day up to d that somebody works on.                            *)
IsLastWorkday(e, d) == e \in Int /\ e <= d /\ e \notin Holidays
                       /\ \A x \in Int : e < x /\ x <= d => x \in Holidays

(* There is one, because there are finitely many holidays, and only one.   *)
LEMMA SomeFirstDay == \E b \in Int : \A d \in Int : d <= b => d \notin Holidays
<1>1. CASE Holidays = {}
  <2>1. 0 \in Int /\ \A d \in Int : d <= 0 => d \notin Holidays
    BY <1>1
  <2>2. QED
    BY <2>1
<1>2. CASE Holidays # {}
  <2>1. PICK x \in Holidays : \A y \in Holidays : x <= y
    BY <1>2, FiniteSetHasMin
  <2>2. x \in Int
    OBVIOUS
  <2>3. \A d \in Int : d <= x - 1 => d \notin Holidays
    BY <2>1, <2>2
  <2>4. PICK b \in Int : b = x - 1
    BY <2>2
  <2>5. QED
    BY <2>3, <2>4
<1>3. QED
    BY <1>1, <1>2

LEMMA LastWorkdayExists == \A d \in Int : \E e \in Int : IsLastWorkday(e, d)
<1> DEFINE P == {d \in Int : \E e \in Int : IsLastWorkday(e, d)}
<1>1. PICK b \in Int : \A d \in Int : d <= b => d \notin Holidays
    BY SomeFirstDay
<1>2. ASSUME NEW d \in Int, d \notin Holidays PROVE IsLastWorkday(d, d)
    BY <1>2 DEF IsLastWorkday
<1>3. \A d \in Int : d <= b => d \in P
    BY <1>1, <1>2
<1>4. ASSUME NEW d \in Int, d \in P PROVE d + 1 \in P
  <2>1. CASE d + 1 \notin Holidays
    BY <1>2, <2>1
  <2>2. CASE d + 1 \in Holidays
    <3>1. PICK e \in Int : IsLastWorkday(e, d)
      BY <1>4
    <3>2. IsLastWorkday(e, d + 1)
      BY <2>2, <3>1 DEF IsLastWorkday
    <3>3. QED
      BY <3>2
  <2>3. QED
    BY <2>1, <2>2
<1>5. \A d \in Int : d \in P
  <2> HIDE DEF P
  <2>1. QED
    BY <1>3, <1>4, UpwardInduction
<1>6. QED
    BY <1>5

LEMMA LastWorkdayIsOne ==
    ASSUME NEW d \in Int, NEW e, NEW x, IsLastWorkday(e, d), IsLastWorkday(x, d)
    PROVE  e = x
BY DEF IsLastWorkday

(* OnOrBefore, which recurs over all integers, is a function and finds it. *)
OnOrBeforeEquation(f) ==
    f = [day \in Int |-> IF day \in Holidays THEN f[day - 1] ELSE day]

LEMMA OnOrBeforeExists == \E f : OnOrBeforeEquation(f)
<1> DEFINE last(d) == CHOOSE e \in Int : IsLastWorkday(e, d)
           f == [d \in Int |-> last(d)]
<1>1. \A d \in Int : IsLastWorkday(last(d), d)
    BY LastWorkdayExists
<1>2. ASSUME NEW d \in Int PROVE last(d) = IF d \in Holidays THEN last(d - 1) ELSE d
  <2>1. CASE d \in Holidays
    <3>1. IsLastWorkday(last(d), d) /\ IsLastWorkday(last(d - 1), d - 1)
      BY <1>1
    <3> HIDE DEF last
    <3>2. last(d) <= d - 1
      BY <2>1, <3>1 DEF IsLastWorkday
    <3>3. IsLastWorkday(last(d), d - 1)
      BY <3>1, <3>2 DEF IsLastWorkday
    <3>4. last(d) = last(d - 1)
      <4>1. PICK y \in Int : y = d - 1
        OBVIOUS
      <4>2. QED
        BY <3>1, <3>3, <4>1, LastWorkdayIsOne
    <3>5. QED
      BY <2>1, <3>4
  <2>2. CASE d \notin Holidays
    <3>1. IsLastWorkday(d, d)
      BY <2>2 DEF IsLastWorkday
    <3> HIDE DEF last
    <3>2. last(d) = d
      BY <1>1, <3>1, LastWorkdayIsOne
    <3>3. QED
      BY <2>2, <3>2
  <2>3. QED
    BY <2>1, <2>2
<1>3. f = [d \in Int |-> IF d \in Holidays THEN f[d - 1] ELSE d]
  <2> HIDE DEF last
  <2>1. \A d \in Int : d - 1 \in Int /\ f[d - 1] = last(d - 1)
    OBVIOUS
  <2>2. QED
    BY <1>2, <2>1
<1>4. QED
  <2> HIDE DEF f
  <2>1. QED
    BY <1>3 DEF OnOrBeforeEquation

LEMMA OnOrBeforeIs ==
    \A d \in Int : OnOrBefore[d] = IF d \in Holidays THEN OnOrBefore[d - 1] ELSE d
<1>1. OnOrBefore = CHOOSE f : OnOrBeforeEquation(f)
    BY Zenon DEF OnOrBefore, OnOrBeforeEquation
<1>2. OnOrBeforeEquation(OnOrBefore)
    BY <1>1, OnOrBeforeExists, Zenon
<1>3. QED
    BY <1>2 DEF OnOrBeforeEquation

LEMMA OnOrBeforeIsLast == \A d \in Int : IsLastWorkday(OnOrBefore[d], d)
<1> DEFINE P == {d \in Int : IsLastWorkday(OnOrBefore[d], d)}
<1>1. PICK b \in Int : \A d \in Int : d <= b => d \notin Holidays
    BY SomeFirstDay
<1>2. ASSUME NEW d \in Int, d \notin Holidays PROVE d \in P
  <2>1. OnOrBefore[d] = d
    BY <1>2, OnOrBeforeIs
  <2>2. QED
    BY <1>2, <2>1 DEF IsLastWorkday
<1>3. ASSUME NEW d \in Int, d \in P PROVE d + 1 \in P
  <2>1. CASE d + 1 \in Holidays
    <3>1. d + 1 \in Int /\ (d + 1) - 1 = d
      OBVIOUS
    <3>2. OnOrBefore[d + 1] = OnOrBefore[d]
      BY <2>1, <3>1, OnOrBeforeIs
    <3>3. QED
      BY <1>3, <2>1, <3>2 DEF IsLastWorkday
  <2>2. QED
    BY <1>2, <2>1
<1>4. \A d \in Int : d <= b => d \in P
    BY <1>1, <1>2
<1>5. \A d \in Int : d \in P
  <2> HIDE DEF P
  <2>1. QED
    BY <1>3, <1>4, UpwardInduction
<1>6. QED
    BY <1>5

(* A later day is not taken back further.                                  *)
LEMMA OnOrBeforeMonotone ==
    ASSUME NEW d \in Int, NEW e \in Int, d <= e
    PROVE  OnOrBefore[d] <= OnOrBefore[e]
<1>1. IsLastWorkday(OnOrBefore[d], d) /\ IsLastWorkday(OnOrBefore[e], e)
    BY OnOrBeforeIsLast
<1>2. QED
    BY <1>1 DEF IsLastWorkday

(* So many workdays back, and the same of them.                            *)
BackEquation(f, day) ==
    f = [n \in Nat |-> IF n = 0 THEN day ELSE OnOrBefore[f[n - 1] - 1]]

Backs(day) == CHOOSE f : BackEquation(f, day)

LEMMA BackStep ==
    ASSUME NEW day \in Int
    PROVE  /\ Back[day][0] = day
           /\ \A n \in Nat : /\ Back[day][n] \in Int
                             /\ Back[day][n + 1] = OnOrBefore[Back[day][n] - 1]
<1> DEFINE s == [p \in Nat \X Int |-> OnOrBefore[p[2] - 1]]
<1>1. \A d \in Int : OnOrBefore[d] \in Int
    BY OnOrBeforeIsLast DEF IsLastWorkday
<1>2. s \in [Nat \X Int -> Int]
    BY <1>1
<1>3. PICK f : Iterates(f, Int, day, s)
  <2> HIDE DEF s
  <2>1. QED
    BY <1>2, NatRecursion
<1>4. ASSUME NEW n \in Nat PROVE f[n] = IF n = 0 THEN day ELSE OnOrBefore[f[n - 1] - 1]
  <2>1. CASE n = 0
    BY <1>3, <2>1 DEF Iterates
  <2>2. CASE n # 0
    <3>1. PICK m \in Nat : m = n - 1 /\ n = m + 1
      BY <2>2
    <3>2. f[n] = s[<<m, f[m]>>] /\ f[m] \in Int
      BY <1>3, <3>1 DEF Iterates
    <3>3. QED
      BY <2>2, <3>1, <3>2
  <2>3. QED
    BY <2>1, <2>2
<1>5. BackEquation(f, day)
    BY <1>3, <1>4 DEF BackEquation, Iterates
<1>6. PICK g : g = Backs(day) /\ BackEquation(g, day)
    BY <1>5, Zenon DEF Backs
<1>7. Back[day] = g
    BY <1>6, Zenon DEF Back, Backs, BackEquation
<1>8. \A n \in Nat : g[n] = IF n = 0 THEN day ELSE OnOrBefore[g[n - 1] - 1]
    BY <1>6 DEF BackEquation
<1>9. g[0] = day
    BY <1>8
<1>10. \A n \in Nat : g[n + 1] = OnOrBefore[g[n] - 1]
  <2>1. \A n \in Nat : n + 1 \in Nat /\ n + 1 # 0 /\ (n + 1) - 1 = n
    OBVIOUS
  <2>2. QED
    BY <1>8, <2>1
<1> DEFINE N == {n \in Nat : g[n] \in Int}
<1>11. N = Nat
  <2>1. 0 \in N
    BY <1>9
  <2>2. ASSUME NEW n \in N PROVE n + 1 \in N
    BY <1>1, <1>10
  <2>3. N \subseteq Nat
    OBVIOUS
  <2> HIDE DEF N
  <2>4. QED
    BY <2>1, <2>2, <2>3, NatInd
<1>12. Back[day][0] = day
    BY <1>7, <1>9
<1>13. ASSUME NEW n \in Nat PROVE Back[day][n] \in Int /\ Back[day][n + 1] = OnOrBefore[Back[day][n] - 1]
  <2>1. PICK m \in Nat : m = n + 1
    OBVIOUS
  <2>2. Back[day][n] = g[n] /\ Back[day][m] = g[m]
    BY <1>7
  <2>3. g[n] \in Int /\ g[m] = OnOrBefore[g[n] - 1]
    BY <1>10, <1>11, <2>1
  <2>4. QED
    BY <2>1, <2>2, <2>3
<1>14. QED
    BY <1>12, <1>13

(* A later day is still not before, so many workdays back.                 *)
LEMMA BackMonotone ==
    ASSUME NEW d \in Int, NEW e \in Int, d <= e
    PROVE  \A n \in Nat : Back[d][n] \in Int /\ Back[e][n] \in Int /\ Back[d][n] <= Back[e][n]
<1> DEFINE N == {n \in Nat : Back[d][n] <= Back[e][n]}
<1>1. 0 \in N
    BY BackStep
<1>2. ASSUME NEW n \in N PROVE n + 1 \in N
  <2>1. PICK x \in Int, y \in Int : x = Back[d][n] /\ y = Back[e][n]
    BY BackStep
  <2>2. PICK v \in Int, w \in Int : v = x - 1 /\ w = y - 1
    OBVIOUS
  <2>3. OnOrBefore[v] <= OnOrBefore[w]
    BY <2>1, <2>2, OnOrBeforeMonotone
  <2>4. Back[d][n + 1] = OnOrBefore[v] /\ Back[e][n + 1] = OnOrBefore[w]
    BY <2>1, <2>2, BackStep
  <2>5. QED
    BY <2>3, <2>4
<1>3. N = Nat
  <2>1. N \subseteq Nat
    OBVIOUS
  <2> HIDE DEF N
  <2>2. QED
    BY <1>1, <1>2, <2>1, NatInd
<1>4. QED
    BY <1>3, BackStep

(* A production day is a day, not earlier for a later delivery.            *)
LEMMA ProductionDueIsDay ==
    ASSUME NEW op \in Ops, NEW d \in Int
    PROVE  ProductionDue(op, d) \in Int
<1>1. \A e \in Int : OnOrBefore[e] \in Int
    BY OnOrBeforeIsLast DEF IsLastWorkday
<1>2. \A n \in Nat, e \in Int : Back[e][n] \in Int
    BY BackStep
<1>3. Lead[op] \in Nat /\ Margin[op] \in Nat
    OBVIOUS
<1>4. QED
    BY <1>1, <1>2, <1>3 DEF ProductionDue

(* A later delivery is never due earlier in the factory.                   *)
LEMMA ProductionDueMonotone ==
    ASSUME NEW op \in Ops, NEW d \in Int, NEW e \in Int, d <= e
    PROVE  ProductionDue(op, d) <= ProductionDue(op, e)
<1>1. PICK l \in Nat, m \in Nat : l = Lead[op] /\ m = Margin[op]
    OBVIOUS
<1>2. PICK x \in Int, y \in Int : x = Back[d][l] /\ y = Back[e][l]
    BY BackStep
<1>3. x <= y
    BY <1>2, BackMonotone
<1>4. PICK v \in Int, w \in Int : v = OnOrBefore[x] /\ w = OnOrBefore[y]
    BY OnOrBeforeIsLast DEF IsLastWorkday
<1>5. v <= w
    BY <1>3, <1>4, OnOrBeforeMonotone
<1>6. Back[v][m] <= Back[w][m]
    BY <1>5, BackMonotone
<1>7. OnOrBefore[d] <= OnOrBefore[e]
    BY OnOrBeforeMonotone
<1>8. QED
    BY <1>1, <1>2, <1>4, <1>6, <1>7 DEF ProductionDue

HIDE SizingAssumption

-----------------------------------------------------------------------------
(* The order of the keys.                                                  *)

(* Tuples of n integers.                                                   *)
Keys(n) == [1..n -> Int]

(* Two keys differ first somewhere, which orders them:                     *)
LEMMA LeastDifference ==
    ASSUME NEW n \in Nat, NEW s \in Keys(n), NEW t \in Keys(n), s # t
    PROVE  \E i \in 1..n : s[i] # t[i] /\ \A j \in 1..(i - 1) : s[j] = t[j]
<1> DEFINE D == {i \in 1..n : s[i] # t[i]}
<1>1. D # {}
    BY DEF Keys
<1>2. IsFiniteSet(1..n) /\ D \subseteq 1..n /\ D \subseteq Int
    BY FS_Interval
<1>3. IsFiniteSet(D)
    BY <1>2, FS_Subset
<1>4. PICK i \in D : \A k \in D : i <= k
  <2> HIDE DEF D
  <2>1. QED
    BY <1>1, <1>2, <1>3, FiniteSetHasMin
<1>5. ASSUME NEW j \in 1..(i - 1) PROVE s[j] = t[j]
  <2>1. j \in 1..n /\ ~(i <= j)
    BY <1>2
  <2>2. QED
    BY <1>4, <2>1
<1>6. QED
    BY <1>4, <1>5

LEMMA PrecedesTotal ==
    ASSUME NEW n \in Nat, NEW s \in Keys(n), NEW t \in Keys(n), s # t
    PROVE  Precedes(s, t) \/ Precedes(t, s)
<1>1. PICK i \in 1..n : s[i] # t[i] /\ \A j \in 1..(i - 1) : s[j] = t[j]
    BY LeastDifference
<1>2. DOMAIN s = 1..n /\ DOMAIN t = 1..n /\ s[i] \in Int /\ t[i] \in Int
    BY DEF Keys
<1>3. s[i] < t[i] \/ t[i] < s[i]
    BY <1>1, <1>2
<1>4. QED
    BY <1>1, <1>2, <1>3 DEF Precedes

(* transitively and in one direction.                                      *)
LEMMA PrecedesTransitive ==
    ASSUME NEW n \in Nat, NEW s \in Keys(n), NEW t \in Keys(n), NEW u \in Keys(n),
           Precedes(s, t), Precedes(t, u)
    PROVE  Precedes(s, u)
<1>1. DOMAIN s = 1..n /\ DOMAIN t = 1..n /\ DOMAIN u = 1..n
    BY DEF Keys
<1>2. \A i \in 1..n : s[i] \in Int /\ t[i] \in Int /\ u[i] \in Int
    BY DEF Keys
<1>3. PICK i \in 1..n : s[i] < t[i] /\ \A j \in 1..(i - 1) : s[j] = t[j]
    BY <1>1 DEF Precedes
<1>4. PICK k \in 1..n : t[k] < u[k] /\ \A j \in 1..(k - 1) : t[j] = u[j]
    BY <1>1 DEF Precedes
<1>5. CASE i <= k
  <2>1. s[i] < u[i]
    <3>1. CASE i = k
      BY <1>2, <1>3, <1>4, <3>1
    <3>2. CASE i # k
      <4>1. i \in 1..(k - 1)
        BY <1>5, <3>2
      <4>2. QED
        BY <1>3, <1>4, <4>1
    <3>3. QED
      BY <3>1, <3>2
  <2>2. \A j \in 1..(i - 1) : s[j] = u[j]
    <3>1. \A j \in 1..(i - 1) : j \in 1..(k - 1)
      BY <1>5
    <3>2. QED
      BY <1>3, <1>4, <3>1
  <2>3. QED
    BY <1>1, <2>1, <2>2 DEF Precedes
<1>6. CASE ~(i <= k)
  <2>1. k \in 1..(i - 1) /\ \A j \in 1..(k - 1) : j \in 1..(i - 1)
    BY <1>6
  <2>2. s[k] < u[k] /\ \A j \in 1..(k - 1) : s[j] = u[j]
    BY <1>3, <1>4, <2>1
  <2>3. QED
    BY <1>1, <2>2 DEF Precedes
<1>7. QED
    BY <1>5, <1>6

LEMMA PrecedesNot ==
    ASSUME NEW n \in Nat, NEW s \in Keys(n), NEW t \in Keys(n), Precedes(s, t)
    PROVE  ~Precedes(t, s)
<1>1. SUFFICES ASSUME Precedes(t, s) PROVE FALSE
    OBVIOUS
<1>2. Precedes(s, s)
    BY <1>1, PrecedesTransitive
<1>3. PICK i \in DOMAIN s : s[i] < s[i]
    BY <1>2 DEF Precedes
<1>4. s[i] \in Int
    BY <1>3 DEF Keys
<1>5. QED
    BY <1>3, <1>4

(* A finite set has a first member in the order of any keys that tell its  *)
(* members apart.                                                          *)
LEMMA FirstExists ==
    ASSUME NEW n \in Nat, NEW S, IsFiniteSet(S), S # {}, NEW K,
           \A x \in S : K[x] \in Keys(n),
           \A x, y \in S : x # y => K[x] # K[y]
    PROVE  \E x \in S : \A y \in S \ {x} : Precedes(K[x], K[y])
<1> DEFINE First(x, T) == \A y \in T \ {x} : Precedes(K[x], K[y])
           P == {T \in SUBSET S : T # {} => \E x \in T : First(x, T)}
<1>1. {} \in P
    OBVIOUS
<1>2. ASSUME NEW T \in P, NEW e \in S, T \subseteq S, e \notin T PROVE T \cup {e} \in P
  <2>1. CASE T = {}
    <3>1. First(e, T \cup {e})
      BY <2>1
    <3> HIDE DEF First
    <3>2. QED
      BY <3>1
  <2>2. CASE T # {}
    <3>1. PICK m \in T : First(m, T)
      BY <2>2
    <3>2. K[m] \in Keys(n) /\ K[e] \in Keys(n) /\ K[m] # K[e] /\ \A y \in T : K[y] \in Keys(n)
      BY <1>2
    <3>3. CASE Precedes(K[m], K[e])
      <4>1. First(m, T \cup {e})
        BY <3>1, <3>3
      <4> HIDE DEF First
      <4>2. QED
        BY <4>1
    <3>4. CASE Precedes(K[e], K[m])
      <4>1. ASSUME NEW y \in T PROVE Precedes(K[e], K[y])
        <5>1. CASE y = m
          BY <3>4, <5>1
        <5>2. CASE y # m
          <6>1. Precedes(K[m], K[y])
            BY <3>1, <5>2
          <6>2. PICK a \in Keys(n), b \in Keys(n), c \in Keys(n) : a = K[e] /\ b = K[m] /\ c = K[y]
            BY <3>2
          <6>3. QED
            BY <3>4, <6>1, <6>2, PrecedesTransitive
        <5>3. QED
          BY <5>1, <5>2
      <4>2. First(e, T \cup {e})
        BY <4>1
      <4> HIDE DEF First
      <4>3. QED
        BY <4>2
    <3>5. QED
      <4>1. PICK a \in Keys(n), b \in Keys(n) : a = K[e] /\ b = K[m]
        BY <3>2
      <4>2. QED
        BY <3>2, <3>3, <3>4, <4>1, PrecedesTotal
  <2>3. QED
    BY <2>1, <2>2
<1>3. \A T \in SUBSET S : T \in P
  <2> HIDE DEF P
  <2>1. QED
    BY <1>1, <1>2, FiniteInduction
<1>4. QED
    BY <1>3

(* The first component is not larger.                                      *)
LEMMA PrecedesFirst ==
    ASSUME NEW n \in Nat, n # 0, NEW s \in Keys(n), NEW t \in Keys(n), Precedes(s, t)
    PROVE  s[1] <= t[1]
<1>1. PICK i \in 1..n : s[i] < t[i] /\ \A j \in 1..(i - 1) : s[j] = t[j]
    BY DEF Precedes, Keys
<1>2. 1 \in 1..n /\ s[1] \in Int /\ t[1] \in Int
    BY DEF Keys
<1>3. i = 1 \/ 1 \in 1..(i - 1)
    OBVIOUS
<1>4. QED
    BY <1>1, <1>2, <1>3

(* What is assumed of the operations.                                      *)
LEMMA OperationTypes ==
    /\ Ops \subseteq Nat /\ IsFiniteSet(Ops) /\ Pair \subseteq Ops /\ Solos \subseteq Ops /\ Pair \cap Solos = {}
    /\ Twins[1] \in Pair /\ Twins[2] \in Pair /\ IsFiniteSet(Pair) /\ IsFiniteSet(Days)
    /\ Days \subseteq Nat /\ Horizon \in Nat
    /\ \A op \in Ops : /\ Eco[op] \in Nat /\ Lead[op] \in Nat /\ Margin[op] \in Nat
                       /\ Minutes[op] \in Nat /\ Priority[op] \in Int
    /\ \A op \in Solos : Window[op] \in Nat /\ Campaign[op] \in Nat
<1>1. Ops \subseteq Nat /\ IsFiniteSet(Ops) /\ Pair \cap Solos = {} /\ Horizon \in Nat
    BY SizingAssumption
<1>2. Pair \subseteq Ops /\ Solos \subseteq Ops
    BY DEF Ops
<1>3. Twins[1] \in Pair /\ Twins[2] \in Pair
    BY DEF Pair
<1>4. IsFiniteSet(Pair)
  <2>1. IsFiniteSet({Twins[1]}) /\ IsFiniteSet({Twins[2]}) /\ Pair = {Twins[1]} \cup {Twins[2]}
    BY FS_Singleton DEF Pair
  <2>2. QED
    BY <2>1, FS_Union
<1>5. IsFiniteSet(Days) /\ Days \subseteq Nat
    BY <1>1, FS_Interval DEF Days
<1>6. \A op \in Ops : /\ Eco[op] \in Nat /\ Lead[op] \in Nat /\ Margin[op] \in Nat
                       /\ Minutes[op] \in Nat /\ Priority[op] \in Int
    BY SizingAssumption
<1>7. \A op \in Solos : Window[op] \in Nat /\ Campaign[op] \in Nat
    BY SizingAssumption
<1>8. QED
    BY <1>1, <1>2, <1>3, <1>4, <1>5, <1>6, <1>7

(* The twin cycle begins with the demand that is due first.                *)
LEMMA CurrentIsFirst ==
    ASSUME IsFiniteSet(Pending), Pending # {}
    PROVE  /\ Current \in Pending
           /\ \A e \in Pending : ProductionDue(Current[1], Current[2]) <= ProductionDue(e[1], e[2])
<1>1. ASSUME NEW e \in Pending
      PROVE  /\ e[1] \in Pair /\ e[1] \in Ops /\ e[2] \in Days /\ e = <<e[1], e[2]>>
             /\ e[1] \in Int /\ e[2] \in Int
             /\ ProductionDue(e[1], e[2]) \in Int /\ Priority[e[1]] \in Int
  <2>1. e \in Pair \X Days
    BY DEF Pending
  <2>2. e[1] \in Pair /\ e[2] \in Days /\ e = <<e[1], e[2]>>
    BY <2>1
  <2>3. e[1] \in Ops /\ e[2] \in Int
    BY <2>2 DEF Ops, Days
  <2>5. PICK op \in Ops, d \in Int : op = e[1] /\ d = e[2]
    BY <2>3
  <2>4. op \in Int /\ Priority[op] \in Int
    BY OperationTypes
  <2>6. ProductionDue(op, d) \in Int
    BY ProductionDueIsDay
  <2>7. QED
    BY <2>2, <2>3, <2>4, <2>5, <2>6
<1>2. ASSUME NEW e \in Pending PROVE Urgency(e) \in Keys(5)
    BY <1>1 DEF Urgency, Keys
<1>3. ASSUME NEW e \in Pending, NEW x \in Pending, e # x PROVE Urgency(e) # Urgency(x)
    BY <1>1, <1>3 DEF Urgency
<1> DEFINE K == [e \in Pending |-> Urgency(e)]
<1>4. \E x \in Pending : \A y \in Pending \ {x} : Precedes(K[x], K[y])
  <2>1. /\ \A x \in Pending : K[x] \in Keys(5)
        /\ \A x, y \in Pending : x # y => K[x] # K[y]
    BY <1>2, <1>3
  <2> HIDE DEF K
  <2>2. PICK n \in Nat : n = 5
    OBVIOUS
  <2>3. QED
    BY <2>1, <2>2, FirstExists
<1>5. \E x \in Pending : \A y \in Pending \ {x} : Precedes(Urgency(x), Urgency(y))
    BY <1>4
<1>6. Current \in Pending /\ \A y \in Pending \ {Current} : Precedes(Urgency(Current), Urgency(y))
    BY <1>5, Zenon DEF Current, FirstBy
<1>7. ASSUME NEW e \in Pending
      PROVE  ProductionDue(Current[1], Current[2]) <= ProductionDue(e[1], e[2])
  <2>1. CASE e = Current
    BY <1>1, <1>6, <2>1
  <2>2. CASE e # Current
    <3>1. PICK s \in Keys(5), t \in Keys(5) : s = Urgency(Current) /\ t = Urgency(e)
      BY <1>2, <1>6
    <3>2. Precedes(s, t)
      BY <1>6, <2>2, <3>1
    <3>3. s[1] <= t[1]
      <4>1. PICK n \in Nat : n = 5
        OBVIOUS
      <4>2. QED
        BY <3>2, <4>1, PrecedesFirst
    <3>4. QED
      BY <3>1, <3>3 DEF Urgency
  <2>3. QED
    BY <2>1, <2>2
<1>8. QED
    BY <1>6, <1>7

-----------------------------------------------------------------------------
(* Demand and supply.                                                      *)

(* The sum up to a day, from the day before.                               *)
LEMMA SumNext ==
    ASSUME NEW n \in Nat, NEW f, \A x \in 0..n : f[x] \in Int
    PROVE  SumOver(f, 0..n) = SumOver(f, 0..(n - 1)) + f[n] /\ SumOver(f, 0..(n - 1)) \in Int
<1>1. PICK S : S = 0..(n - 1)
    OBVIOUS
<1>2. IsFiniteSet(S) /\ n \notin S /\ S \cup {n} = 0..n
    BY <1>1, FS_Interval
<1>3. \A x \in S \cup {n} : f[x] \in Int
    BY <1>2
<1>4. SumOver(f, S \cup {n}) = f[n] + SumOver(f, S)
    BY <1>2, <1>3, SumAdd
<1>5. SumOver(f, S) \in Int /\ f[n] \in Int
    BY <1>2, <1>3, SumType
<1>6. SumOver(f, S \cup {n}) = SumOver(f, 0..n)
    BY <1>2
<1>7. SumOver(f, 0..n) = SumOver(f, S) + f[n]
    BY <1>4, <1>5, <1>6
<1>8. QED
    BY <1>1, <1>5, <1>7

(* A number is its positive part less that of its opposite.                *)
LEMMA PosPartIs ==
    ASSUME NEW n \in Int
    PROVE  PosPart(n) \in Nat /\ PosPart(n) >= n /\ PosPart(n) - PosPart(-n) = n
BY DEF PosPart

(* Days are numbers.                                                       *)
LEMMA DaysAreNat == \A d \in Days : d \in Nat /\ d \in Int /\ ~(d <= -1) /\ ~(d < 0)
BY OperationTypes

(* Demand and supply as a plan has them; the supply there on a day.        *)
OrdersOk ==
    /\ demand \in [Ops -> [Days -> Nat]]
    /\ IsFiniteSet(supply)
    /\ \A s \in supply : s.op \in Ops /\ s.day \in Days /\ s.qty \in Nat

LEMMA ArrivingIsNat ==
    ASSUME OrdersOk, NEW op \in Ops, NEW d \in Int
    PROVE  Arriving(op, d) \in Nat
<1> DEFINE S == {s \in supply : s.op = op /\ s.day = d}
           q == [s \in supply |-> s.qty]
<1>1. IsFiniteSet(S) /\ \A s \in S : q[s] \in Nat
    BY FS_Subset DEF OrdersOk
<1> HIDE DEF S, q
<1>2. SumOver(q, S) \in Nat
    BY <1>1, SumIsNat
<1>3. QED
    BY <1>2 DEF Arriving, S, q

(* The supply up to a day, from the day before.                            *)
LEMMA SuppliedNext ==
    ASSUME OrdersOk, NEW op \in Ops, NEW d \in Int
    PROVE  /\ Supplied(op, d) = Supplied(op, d - 1) + Arriving(op, d)
           /\ Supplied(op, d) \in Nat
<1> DEFINE S == {s \in supply : s.op = op /\ s.day <= d - 1}
           T == {s \in supply : s.op = op /\ s.day = d}
           U == {s \in supply : s.op = op /\ s.day <= d}
           q == [s \in supply |-> s.qty]
<1>0. \A s \in supply : s.day \in Int
    BY DaysAreNat DEF OrdersOk
<1>1. U = S \cup T /\ S \cap T = {}
    BY <1>0
<1>2. IsFiniteSet(S) /\ IsFiniteSet(T) /\ IsFiniteSet(U)
    BY FS_Subset DEF OrdersOk
<1>3. \A s \in S \cup T : q[s] \in Nat /\ q[s] \in Int
    BY DEF OrdersOk
<1>4. Supplied(op, d) = SumOver(q, U) /\ Supplied(op, d - 1) = SumOver(q, S) /\ Arriving(op, d) = SumOver(q, T)
    BY DEF Supplied, Arriving
<1> HIDE DEF S, T, U, q
<1>5. SumOver(q, S \cup T) = SumOver(q, S) + SumOver(q, T)
    BY <1>1, <1>2, <1>3, SumUnion
<1>6. SumOver(q, U) \in Nat
    BY <1>1, <1>2, <1>3, SumIsNat
<1>7. QED
    BY <1>1, <1>4, <1>5, <1>6

LEMMA SuppliedFirst == ASSUME OrdersOk, NEW op \in Ops PROVE Supplied(op, -1) = 0
<1>1. {s \in supply : s.op = op /\ s.day <= -1} = {}
    BY DaysAreNat DEF OrdersOk
<1>2. QED
    BY <1>1, SumEmpty DEF Supplied

-----------------------------------------------------------------------------
(* Left, which recurs over the days, is a function with its equation.      *)
LeftEquation(f, op) ==
    f = [day \in -1..(Horizon - 1) |->
            IF day < 0 THEN 0
            ELSE PosPart(f[day - 1] + Arriving(op, day) - demand[op][day])]
Lefts(op) == CHOOSE f : LeftEquation(f, op)

LEMMA LeftStep ==
    ASSUME OrdersOk, NEW op \in Ops
    PROVE  /\ Left(op)[-1] = 0
           /\ \A d \in Days : /\ Left(op)[d - 1] \in Nat /\ Left(op)[d] \in Nat
                              /\ Left(op)[d] = PosPart(Left(op)[d - 1] + Arriving(op, d) - demand[op][d])
<1> DEFINE next(d, left) == IF d \in Days THEN PosPart(left + Arriving(op, d) - demand[op][d]) ELSE 0
           s == [p \in Nat \X Nat |-> next(p[1], p[2])]
<1>0. Days = 0..(Horizon - 1) /\ Horizon \in Nat /\ Days \subseteq Nat
    BY OperationTypes DEF Days
<1>1. ASSUME NEW d \in Nat, NEW left \in Nat PROVE next(d, left) \in Nat
  <2>1. CASE d \in Days
    <3>1. Arriving(op, d) \in Nat /\ demand[op][d] \in Nat
      BY <2>1, ArrivingIsNat DEF OrdersOk
    <3>2. left + Arriving(op, d) - demand[op][d] \in Int
      BY <3>1
    <3>3. QED
      BY <2>1, <3>2, PosPartIs
  <2>2. QED
    BY <2>1
<1>2. s \in [Nat \X Nat -> Nat]
  <2> HIDE DEF next
  <2>1. QED
    BY <1>1
<1>3. PICK f : Iterates(f, Nat, 0, s)
  <2> HIDE DEF s
  <2>1. QED
    BY <1>2, NatRecursion
<1>4. ASSUME NEW n \in Nat PROVE f[n] \in Nat /\ f[n + 1] = next(n, f[n])
  <2> HIDE DEF next
  <2>1. QED
    BY <1>3 DEF Iterates
<1>5. f[0] = 0
    BY <1>3 DEF Iterates
<1> DEFINE g == [day \in -1..(Horizon - 1) |-> f[day + 1]]
<1>6. g[-1] = 0
    BY <1>0, <1>5
<1>7. ASSUME NEW d \in Days
      PROVE  g[d] = PosPart(g[d - 1] + Arriving(op, d) - demand[op][d])
  <2>1. d \in -1..(Horizon - 1) /\ d - 1 \in -1..(Horizon - 1) /\ (d - 1) + 1 = d /\ d \in Nat
    BY <1>0
  <2>2. g[d] = f[d + 1] /\ g[d - 1] = f[d]
    BY <2>1
  <2>3. QED
    BY <1>4, <2>1, <2>2
<1>8. \A d \in -1..(Horizon - 1) : d # -1 => d \in Days /\ ~(d < 0)
    BY <1>0
<1>9. \E h : LeftEquation(h, op)
  <2>1. PICK h : h = g
    OBVIOUS
  <2>2. ASSUME NEW d \in -1..(Horizon - 1)
        PROVE  h[d] = IF d < 0 THEN 0 ELSE PosPart(h[d - 1] + Arriving(op, d) - demand[op][d])
    <3> HIDE DEF g
    <3>1. CASE d = -1
      BY <1>6, <2>1, <3>1
    <3>2. CASE d # -1
      BY <1>7, <1>8, <2>1, <3>2
    <3>3. QED
      BY <3>1, <3>2
  <2>3. h = [d \in -1..(Horizon - 1) |-> h[d]]
    BY <2>1
  <2>4. LeftEquation(h, op)
    BY <2>2, <2>3 DEF LeftEquation
  <2>5. QED
    BY <2>4
<1>10. PICK h : h = Lefts(op) /\ LeftEquation(h, op)
    BY <1>9, Zenon DEF Lefts
<1>11. Left(op) = h
    BY <1>10, Zenon DEF Left, Lefts, LeftEquation
<1>12. \A d \in -1..(Horizon - 1) : h[d] = IF d < 0 THEN 0
                                          ELSE PosPart(h[d - 1] + Arriving(op, d) - demand[op][d])
    BY <1>10 DEF LeftEquation
<1>13. h[-1] = 0
  <2>1. -1 \in -1..(Horizon - 1) /\ -1 < 0
    BY <1>0
  <2>2. QED
    BY <1>12, <2>1
<1>14. \A d \in Days : h[d] = PosPart(h[d - 1] + Arriving(op, d) - demand[op][d])
  <2>1. \A d \in Days : d \in -1..(Horizon - 1) /\ ~(d < 0)
    BY <1>0
  <2>2. QED
    BY <1>12, <2>1
<1> DEFINE N == {n \in Nat : n - 1 \in -1..(Horizon - 1) => h[n - 1] \in Nat}
<1>15. N = Nat
  <2>1. 0 \in N
    BY <1>13
  <2>2. ASSUME NEW n \in N PROVE n + 1 \in N
    <3>1. CASE n \in Days
      <4>1. h[n - 1] \in Nat
        BY <1>0, <3>1
      <4>2. Arriving(op, n) \in Nat /\ demand[op][n] \in Nat
        BY <3>1, ArrivingIsNat DEF OrdersOk
      <4>3. h[n - 1] + Arriving(op, n) - demand[op][n] \in Int
        BY <4>1, <4>2
      <4>4. h[n] \in Nat
        BY <1>14, <3>1, <4>3, PosPartIs
      <4>5. QED
        BY <4>4
    <3>2. CASE n \notin Days
      BY <1>0, <3>2
    <3>3. QED
      BY <3>1, <3>2
  <2>3. N \subseteq Nat
    OBVIOUS
  <2> HIDE DEF N
  <2>4. QED
    BY <2>1, <2>2, <2>3, NatInd
<1>16. \A d \in -1..(Horizon - 1) : h[d] \in Nat
  <2>1. SUFFICES ASSUME NEW d \in -1..(Horizon - 1) PROVE h[d] \in Nat
    OBVIOUS
  <2>2. d + 1 \in Nat /\ (d + 1) - 1 = d
    BY <1>0
  <2>3. d + 1 \in N
    BY <1>15, <2>2
  <2>4. QED
    BY <2>2, <2>3
<1>17. \A d \in Days : d \in -1..(Horizon - 1) /\ d - 1 \in -1..(Horizon - 1)
    BY <1>0
<1>18. QED
    BY <1>11, <1>13, <1>14, <1>16, <1>17

(* What the supply of a day and of before leaves open.                     *)
LEMMA UncoveredIs ==
    ASSUME OrdersOk, NEW op \in Ops
    PROVE  /\ Uncovered(op) \in [Days -> Nat]
           /\ \A d \in Days : Uncovered(op)[d] = demand[op][d] - Left(op)[d - 1] - Arriving(op, d)
                                                   + Left(op)[d]
<1>1. ASSUME NEW d \in Days
      PROVE  /\ PosPart(demand[op][d] - Left(op)[d - 1] - Arriving(op, d)) \in Nat
             /\ PosPart(demand[op][d] - Left(op)[d - 1] - Arriving(op, d))
                  = demand[op][d] - Left(op)[d - 1] - Arriving(op, d) + Left(op)[d]
  <2>1. PICK x \in Nat, a \in Nat, q \in Nat, y \in Nat :
          x = Left(op)[d - 1] /\ a = Arriving(op, d) /\ q = demand[op][d] /\ y = Left(op)[d]
    <3>1. d \in Int
      BY OperationTypes
    <3>2. QED
      BY <3>1, LeftStep, ArrivingIsNat DEF OrdersOk
  <2>2. y = PosPart(x + a - q)
    BY <2>1, LeftStep
  <2>3. PosPart(q - x - a) \in Nat /\ PosPart(q - x - a) = q - x - a + y
    BY <2>2 DEF PosPart
  <2>4. QED
    BY <2>1, <2>3
<1>2. QED
    BY <1>1 DEF Uncovered

(* What the supply leaves uncovered, with the supply, is the demand, and   *)
(* what is left of the supply.                                             *)
LEMMA SupplyCovers ==
    ASSUME OrdersOk, NEW op \in Ops
    PROVE  \A d \in Days : SumOver(Uncovered(op), 0..d) + Supplied(op, d) >= Total(op, d)
<1> DEFINE Balance(n) == SumOver(Uncovered(op), 0..n) + Supplied(op, n) = Total(op, n) + Left(op)[n]
           N == {n \in Nat : n - 1 \in -1..(Horizon - 1) => Balance(n - 1)}
<1>0. Days = 0..(Horizon - 1) /\ Horizon \in Nat /\ Days \subseteq Nat
    BY OperationTypes DEF Days
<1>1. 0 \in N
  <2>1. 0..(-1) = {} /\ 0 - 1 = -1
    OBVIOUS
  <2>2. Balance(-1)
    BY <2>1, SumEmpty, SuppliedFirst, LeftStep DEF Total
  <2>3. QED
    BY <2>1, <2>2
<1>2. ASSUME NEW n \in N PROVE n + 1 \in N
  <2>1. CASE n \in Days
    <3>1. Balance(n - 1)
      BY <1>0, <2>1
    <3>2. \A x \in 0..n : x \in Days
      BY <1>0, <2>1
    <3>3. \A x \in Days : Uncovered(op)[x] \in Int /\ demand[op][x] \in Int
      BY UncoveredIs DEF OrdersOk
    <3>4. /\ SumOver(Uncovered(op), 0..n) = SumOver(Uncovered(op), 0..(n - 1)) + Uncovered(op)[n]
          /\ SumOver(Uncovered(op), 0..(n - 1)) \in Int
      BY <3>2, <3>3, SumNext
    <3>5. /\ SumOver(demand[op], 0..n) = SumOver(demand[op], 0..(n - 1)) + demand[op][n]
          /\ SumOver(demand[op], 0..(n - 1)) \in Int
      BY <3>2, <3>3, SumNext
    <3>6. n \in Int /\ n - 1 \in Int
      BY <1>0, <2>1
    <3>7. /\ Supplied(op, n) = Supplied(op, n - 1) + Arriving(op, n)
          /\ Supplied(op, n - 1) \in Nat /\ Arriving(op, n) \in Nat
      BY <3>6, SuppliedNext, ArrivingIsNat
    <3>8. /\ Uncovered(op)[n] = demand[op][n] - Left(op)[n - 1] - Arriving(op, n) + Left(op)[n]
          /\ Uncovered(op)[n] \in Nat /\ demand[op][n] \in Nat
          /\ Left(op)[n - 1] \in Nat /\ Left(op)[n] \in Nat
      BY <2>1, UncoveredIs, LeftStep DEF OrdersOk
    <3>9. Balance(n)
      <4>1. PICK u \in Int, v \in Int, w \in Int :
              /\ u = SumOver(Uncovered(op), 0..(n - 1)) /\ v = SumOver(demand[op], 0..(n - 1))
              /\ w = Supplied(op, n - 1)
        BY <3>4, <3>5, <3>7
      <4>2. u + w = v + Left(op)[n - 1]
        BY <3>1, <4>1 DEF Total
      <4>3. PICK a \in Int, q \in Int, x \in Int, y \in Int :
              a = Arriving(op, n) /\ q = demand[op][n] /\ x = Left(op)[n - 1] /\ y = Left(op)[n]
        BY <3>7, <3>8
      <4>4. /\ SumOver(Uncovered(op), 0..n) = u + (q - x - a + y)
            /\ SumOver(demand[op], 0..n) = v + q
            /\ Supplied(op, n) = w + a
        BY <3>4, <3>5, <3>7, <3>8, <4>1, <4>3
      <4>5. u + (q - x - a + y) + (w + a) = (v + q) + y
        <5>1. u + w = v + x
          BY <4>2, <4>3
        <5>2. QED
          BY <5>1
      <4>6. QED
        BY <4>3, <4>4, <4>5 DEF Total
    <3>10. (n + 1) - 1 = n
      OBVIOUS
    <3> HIDE DEF Balance
    <3>11. QED
      BY <3>9, <3>10
  <2>2. CASE n \notin Days
    BY <1>0, <2>2
  <2>3. QED
    BY <2>1, <2>2
<1>3. N = Nat
  <2>1. N \subseteq Nat
    OBVIOUS
  <2> HIDE DEF N
  <2>2. QED
    BY <1>1, <1>2, <2>1, NatInd
<1>4. ASSUME NEW d \in Days PROVE SumOver(Uncovered(op), 0..d) + Supplied(op, d) >= Total(op, d)
  <2>1. d + 1 \in Nat /\ (d + 1) - 1 = d /\ d \in -1..(Horizon - 1)
    BY <1>0
  <2>2. Balance(d)
    <3> HIDE DEF Balance
    <3>1. QED
      BY <1>3, <2>1
  <2>3. Left(op)[d] \in Nat
    BY LeftStep
  <2>4. SumOver(demand[op], 0..d) \in Int
    <3>1. IsFiniteSet(0..d) /\ \A x \in 0..d : demand[op][x] \in Int
      BY <1>0, FS_Interval DEF OrdersOk
    <3>2. QED
      BY <3>1, SumType
  <2>5. QED
    BY <2>2, <2>3, <2>4 DEF Total
<1>5. QED
    BY <1>4

-----------------------------------------------------------------------------
(* Lots.                                                                   *)

(* Lots that make natural quantities.                                      *)
Lots(L) == IsFiniteSet(L) /\ \A l \in L : \A op \in DOMAIN l.made : l.made[op] \in Nat
(* What a lot makes of an operation; the lots due for a delivery.          *)
MadeOf(op, l) == IF op \in DOMAIN l.made THEN l.made[op] ELSE 0
DueBy(L, op, d) == {l \in L : l.edd <= ProductionDue(op, d)}

(* How much lots make: a number, more of more lots, and one lot more.      *)
LEMMA MakingIsNat ==
    ASSUME NEW L, Lots(L), NEW op PROVE Making(op, L) \in Nat
<1> DEFINE its == {l \in L : op \in DOMAIN l.made}
           f == [l \in its |-> l.made[op]]
<1>1. IsFiniteSet(its) /\ \A l \in its : f[l] \in Nat
    BY FS_Subset DEF Lots
<1>2. Making(op, L) = SumOver(f, its)
    BY DEF Making
<1> HIDE DEF its, f
<1>3. QED
    BY <1>1, <1>2, SumIsNat

LEMMA MakingPart ==
    ASSUME NEW L, Lots(L), NEW M \in SUBSET L, NEW op PROVE Making(op, M) <= Making(op, L)
<1> DEFINE its == {l \in L : op \in DOMAIN l.made}
           f == [l \in its |-> l.made[op]]
           jts == {l \in M : op \in DOMAIN l.made}
           g == [l \in jts |-> l.made[op]]
<1>1. IsFiniteSet(its) /\ (\A l \in its : f[l] \in Nat) /\ jts \in SUBSET its
    BY FS_Subset DEF Lots
<1>2. Making(op, L) = SumOver(f, its) /\ Making(op, M) = SumOver(g, jts)
    BY DEF Making
<1>3. \A l \in jts : f[l] = g[l]
    OBVIOUS
<1> HIDE DEF its, f, jts, g
<1>4. IsFiniteSet(jts)
    BY <1>1, FS_Subset
<1>5. SumOver(f, jts) = SumOver(g, jts)
    BY <1>3, <1>4, SumSame
<1>6. SumOver(f, jts) <= SumOver(f, its)
    BY <1>1, SumOfPart
<1>7. QED
    BY <1>2, <1>5, <1>6

LEMMA MakingAdd ==
    ASSUME NEW L, NEW k, k \notin L, Lots(L \cup {k}), NEW op
    PROVE  Making(op, L \cup {k}) = Making(op, L) + MadeOf(op, k)
<1> DEFINE its == {l \in L : op \in DOMAIN l.made}
           f == [l \in its |-> l.made[op]]
           jts == {l \in L \cup {k} : op \in DOMAIN l.made}
           g == [l \in jts |-> l.made[op]]
<1>1. IsFiniteSet(jts) /\ (\A l \in jts : g[l] \in Nat /\ g[l] \in Int) /\ its \in SUBSET jts
    BY FS_Subset DEF Lots
<1>2. Making(op, L) = SumOver(f, its) /\ Making(op, L \cup {k}) = SumOver(g, jts)
    BY DEF Making
<1>3. (\A l \in its : f[l] = g[l]) /\ k \notin its
    OBVIOUS
<1>4. op \in DOMAIN k.made => jts = its \cup {k} /\ g[k] = k.made[op]
    OBVIOUS
<1>5. op \notin DOMAIN k.made => jts = its
    OBVIOUS
<1> HIDE DEF its, f, jts, g
<1>6. IsFiniteSet(its)
    BY <1>1, FS_Subset
<1>7. SumOver(f, its) = SumOver(g, its)
    BY <1>3, <1>6, SumSame
<1>8. SumOver(g, its) \in Int
    BY <1>1, <1>6, SumType
<1>9. CASE op \in DOMAIN k.made
  <2>1. SumOver(g, its \cup {k}) = g[k] + SumOver(g, its)
    BY <1>1, <1>3, <1>4, <1>6, <1>9, SumAdd
  <2>2. g[k] \in Int
    BY <1>1, <1>4, <1>9
  <2>3. SumOver(g, jts) = g[k] + SumOver(g, its)
    BY <1>4, <1>9, <2>1
  <2>4. QED
    BY <1>2, <1>4, <1>7, <1>8, <1>9, <2>2, <2>3 DEF MadeOf
<1>10. CASE op \notin DOMAIN k.made
    BY <1>2, <1>5, <1>7, <1>8, <1>10 DEF MadeOf
<1>11. QED
    BY <1>9, <1>10

LEMMA MakingNone == ASSUME NEW op PROVE Making(op, {}) = 0
<1>1. {l \in {} : op \in DOMAIN l.made} = {}
    OBVIOUS
<1>2. QED
    BY <1>1, SumEmpty DEF Making

(* Whole economic lots: no less than asked for, by less than one lot.      *)
LEMMA EcoLotCovers ==
    ASSUME NEW op \in Ops, NEW q \in Nat
    PROVE  /\ ApplyEcoLot(op, q) \in Nat /\ ApplyEcoLot(op, q) >= q
           /\ Eco[op] = 0 => ApplyEcoLot(op, q) = q
           /\ Eco[op] # 0 => ApplyEcoLot(op, q) < q + Eco[op]
<1>1. PICK e \in Nat : e = Eco[op]
    BY OperationTypes
<1>2. CASE e = 0 \/ q = 0
    BY <1>1, <1>2 DEF ApplyEcoLot
<1>3. CASE e # 0 /\ q # 0
  <2>1. PICK k \in Int, r \in Int :
          k = (q + e - 1) \div e /\ q + e - 1 = e * k + r /\ 0 <= r /\ r < e
    <3>1. q + e - 1 \in Nat /\ e \in Nat \ {0}
      BY <1>3
    <3>2. /\ (q + e - 1) \div e \in Int /\ (q + e - 1) % e \in 0..(e - 1)
          /\ q + e - 1 = e * ((q + e - 1) \div e) + ((q + e - 1) % e)
      BY <3>1
    <3>3. QED
      BY <3>2
  <2>2. ApplyEcoLot(op, q) = k * e
    BY <1>1, <1>3, <2>1 DEF ApplyEcoLot
  <2>3. PICK m \in Int : m = k * e /\ m = e * k
    OBVIOUS
  <2>4. m >= q /\ m < q + e
    BY <2>1, <2>3
  <2>5. QED
    BY <1>1, <1>3, <2>2, <2>3, <2>4
<1>4. QED
    BY <1>2, <1>3

(* A sum in which one summand changes.                                     *)
LEMMA SumWithout ==
    ASSUME NEW T, IsFiniteSet(T), NEW f, NEW g, NEW e \in T,
           \A x \in T : f[x] \in Int /\ g[x] \in Int, \A x \in T \ {e} : f[x] = g[x]
    PROVE  SumOver(g, T) = SumOver(f, T) - f[e] + g[e]
<1>1. PICK U : U = T \ {e}
    OBVIOUS
<1>2. IsFiniteSet(U) /\ \A x \in U : f[x] = g[x] /\ f[x] \in Int
    BY <1>1, FS_Subset
<1>3. SumOver(f, U) = SumOver(g, U) /\ SumOver(f, U) \in Int
    BY <1>2, SumSame, SumType
<1>4. SumOver(f, T) = f[e] + SumOver(f, T \ {e}) /\ SumOver(g, T) = g[e] + SumOver(g, T \ {e})
    BY SumRemove
<1>5. PICK a \in Int, b \in Int, c \in Int : a = f[e] /\ b = g[e] /\ c = SumOver(f, U)
    BY <1>3
<1>6. SumOver(f, T) = a + c /\ SumOver(g, T) = b + c
    BY <1>1, <1>3, <1>4, <1>5
<1>7. QED
    BY <1>5, <1>6

-----------------------------------------------------------------------------
(* The oldest demand takes the output of a cycle first, and no more than   *)
(* the output is taken.                                                    *)
LEMMA ConsumedIs ==
    ASSUME NEW op, open[op] \in [Days -> Nat], NEW qty \in Nat
    PROVE  /\ Consumed(op, qty) \in [Days -> Nat]
           /\ \A d \in Days : /\ Consumed(op, qty)[d] <= open[op][d]
                              /\ SumOver(open[op], 0..d) - SumOver(Consumed(op, qty), 0..d)
                                   <= qty
<1> DEFINE f == open[op]
           c == Consumed(op, qty)
           ahead(d) == SumOver(f, 0..(d - 1))
           left(d) == SumOver(c, 0..(d - 1))
<1>0. Days = 0..(Horizon - 1) /\ Horizon \in Nat /\ Days \subseteq Nat
    BY OperationTypes DEF Days
<1>1. ASSUME NEW d \in Nat, d - 1 \in Days \/ d = 0 PROVE ahead(d) \in Nat
  <2>1. \A x \in 0..(d - 1) : x \in Days
    BY <1>0, <1>1
  <2>2. IsFiniteSet(0..(d - 1)) /\ \A x \in 0..(d - 1) : f[x] \in Nat
    BY <2>1, FS_Interval
  <2>3. QED
    BY <2>2, SumIsNat
<1>2. ASSUME NEW d \in Days
      PROVE  /\ c[d] = f[d] - Least(f[d], PosPart(qty - ahead(d)))
             /\ c[d] \in Nat /\ c[d] <= f[d] /\ f[d] \in Nat /\ ahead(d) \in Nat
  <2>1. PICK a \in Nat, n \in Nat : a = ahead(d) /\ n = f[d]
    <3>1. d \in Nat /\ (d - 1 \in Days \/ d = 0)
      BY <1>0
    <3>2. QED
      BY <1>1, <3>1
  <2>2. c[d] = n - Least(n, PosPart(qty - a))
    BY <2>1 DEF Consumed
  <2>3. QED
    BY <2>1, <2>2 DEF Least, PosPart
<1>3. c \in [Days -> Nat]
  <2>1. c = [d \in Days |-> c[d]]
    BY DEF Consumed
  <2> HIDE DEF c
  <2>2. QED
    BY <1>2, <2>1
<1> DEFINE Taken(n) == ahead(n) - left(n) = Least(ahead(n), qty) /\ left(n) \in Int /\ ahead(n) \in Int
           N == {n \in Nat : n \in 0..Horizon => Taken(n)}
<1> HIDE DEF c, f
<1>4. 0 \in N
  <2>1. 0..(0 - 1) = {}
    OBVIOUS
  <2>2. ahead(0) = 0 /\ left(0) = 0
    BY <2>1, SumEmpty
  <2>3. QED
    BY <2>2 DEF Least
<1>5. ASSUME NEW n \in N PROVE n + 1 \in N
  <2>1. SUFFICES ASSUME n \in Days PROVE Taken(n + 1)
    BY <1>0
  <2>2. Taken(n)
    BY <1>0, <2>1
  <2>3. \A x \in 0..n : f[x] \in Int /\ c[x] \in Int
    <3>1. \A x \in 0..n : x \in Days
      BY <1>0, <2>1
    <3>2. \A x \in Days : f[x] \in Int /\ c[x] \in Int
      BY <1>2
    <3>3. QED
      BY <3>1, <3>2
  <2>4. (n + 1) - 1 = n
    OBVIOUS
  <2>5. ahead(n + 1) = ahead(n) + f[n] /\ left(n + 1) = left(n) + c[n]
    BY <2>3, <2>4, SumNext
  <2>6. PICK a \in Nat, l \in Int, u \in Nat, v \in Nat :
          a = ahead(n) /\ l = left(n) /\ u = f[n] /\ v = c[n]
    BY <1>2, <2>1, <2>2
  <2>7. a - l = Least(a, qty) /\ v = u - Least(u, PosPart(qty - a))
    BY <1>2, <2>1, <2>2, <2>6
  <2>8. (a + u) - (l + v) = Least(a + u, qty)
    BY <2>7 DEF Least, PosPart
  <2>9. ahead(n + 1) = a + u /\ left(n + 1) = l + v
    BY <2>5, <2>6
  <2> HIDE DEF ahead, left
  <2>10. QED
    BY <2>8, <2>9
<1>6. N = Nat
  <2>1. N \subseteq Nat
    OBVIOUS
  <2> HIDE DEF N
  <2>2. QED
    BY <1>4, <1>5, <2>1, NatInd
<1>7. ASSUME NEW d \in Days PROVE SumOver(f, 0..d) - SumOver(c, 0..d) <= qty
  <2>1. d + 1 \in 0..Horizon /\ d + 1 \in Nat /\ (d + 1) - 1 = d
    BY <1>0
  <2>2. Taken(d + 1)
    BY <1>6, <2>1
  <2>3. ahead(d + 1) = SumOver(f, 0..d) /\ left(d + 1) = SumOver(c, 0..d)
    BY <2>1
  <2>4. QED
    BY <2>2, <2>3 DEF Least
<1>8. QED
    BY <1>2, <1>3, <1>7 DEF f, c

-----------------------------------------------------------------------------
(* The invariant.                                                          *)

(* What the planner does once the lots are sized; the phases that follow   *)
(* never come back.                                                        *)
Later == stage \notin {"orders", "sizing"} /\ stage' \notin {"orders", "sizing", "sized"}

(* The sizing as the planner runs it.                                      *)
SizingSpec == SizingInit /\ [][SizingNext \/ Later]_<<stage, sizingVars>>

(* The types of the state.                                                 *)
SizingTypes ==
    /\ OrdersOk
    /\ open \in [Ops -> [Days -> Nat]]
    /\ surplus \in [Solos -> Nat]
    /\ Lots(lots)
    /\ \A l \in lots : /\ l.n \in Nat /\ l.n <= Cardinality(lots) /\ l.edd \in Int

(* No demand is open that the supplies cover.                              *)
OpenIsUncovered == \A op \in Ops : \A d \in Days : open[op][d] <= Uncovered(op)[d]

(* What is not open any more is made by lots that are due in time.         *)
CoveredInTime ==
    \A op \in Ops, d \in Days :
      SumOver(Uncovered(op), 0..d) <= Making(op, DueBy(lots, op, d)) + SumOver(open[op], 0..d)

(* What a solo operation makes is what was covered, and its surplus.       *)
Balanced ==
    \A op \in Solos :
      Making(op, lots) + SumOver(open[op], Days) = SumOver(Uncovered(op), Days) + surplus[op]

(* More than what one lot of an operation makes beyond its demand.         *)
Excess(op) == Max({ApplyEcoLot(op, Campaign[op]), Eco[op], 1})

(* The surplus beyond the demand still open is less than a campaign.       *)
SurplusIsUsed == \A op \in Solos : surplus[op] - SumOver(open[op], Days) < Excess(op)

(* A solo operation is made in the order of its days.                      *)
EarlierFirst ==
    \A op \in Solos, l \in lots, d \in Days :
      op \in DOMAIN l.made /\ open[op][d] > 0 => l.edd <= ProductionDue(op, d)

(* The inductive invariant while the lots are sized,                       *)
Sizing == SizingTypes /\ OpenIsUncovered /\ CoveredInTime /\ Balanced /\ SurplusIsUsed /\ EarlierFirst

(* and before and after.                                                   *)
SizingInv ==
    /\ stage = "orders" => OrdersOk /\ lots = {} /\ surplus = [op \in Solos |-> 0]
    /\ stage \in {"sizing", "sized"} => Sizing
    /\ stage = "sized" => \A op \in Ops, d \in Days : open[op][d] = 0

(* Sums over days.                                                         *)
LEMMA SumsOfDays ==
    ASSUME NEW f, f \in [Days -> Nat], NEW d \in Days
    PROVE  /\ IsFiniteSet(0..d) /\ 0..d \subseteq Days
           /\ SumOver(f, 0..d) \in Nat /\ SumOver(f, Days) \in Nat
           /\ SumOver(f, 0..d) <= SumOver(f, Days)
<1>1. IsFiniteSet(0..d) /\ 0..d \subseteq Days /\ IsFiniteSet(Days)
    BY FS_Interval, OperationTypes DEF Days
<1>2. PICK T \in SUBSET Days : T = 0..d
    BY <1>1
<1>3. (\A x \in Days : f[x] \in Nat) /\ \A x \in T : f[x] \in Nat
    OBVIOUS
<1>4. SumOver(f, T) \in Nat /\ SumOver(f, Days) \in Nat /\ SumOver(f, T) <= SumOver(f, Days)
    BY <1>1, <1>2, <1>3, SumIsNat, SumOfPart
<1>5. QED
    BY <1>1, <1>2, <1>4

(* The bound of the surplus.                                               *)
LEMMA ExcessIs ==
    ASSUME NEW op \in Solos
    PROVE  /\ Excess(op) \in Nat /\ Excess(op) >= 1 /\ Excess(op) >= Eco[op]
           /\ Excess(op) >= ApplyEcoLot(op, Campaign[op])
<1>1. op \in Ops /\ Campaign[op] \in Nat /\ Eco[op] \in Nat
    BY OperationTypes
<1>2. PICK a \in Nat, b \in Nat : a = ApplyEcoLot(op, Campaign[op]) /\ b = Eco[op]
    BY <1>1, EcoLotCovers
<1>3. IsFiniteSet({a}) /\ IsFiniteSet({b}) /\ IsFiniteSet({1}) /\ {a, b, 1} = ({a} \cup {b}) \cup {1}
    BY FS_Singleton
<1>4. IsFiniteSet({a, b, 1})
  <2>1. PICK T : T = {a} \cup {b}
    OBVIOUS
  <2>2. IsFiniteSet(T)
    BY <1>3, <2>1, FS_Union
  <2>3. IsFiniteSet(T \cup {1})
    BY <1>3, <2>2, FS_Union
  <2>4. QED
    BY <1>3, <2>1, <2>3
<1>5. Max({a, b, 1}) \in {a, b, 1} /\ \A y \in {a, b, 1} : Max({a, b, 1}) >= y
    BY <1>4, MaxIs
<1>6. QED
    BY <1>2, <1>5 DEF Excess

(* Nothing but orders and supply enters what is uncovered.                 *)
LEMMA OrdersStay ==
    ASSUME OrdersOk, UNCHANGED <<demand, supply>>
    PROVE  OrdersOk' /\ \A op \in Ops : Uncovered(op)' = Uncovered(op)
<1>1. OrdersOk'
    BY DEF OrdersOk
<1>2. QED
    BY <1>1 DEF Uncovered, Left, Arriving

-----------------------------------------------------------------------------
(* The steps.                                                              *)

(* The invariant holds when nothing is sized yet,                          *)
LEMMA SizingInitially == ASSUME SizingInit PROVE SizingInv
<1>1. ASSUME NEW book \in Books, NEW op \in Ops, NEW d \in Days
      PROVE  Ordered(book)[op][d] \in Nat
  <2>1. PICK S : book \in [S -> Quantities]
    BY DEF Books
  <2>2. Quantities \subseteq Nat
    BY SizingAssumption
  <2>3. <<op, d>> \in DOMAIN book => book[<<op, d>>] \in Nat
    BY <2>1, <2>2
  <2>4. QED
    BY <2>3 DEF Ordered
<1>2. demand \in [Ops -> [Days -> Nat]]
  <2>1. PICK book \in Books : demand = Ordered(book)
    BY DEF SizingInit
  <2>2. demand = [op \in Ops |-> [d \in Days |-> Ordered(book)[op][d]]]
    BY <2>1 DEF Ordered
  <2>3. QED
    BY <1>1, <2>2
<1>3. IsFiniteSet(supply) /\ supply \subseteq Supplies
  <2>1. PICK s \in Supplies : supply \in {{}, {s}}
    BY DEF SizingInit
  <2>2. CASE supply = {}
    BY <2>2, FS_EmptySet
  <2>3. CASE supply = {s}
    BY <2>3, FS_Singleton
  <2>4. QED
    BY <2>1, <2>2, <2>3
<1>4. \A s \in supply : s.op \in Ops /\ s.day \in Days /\ s.qty \in Nat
    BY <1>3, SizingAssumption
<1>5. QED
    BY <1>2, <1>3, <1>4 DEF SizingInit, SizingInv, OrdersOk

(* and once the supply is taken off.                                       *)
LEMMA OffsetSupplyStep ==
    ASSUME OrdersOk, lots = {}, surplus = [op \in Solos |-> 0], OffsetSupply
    PROVE  Sizing'
<1>1. OrdersOk' /\ \A op \in Ops : Uncovered(op)' = Uncovered(op)
    BY OrdersStay DEF OffsetSupply
<1>2. \A op \in Ops : Uncovered(op) \in [Days -> Nat]
    BY UncoveredIs
<1>3. open' = [op \in Ops |-> Uncovered(op)] /\ lots' = {} /\ surplus' = [op \in Solos |-> 0]
    BY DEF OffsetSupply
<1>4. SizingTypes'
  <2>1. Lots(lots')
    BY <1>3, FS_EmptySet DEF Lots
  <2>2. open' \in [Ops -> [Days -> Nat]] /\ surplus' \in [Solos -> Nat]
    BY <1>2, <1>3
  <2>3. QED
    BY <1>1, <1>3, <2>1, <2>2 DEF SizingTypes
<1>5. OpenIsUncovered'
    BY <1>1, <1>2, <1>3 DEF OpenIsUncovered
<1>6. CoveredInTime'
  <2>1. SUFFICES ASSUME NEW op \in Ops, NEW d \in Days
                 PROVE  SumOver(Uncovered(op), 0..d)
                          <= Making(op, DueBy({}, op, d)) + SumOver(Uncovered(op), 0..d)
    BY <1>1, <1>3 DEF CoveredInTime
  <2>2. DueBy({}, op, d) = {}
    BY DEF DueBy
  <2>3. SumOver(Uncovered(op), 0..d) \in Nat
    BY <1>2, SumsOfDays
  <2>4. Making(op, DueBy({}, op, d)) = 0
    BY <2>2, MakingNone
  <2>5. QED
    BY <2>3, <2>4
<1>7. Balanced' /\ SurplusIsUsed'
  <2>1. SUFFICES ASSUME NEW op \in Solos
                 PROVE  /\ Making(op, {}) + SumOver(Uncovered(op), Days) = SumOver(Uncovered(op), Days) + 0
                        /\ 0 - SumOver(Uncovered(op), Days) < Excess(op)
    BY <1>1, <1>3, OperationTypes DEF Balanced, SurplusIsUsed, Excess
  <2>2. 0 \in Days /\ op \in Ops
    BY SizingAssumption DEF Days, Ops
  <2>3. SumOver(Uncovered(op), Days) \in Nat
    BY <1>2, <2>2, SumsOfDays
  <2>4. QED
    BY <2>3, MakingNone, ExcessIs
<1>8. EarlierFirst'
    BY <1>3 DEF EarlierFirst
<1>9. QED
    BY <1>4, <1>5, <1>6, <1>7, <1>8 DEF Sizing

-----------------------------------------------------------------------------
(* The larger and the smaller of two numbers.                              *)
LEMMA ExtremesOfTwo ==
    ASSUME NEW a \in Int, NEW b \in Int
    PROVE  /\ Max({a, b}) \in {a, b} /\ Max({a, b}) >= a /\ Max({a, b}) >= b
           /\ Min({a, b}) \in {a, b} /\ Min({a, b}) <= a /\ Min({a, b}) <= b
<1>1. IsFiniteSet({a}) /\ IsFiniteSet({b}) /\ {a, b} = {a} \cup {b}
    BY FS_Singleton
<1>2. IsFiniteSet({a, b})
    BY <1>1, FS_Union
<1>3. PICK S : S = {a, b}
    OBVIOUS
<1>4. IsFiniteSet(S) /\ S \subseteq Int /\ S # {}
    BY <1>2, <1>3
<1>5. Max(S) \in S /\ (\A y \in S : Max(S) >= y) /\ Min(S) \in S /\ \A y \in S : Min(S) <= y
    BY <1>4, MaxIs, MinIs
<1>6. QED
    BY <1>3, <1>5

(* The open demand of the twins.                                           *)
LEMMA PendingIsFinite == IsFiniteSet(Pending)
<1>1. IsFiniteSet(Pair \X Days)
    BY OperationTypes, FS_Product
<1>2. Pending \subseteq Pair \X Days
    BY DEF Pending
<1>3. QED
    BY <1>1, <1>2, FS_Subset

LEMMA PendingIs ==
    ASSUME NEW e \in Pending
    PROVE  /\ e = <<e[1], e[2]>> /\ e[1] \in Pair /\ e[1] \in Ops /\ e[1] \in Int
           /\ e[2] \in Days /\ e[2] \in Int
           /\ open[e[1]][e[2]] > 0 /\ ProductionDue(e[1], e[2]) \in Int /\ Priority[e[1]] \in Int
<1>1. e \in Pair \X Days /\ open[e[1]][e[2]] > 0
    BY DEF Pending
<1>2. PICK op \in Pair, d \in Days : e = <<op, d>>
    BY <1>1
<1>3. op \in Ops /\ op \in Int /\ d \in Int /\ Priority[op] \in Int
    BY OperationTypes
<1>4. ProductionDue(op, d) \in Int
    BY <1>3, ProductionDueIsDay
<1>5. QED
    BY <1>1, <1>2, <1>3, <1>4

(* A cycle is made for the most urgent demand, and one of the other side.  *)
LEMMA ActiveIs ==
    ASSUME Pending # {}
    PROVE  Current \in Pending /\ \E p \in Pending : Active = {Current, p}
<1>1. Current \in Pending
    BY CurrentIsFirst, PendingIsFinite
<1> DEFINE near == {e \in Pending : e[1] # Current[1] /\ Distance(e) <= PairGap}
           key(e) == <<Distance(e)>> \o Urgency(e)
<1>2. CASE near = {}
  <2>1. Partners = {}
    BY <1>2 DEF Partners
  <2>2. QED
    BY <1>1, <2>1 DEF Active
<1>3. CASE near # {}
  <2>1. ASSUME NEW e \in near PROVE key(e) \in Keys(6) /\ key(e)[5] = e[2] /\ key(e)[6] = e[1]
    <3>1. e \in Pending
      OBVIOUS
    <3>2. Distance(e) \in Int
      BY <1>1, <3>1, PendingIs DEF Distance
    <3>3. PICK s, r : s = Urgency(e) /\ r = key(e) /\ r = <<Distance(e)>> \o s
      OBVIOUS
    <3>4. s \in Seq(Int) /\ Len(s) = 5 /\ s[4] = e[2] /\ s[5] = e[1]
      BY <3>1, <3>3, PendingIs DEF Urgency
    <3>5. <<Distance(e)>> \in Seq(Int) /\ Len(<<Distance(e)>>) = 1
      BY <3>2
    <3>6. r \in Seq(Int) /\ Len(r) = 6
      <4>1. PICK q \in Seq(Int) : q = <<Distance(e)>> /\ Len(q) = 1
        BY <3>5
      <4>2. q \o s \in Seq(Int) /\ Len(q \o s) = Len(q) + Len(s)
        BY <3>4, ConcatProperties
      <4>3. QED
        BY <3>3, <3>4, <4>1, <4>2
    <3>7. r[5] = s[4] /\ r[6] = s[5]
      BY <3>3, <3>4, <3>5
    <3>8. r \in [1..6 -> Int]
      BY <3>6, LenProperties
    <3>9. QED
      BY <3>3, <3>4, <3>7, <3>8 DEF Keys
  <2>2. ASSUME NEW e \in near, NEW x \in near, e # x PROVE key(e) # key(x)
    <3>1. e = <<e[1], e[2]>> /\ x = <<x[1], x[2]>>
      BY PendingIs
    <3> HIDE DEF key, near
    <3>2. QED
      BY <2>1, <2>2, <3>1
  <2> DEFINE K == [e \in near |-> key(e)]
  <2>3. IsFiniteSet(near)
    BY PendingIsFinite, FS_Subset
  <2>4. \E x \in near : \A y \in near \ {x} : Precedes(K[x], K[y])
    <3>1. /\ \A x \in near : K[x] \in Keys(6)
          /\ \A x, y \in near : x # y => K[x] # K[y]
      <4> HIDE DEF key, near
      <4>1. QED
        BY <2>1, <2>2
    <3> HIDE DEF K, near
    <3>2. PICK n \in Nat : n = 6
      OBVIOUS
    <3>3. QED
      BY <1>3, <2>3, <3>1, <3>2, FirstExists
  <2>5. \E x \in near : \A y \in near \ {x} : Precedes(key(x), key(y))
    <3> HIDE DEF key, near
    <3>1. QED
      BY <2>4
  <2>6. FirstBy(LAMBDA e : <<Distance(e)>> \o Urgency(e), near) \in near
    <3> HIDE DEF near
    <3>1. QED
      BY <2>5, Zenon DEF FirstBy
  <2>7. Partners = {FirstBy(LAMBDA e : <<Distance(e)>> \o Urgency(e), near)}
    BY <1>3, Zenon DEF Partners
  <2>8. PICK p \in Pending : Partners = {p}
    BY <2>6, <2>7
  <2>9. QED
    BY <1>1, <2>8 DEF Active
<1>4. QED
    BY <1>2, <1>3

(* What a cycle makes, and when it is due.                                 *)
LEMMA TwinLotIs ==
    ASSUME SizingTypes, Pending # {}
    PROVE  /\ CycleQty \in Nat
           /\ TwinLot.n = Cardinality(lots) + 1 /\ TwinLot.made = [op \in Pair |-> CycleQty]
           /\ TwinLot.edd \in Int
           /\ \A e \in Pending : TwinLot.edd <= ProductionDue(e[1], e[2])
<1>1. PICK p \in Pending : Active = {Current, p} /\ Current \in Pending
    BY ActiveIs
<1> DEFINE eco(e) == ApplyEcoLot(e[1], open[e[1]][e[2]])
           due(e) == ProductionDue(e[1], e[2])
<1>2. ASSUME NEW e \in Pending PROVE eco(e) \in Nat /\ due(e) \in Int
  <2>1. PICK op \in Ops, d \in Days : op = e[1] /\ d = e[2]
    BY PendingIs
  <2>2. open[op][d] \in Nat
    BY DEF SizingTypes
  <2>3. QED
    BY <2>1, <2>2, PendingIs, EcoLotCovers
<1>3. {eco(e) : e \in Active} = {eco(Current), eco(p)} /\ {due(e) : e \in Active} = {due(Current), due(p)}
    BY <1>1
<1>4. CycleQty = Max({eco(e) : e \in Active}) /\ TwinLot.edd = Min({due(e) : e \in Active})
    BY DEF CycleQty, TwinLot
<1>5. PICK a \in Nat, b \in Nat, x \in Int, y \in Int :
        a = eco(Current) /\ b = eco(p) /\ x = due(Current) /\ y = due(p)
    BY <1>1, <1>2
<1>6. CycleQty = Max({a, b}) /\ TwinLot.edd = Min({x, y})
    BY <1>3, <1>4, <1>5
<1>7. Max({a, b}) \in {a, b} /\ Min({x, y}) \in {x, y} /\ Min({x, y}) <= x
  <2>1. a \in Int /\ b \in Int
    OBVIOUS
  <2>2. Max({a, b}) \in {a, b}
    BY <2>1, ExtremesOfTwo
  <2>3. Min({x, y}) \in {x, y} /\ Min({x, y}) <= x
    BY ExtremesOfTwo
  <2>4. QED
    BY <2>2, <2>3
<1>8. \A e \in Pending : x <= due(e)
    BY <1>5, CurrentIsFirst, PendingIsFinite
<1>9. \A e \in Pending : TwinLot.edd <= due(e)
    BY <1>2, <1>6, <1>7, <1>8
<1>10. TwinLot.n = Cardinality(lots) + 1 /\ TwinLot.made = [op \in Pair |-> CycleQty]
    BY DEF TwinLot
<1>11. QED
    BY <1>6, <1>7, <1>9, <1>10

(* A new lot joins the others.                                             *)
LEMMA LotJoins ==
    ASSUME SizingTypes, NEW l, l.n = Cardinality(lots) + 1, l.edd \in Int,
           \A op \in DOMAIN l.made : l.made[op] \in Nat
    PROVE  /\ l \notin lots /\ Lots(lots \cup {l})
           /\ \A k \in lots \cup {l} : k.n \in Nat /\ k.n <= Cardinality(lots \cup {l}) /\ k.edd \in Int
<1>1. IsFiniteSet(lots) /\ \A k \in lots : k.n \in Nat /\ k.n <= Cardinality(lots) /\ k.edd \in Int
    BY DEF SizingTypes, Lots
<1>2. Cardinality(lots) \in Nat
    BY <1>1, FS_CardinalityType
<1>3. l \notin lots
    BY <1>1, <1>2
<1>4. IsFiniteSet(lots \cup {l}) /\ Cardinality(lots \cup {l}) = Cardinality(lots) + 1
    BY <1>1, <1>3, FS_AddElement
<1>5. Lots(lots \cup {l})
    BY <1>4 DEF SizingTypes, Lots
<1>6. QED
    BY <1>1, <1>2, <1>3, <1>4, <1>5

(* A lot adds to what is due if it is due itself.                          *)
LEMMA DueByJoined ==
    ASSUME SizingTypes, NEW l, l \notin lots, Lots(lots \cup {l}), NEW op, NEW d
    PROVE  /\ Making(op, DueBy(lots, op, d)) \in Nat
           /\ Making(op, DueBy(lots \cup {l}, op, d)) >= Making(op, DueBy(lots, op, d))
           /\ l.edd <= ProductionDue(op, d) =>
                Making(op, DueBy(lots \cup {l}, op, d)) = Making(op, DueBy(lots, op, d)) + MadeOf(op, l)
<1>1. PICK D, E : D = DueBy(lots, op, d) /\ E = DueBy(lots \cup {l}, op, d)
    OBVIOUS
<1>2. D \in SUBSET E /\ E \in SUBSET (lots \cup {l}) /\ D \in SUBSET lots /\ l \notin D
    BY <1>1 DEF DueBy
<1>3. Lots(D) /\ Lots(E)
    BY <1>2, FS_Subset DEF Lots
<1>4. Making(op, D) \in Nat /\ Making(op, D) <= Making(op, E) /\ Making(op, E) \in Nat
    BY <1>2, <1>3, MakingPart, MakingIsNat
<1>5. CASE l.edd <= ProductionDue(op, d)
  <2>1. E = D \cup {l}
    BY <1>1, <1>5 DEF DueBy
  <2>2. Making(op, D \cup {l}) = Making(op, D) + MadeOf(op, l)
    BY <1>2, <1>3, <2>1, MakingAdd
  <2>3. QED
    BY <1>1, <1>4, <2>1, <2>2
<1>6. CASE ~(l.edd <= ProductionDue(op, d))
    BY <1>1, <1>4, <1>6
<1>7. QED
    BY <1>5, <1>6

-----------------------------------------------------------------------------
(* The lot of a cycle is one more lot.                                     *)
LEMMA CycleLotJoins ==
    ASSUME SizingTypes, Pending # {}
    PROVE  /\ TwinLot \notin lots /\ Lots(lots \cup {TwinLot})
           /\ \A k \in lots \cup {TwinLot} :
                k.n \in Nat /\ k.n <= Cardinality(lots \cup {TwinLot}) /\ k.edd \in Int
           /\ \A op : MadeOf(op, TwinLot) = IF op \in Pair THEN CycleQty ELSE 0
<1>1. PICK l : l = TwinLot
    OBVIOUS
<1>2. /\ CycleQty \in Nat /\ l.n = Cardinality(lots) + 1 /\ l.edd \in Int
      /\ l.made = [op \in Pair |-> CycleQty]
    BY <1>1, TwinLotIs
<1>3. \A op \in DOMAIN l.made : l.made[op] \in Nat
    BY <1>2
<1>4. \A op : MadeOf(op, l) = IF op \in Pair THEN CycleQty ELSE 0
    BY <1>2 DEF MadeOf
<1>5. /\ l \notin lots /\ Lots(lots \cup {l})
      /\ \A k \in lots \cup {l} : k.n \in Nat /\ k.n <= Cardinality(lots \cup {l}) /\ k.edd \in Int
    BY <1>2, <1>3, LotJoins
<1>6. QED
    BY <1>1, <1>4, <1>5

(* A twin cycle keeps the invariant.                                       *)
LEMMA TwinCycleStep == ASSUME Sizing, TwinCycle PROVE Sizing'
<1>1. SizingTypes /\ Pending # {} /\ open' = AfterCycle /\ lots' = lots \cup {TwinLot} /\ surplus' = surplus
    BY DEF Sizing, TwinCycle
<1>2. OrdersOk' /\ \A op \in Ops : Uncovered(op)' = Uncovered(op)
    BY <1>1, OrdersStay DEF TwinCycle, SizingTypes
<1>3. \A op \in Ops : Uncovered(op) \in [Days -> Nat] /\ open[op] \in [Days -> Nat]
    BY <1>1, UncoveredIs DEF SizingTypes
<1>4. /\ CycleQty \in Nat /\ TwinLot \notin lots /\ Lots(lots \cup {TwinLot})
      /\ \A k \in lots \cup {TwinLot} :
           k.n \in Nat /\ k.n <= Cardinality(lots \cup {TwinLot}) /\ k.edd \in Int
      /\ \A op : MadeOf(op, TwinLot) = IF op \in Pair THEN CycleQty ELSE 0
    BY <1>1, TwinLotIs, CycleLotJoins
<1>5. \A op \in Ops : open'[op] = IF op \in Pair THEN Consumed(op, CycleQty) ELSE open[op]
    BY <1>1 DEF AfterCycle
<1>6. \A op \in Ops : open'[op] \in [Days -> Nat] /\ \A d \in Days : open'[op][d] <= open[op][d]
  <2>1. SUFFICES ASSUME NEW op \in Ops
                 PROVE  open'[op] \in [Days -> Nat] /\ \A d \in Days : open'[op][d] <= open[op][d]
    OBVIOUS
  <2>2. CASE op \in Pair
    BY <1>3, <1>4, <1>5, <2>2, ConsumedIs
  <2>3. CASE op \notin Pair
    BY <1>3, <1>5, <2>3
  <2>4. QED
    BY <2>2, <2>3
<1>7. SizingTypes'
  <2>1. open' = [op \in Ops |-> open'[op]]
    BY <1>1 DEF AfterCycle
  <2>2. open' \in [Ops -> [Days -> Nat]]
    BY <1>6, <2>1
  <2>3. QED
    BY <1>1, <1>2, <1>4, <2>2 DEF SizingTypes
<1>8. OpenIsUncovered'
  <2>1. SUFFICES ASSUME NEW op \in Ops, NEW d \in Days PROVE open'[op][d] <= Uncovered(op)[d]
    BY <1>2 DEF OpenIsUncovered
  <2>2. open[op][d] <= Uncovered(op)[d]
    BY DEF Sizing, OpenIsUncovered
  <2>3. PICK a \in Nat, b \in Nat, c \in Nat : a = open'[op][d] /\ b = open[op][d] /\ c = Uncovered(op)[d]
    BY <1>3, <1>6
  <2>4. QED
    BY <1>6, <2>2, <2>3
<1>9. CoveredInTime'
  <2>1. SUFFICES ASSUME NEW op \in Ops, NEW d \in Days
                 PROVE  SumOver(Uncovered(op), 0..d)
                          <= Making(op, DueBy(lots \cup {TwinLot}, op, d)) + SumOver(open'[op], 0..d)
    BY <1>1, <1>2 DEF CoveredInTime
  <2>2. SumOver(Uncovered(op), 0..d) <= Making(op, DueBy(lots, op, d)) + SumOver(open[op], 0..d)
    BY DEF Sizing, CoveredInTime
  <2>3. PICK u \in Nat, a \in Nat, b \in Nat :
          u = SumOver(Uncovered(op), 0..d) /\ a = SumOver(open[op], 0..d) /\ b = SumOver(open'[op], 0..d)
    BY <1>3, <1>6, SumsOfDays
  <2>4. PICK l : l = TwinLot /\ l \notin lots /\ Lots(lots \cup {l})
    BY <1>4
  <2>5. /\ Making(op, DueBy(lots, op, d)) \in Nat
        /\ Making(op, DueBy(lots \cup {l}, op, d)) >= Making(op, DueBy(lots, op, d))
        /\ l.edd <= ProductionDue(op, d) =>
             Making(op, DueBy(lots \cup {l}, op, d)) = Making(op, DueBy(lots, op, d)) + MadeOf(op, l)
    BY <1>1, <2>4, DueByJoined
  <2>6. PICK m \in Nat : m = Making(op, DueBy(lots, op, d))
    BY <2>5
  <2>7. Making(op, DueBy(lots \cup {l}, op, d)) \in Int
    <3>1. Lots(DueBy(lots \cup {l}, op, d))
      BY <2>4, FS_Subset DEF Lots, DueBy
    <3>2. QED
      BY <3>1, MakingIsNat
  <2>8. PICK n \in Int : n = Making(op, DueBy(lots \cup {l}, op, d))
    BY <2>7
  <2>9. n >= m /\ u <= m + a /\ (l.edd <= ProductionDue(op, d) => n = m + MadeOf(op, l))
    BY <2>2, <2>3, <2>5, <2>6, <2>8
  <2>10. CASE op \notin Pair
    BY <1>5, <2>3, <2>4, <2>8, <2>9, <2>10
  <2>11. CASE op \in Pair /\ l.edd <= ProductionDue(op, d)
    <3>1. a - b <= CycleQty
      BY <1>3, <1>4, <1>5, <2>3, <2>11, ConsumedIs
    <3>2. n = m + CycleQty
      BY <1>4, <2>4, <2>9, <2>11
    <3>3. QED
      BY <1>4, <2>3, <2>4, <2>8, <2>9, <3>1, <3>2
  <2>12. CASE op \in Pair /\ ~(l.edd <= ProductionDue(op, d))
    <3>1. \A x \in 0..d : x \in Days /\ x \in Int /\ x <= d /\ d \in Int
      BY SumsOfDays, OperationTypes DEF Days
    <3>2. ASSUME NEW x \in 0..d PROVE open[op][x] = 0
      <4>1. SUFFICES ASSUME open[op][x] # 0 PROVE FALSE
        OBVIOUS
      <4>2. open[op][x] > 0
        BY <1>3, <3>1, <4>1
      <4>3. PICK e : e = <<op, x>> /\ e \in Pending /\ e[1] = op /\ e[2] = x
        <5>1. PICK e : e = <<op, x>>
          OBVIOUS
        <5>2. e \in Pair \X Days /\ e[1] = op /\ e[2] = x
          BY <2>12, <3>1, <5>1
        <5>3. e \in Pending
          BY <4>2, <5>2 DEF Pending
        <5>4. QED
          BY <5>1, <5>2, <5>3
      <4>4. l.edd \in Int /\ l.edd <= ProductionDue(op, x)
        BY <1>1, <2>4, <4>3, TwinLotIs
      <4>5. ProductionDue(op, x) <= ProductionDue(op, d)
        BY <3>1, ProductionDueMonotone
      <4>6. ProductionDue(op, x) \in Int /\ ProductionDue(op, d) \in Int
        BY <3>1, ProductionDueIsDay
      <4>7. QED
        BY <2>12, <4>4, <4>5, <4>6
    <3>3. a = 0
      BY <2>3, <3>2, SumsOfDays, SumZero, <1>3
    <3>4. QED
      BY <2>3, <2>4, <2>8, <2>9, <3>3
  <2>13. QED
    BY <2>10, <2>11, <2>12
<1>10. \A op \in Solos : op \in Ops /\ op \notin Pair /\ open'[op] = open[op]
    BY <1>5, OperationTypes
<1>11. \A op \in Solos : Making(op, lots') = Making(op, lots)
  <2>1. SUFFICES ASSUME NEW op \in Solos PROVE Making(op, lots \cup {TwinLot}) = Making(op, lots)
    BY <1>1
  <2>2. PICK l : l = TwinLot /\ l \notin lots /\ Lots(lots \cup {l})
    BY <1>4
  <2>3. MadeOf(op, l) = 0
    BY <1>4, <1>10, <2>2
  <2>4. Making(op, lots \cup {l}) = Making(op, lots) + MadeOf(op, l)
    BY <2>2, MakingAdd
  <2>5. Making(op, lots) \in Nat
    BY <1>1, MakingIsNat DEF SizingTypes
  <2>6. QED
    BY <2>2, <2>3, <2>4, <2>5
<1>12. Balanced' /\ SurplusIsUsed'
    BY <1>1, <1>2, <1>10, <1>11 DEF Sizing, Balanced, SurplusIsUsed, Excess
<1>13. EarlierFirst'
  <2>1. \A op \in Solos : op \notin DOMAIN TwinLot.made
    BY <1>1, <1>10, TwinLotIs
  <2>2. QED
    BY <1>1, <1>10, <2>1 DEF Sizing, EarlierFirst
<1>14. QED
    BY <1>7, <1>8, <1>9, <1>12, <1>13 DEF Sizing

-----------------------------------------------------------------------------
(* Of one operation the days are taken in their order.                     *)
LEMMA NextSoloIsFirst ==
    ASSUME open \in [Ops -> [Days -> Nat]], NEW op \in Solos, NEW day \in Days,
           open[op][day] > 0, NextSolo = <<op, day>>
    PROVE  \A d \in Days : open[op][d] > 0 => day <= d
<1> DEFINE S == {e \in Solos \X Days : open[e[1]][e[2]] > 0}
           K == [e \in S |-> e]
<1>1. IsFiniteSet(S)
  <2>1. IsFiniteSet(Solos)
    BY OperationTypes, FS_Subset
  <2>2. IsFiniteSet(Solos \X Days)
    BY <2>1, OperationTypes, FS_Product
  <2>3. QED
    BY <2>2, FS_Subset
<1>2. \A e \in S : e \in Keys(2)
  <2>1. SUFFICES ASSUME NEW e \in S PROVE e \in Keys(2)
    OBVIOUS
  <2>2. PICK o \in Solos, d \in Days : e = <<o, d>>
    OBVIOUS
  <2>3. o \in Int /\ d \in Int
    BY OperationTypes
  <2>4. QED
    BY <2>2, <2>3 DEF Keys
<1>3. ASSUME NEW d \in Days, open[op][d] > 0 PROVE <<op, d>> \in S
  <2>1. PICK e : e = <<op, d>>
    OBVIOUS
  <2>2. e \in Solos \X Days /\ e[1] = op /\ e[2] = d
    BY <2>1
  <2>3. e \in S
    BY <1>3, <2>2
  <2>4. QED
    BY <2>1, <2>3
<1> DEFINE first(x) == \A y \in S \ {x} : Precedes(x, y)
<1>4. \E x \in S : first(x)
  <2>1. S # {}
    BY <1>3
  <2>2. (\A x \in S : K[x] = x) /\ (\A x \in S : K[x] \in Keys(2)) /\ \A x, y \in S : x # y => K[x] # K[y]
    BY <1>2
  <2> HIDE DEF S, K
  <2>3. PICK n \in Nat : n = 2
    OBVIOUS
  <2>4. \E x \in S : \A y \in S \ {x} : Precedes(K[x], K[y])
    BY <1>1, <2>1, <2>2, <2>3, FirstExists
  <2>5. QED
    BY <2>2, <2>4
<1>5. NextSolo = CHOOSE x \in S : first(x)
    BY Zenon DEF NextSolo, FirstBy
<1>6. first(<<op, day>>)
  <2> HIDE DEF first, S
  <2>1. QED
    BY <1>4, <1>5, Zenon
<1>7. ASSUME NEW d \in Days, open[op][d] > 0 PROVE day <= d
  <2>1. CASE d = day
    BY <2>1, OperationTypes
  <2>2. CASE d # day
    <3>1. PICK s, t : s = <<op, day>> /\ t = <<op, d>>
      OBVIOUS
    <3>2. t \in S /\ s # t
      BY <1>3, <1>7, <2>2, <3>1
    <3>3. Precedes(s, t)
      BY <1>6, <3>1, <3>2
    <3>4. op \in Int /\ day \in Int /\ d \in Int
      BY OperationTypes
    <3>5. PICK i \in DOMAIN s : s[i] < t[i] /\ \A j \in 1..(i - 1) : s[j] = t[j]
      BY <3>3 DEF Precedes
    <3>6. i \in {1, 2} /\ s[1] = op /\ t[1] = op /\ s[2] = day /\ t[2] = d
      BY <3>1
    <3>7. i = 2
      BY <3>4, <3>5, <3>6
    <3>8. QED
      BY <3>4, <3>5, <3>6, <3>7
  <2>3. QED
    BY <2>1, <2>2
<1>8. QED
    BY <1>7

(* What a campaign asks for: the deficit with the demand of its window, or *)
(* the least campaign.                                                     *)
LEMMA RequestedIs ==
    ASSUME open \in [Ops -> [Days -> Nat]], NEW op \in Solos, NEW day \in Days, NEW deficit \in Nat
    PROVE  /\ Requested(op, day, deficit) \in Nat /\ Requested(op, day, deficit) >= deficit
           /\ \/ Requested(op, day, deficit) = Campaign[op]
              \/ Requested(op, day, deficit) <= deficit + SumOver(open[op], Days) - open[op][day]
<1>1. op \in Ops /\ Campaign[op] \in Nat /\ Window[op] \in Nat /\ Days = 0..(Horizon - 1) /\ Horizon \in Nat
    BY OperationTypes DEF Days
<1>2. PICK W : W = (day + 1)..Least(day + Window[op], Horizon - 1)
    OBVIOUS
<1>3. Least(day + Window[op], Horizon - 1) \in Int /\ Least(day + Window[op], Horizon - 1) <= Horizon - 1
    BY <1>1 DEF Least
<1>4. W \subseteq Days /\ day \notin W
    BY <1>1, <1>2, <1>3
<1>5. IsFiniteSet(Days) /\ IsFiniteSet(W) /\ \A d \in Days : open[op][d] \in Nat /\ open[op][d] \in Int
  <2>1. IsFiniteSet(Days) /\ open[op] \in [Days -> Nat]
    BY <1>1, OperationTypes
  <2>2. IsFiniteSet(W)
    BY <1>4, <2>1, FS_Subset
  <2>3. QED
    BY <2>1, <2>2
<1>6. PICK R \in SUBSET Days : R = Days \ {day}
    OBVIOUS
<1>7. IsFiniteSet(R) /\ W \in SUBSET R /\ \A d \in R : open[op][d] \in Nat
    BY <1>4, <1>5, <1>6, FS_Subset
<1>8. SumOver(open[op], W) \in Nat /\ SumOver(open[op], R) \in Nat /\ SumOver(open[op], W) <= SumOver(open[op], R)
    BY <1>5, <1>7, SumIsNat, SumOfPart
<1>9. SumOver(open[op], Days) = open[op][day] + SumOver(open[op], R)
    BY <1>5, <1>6, SumRemove
<1>10. PICK w \in Nat, c \in Nat : w = SumOver(open[op], W) /\ c = Campaign[op]
    BY <1>1, <1>8
<1>11. Requested(op, day, deficit) = Max({deficit + w, c})
    BY <1>2, <1>10 DEF Requested
<1>12. Max({deficit + w, c}) \in {deficit + w, c} /\ Max({deficit + w, c}) >= deficit + w
  <2>1. PICK a \in Int, b \in Int : a = deficit + w /\ b = c
    OBVIOUS
  <2>2. Max({a, b}) \in {a, b} /\ Max({a, b}) >= a
    BY ExtremesOfTwo
  <2>3. QED
    BY <2>1, <2>2
<1>13. PICK r \in Nat, o \in Nat : r = SumOver(open[op], R) /\ o = open[op][day]
    BY <1>5, <1>8
<1>14. PICK q : q = Requested(op, day, deficit) /\ q \in {deficit + w, c} /\ q >= deficit + w
    BY <1>11, <1>12
<1>15. w <= r /\ SumOver(open[op], Days) = o + r
    BY <1>8, <1>9, <1>10, <1>13
<1>16. QED
    BY <1>10, <1>13, <1>14, <1>15

(* When all lots of an operation are due, all it makes is.                 *)
LEMMA AllAreDue ==
    ASSUME NEW L, NEW op, NEW d, \A l \in L : op \in DOMAIN l.made => l.edd <= ProductionDue(op, d)
    PROVE  Making(op, DueBy(L, op, d)) = Making(op, L)
<1>1. {l \in DueBy(L, op, d) : op \in DOMAIN l.made} = {l \in L : op \in DOMAIN l.made}
    BY DEF DueBy
<1>2. QED
    BY <1>1 DEF Making

(* Of the days behind, less is open than uncovered.                        *)
LEMMA RestOfDays ==
    ASSUME NEW f, f \in [Days -> Nat], NEW g, g \in [Days -> Nat], \A d \in Days : f[d] <= g[d],
           NEW d \in Days
    PROVE  SumOver(f, Days) - SumOver(f, 0..d) <= SumOver(g, Days) - SumOver(g, 0..d)
<1>1. PICK S, T : S = 0..d /\ T = Days \ S
    OBVIOUS
<1>2. S \subseteq Days /\ IsFiniteSet(Days)
    BY <1>1, SumsOfDays, OperationTypes
<1>3. IsFiniteSet(S) /\ IsFiniteSet(T) /\ S \cap T = {} /\ S \cup T = Days
    BY <1>1, <1>2, FS_Subset
<1>4. \A x \in S \cup T : f[x] \in Nat /\ g[x] \in Nat /\ f[x] \in Int /\ g[x] \in Int
    BY <1>3
<1>5. /\ SumOver(f, S \cup T) = SumOver(f, S) + SumOver(f, T)
      /\ SumOver(g, S \cup T) = SumOver(g, S) + SumOver(g, T)
    BY <1>3, <1>4, SumUnion
<1>6. SumOver(f, T) <= SumOver(g, T)
    BY <1>3, <1>4, SumAtMost
<1>7. PICK a \in Int, b \in Int, x \in Int, y \in Int :
        a = SumOver(f, S) /\ b = SumOver(f, T) /\ x = SumOver(g, S) /\ y = SumOver(g, T)
    BY <1>3, <1>4, SumType
<1>8. SumOver(f, Days) = a + b /\ SumOver(g, Days) = x + y /\ b <= y
    BY <1>3, <1>5, <1>6, <1>7
<1>9. QED
    BY <1>1, <1>7, <1>8

(* A demand that is closed leaves the sum.                                 *)
LEMMA SumClosed ==
    ASSUME NEW f, f \in [Days -> Nat], NEW T \in SUBSET Days, NEW day \in Days
    PROVE  SumOver([f EXCEPT ![day] = 0], T) = SumOver(f, T) - (IF day \in T THEN f[day] ELSE 0)
<1>1. PICK g : g = [f EXCEPT ![day] = 0]
    OBVIOUS
<1>2. g \in [Days -> Nat] /\ g[day] = 0 /\ \A x \in Days \ {day} : g[x] = f[x]
    BY <1>1
<1>3. IsFiniteSet(T)
    BY OperationTypes, FS_Subset
<1>4. CASE day \in T
  <2>1. \A x \in T : f[x] \in Int /\ g[x] \in Int
    BY <1>2
  <2>2. \A x \in T \ {day} : f[x] = g[x]
    BY <1>2
  <2>3. SumOver(g, T) = SumOver(f, T) - f[day] + g[day]
    BY <1>3, <1>4, <2>1, <2>2, SumWithout
  <2>4. SumOver(f, T) \in Int /\ f[day] \in Int
    BY <1>3, <2>1, SumType
  <2>5. QED
    BY <1>1, <1>2, <1>4, <2>3, <2>4
<1>5. CASE day \notin T
  <2>1. \A x \in T : f[x] = g[x]
    BY <1>2, <1>5
  <2>2. SumOver(f, T) = SumOver(g, T)
    BY <1>3, <2>1, SumSame
  <2>3. SumOver(f, T) \in Int
    <3>1. \A x \in T : f[x] \in Int
      OBVIOUS
    <3>2. QED
      BY <1>3, <3>1, SumType
  <2>4. QED
    BY <1>1, <1>5, <2>2, <2>3
<1>6. QED
    BY <1>4, <1>5

(* What a demand of a solo operation does to surplus and lots.             *)
SoloStep(op, day) ==
    LET deficit == open[op][day] - surplus[op]
        requested == Requested(op, day, deficit)
        qty == ApplyEcoLot(op, requested)
    IN \/ /\ deficit <= 0
          /\ surplus' = [surplus EXCEPT ![op] = -deficit]
          /\ UNCHANGED lots
       \/ /\ deficit > 0
          /\ surplus' = [surplus EXCEPT ![op] = Carried(qty, requested, deficit)]
          /\ lots' = lots \union {SoloLot(op, day, qty)}

(* What the demand of one day makes of the lots and of the surplus.        *)
LEMMA SoloStepIs ==
    ASSUME Sizing, NEW op \in Solos, NEW day \in Days, open[op][day] > 0, SoloStep(op, day)
    PROVE  /\ surplus' \in [Solos -> Nat]
           /\ \A o \in Solos : o # op => surplus'[o] = surplus[o]
           /\ Lots(lots') /\ lots \in SUBSET lots'
           /\ \A l \in lots' : l.n \in Nat /\ l.n <= Cardinality(lots') /\ l.edd \in Int
           /\ \A l \in lots' \ lots : l.edd = ProductionDue(op, day) /\ DOMAIN l.made = {op}
           /\ \A o \in Ops : o # op => Making(o, lots') = Making(o, lots)
           /\ Making(op, lots') - surplus'[op] = Making(op, lots) - surplus[op] + open[op][day]
           /\ surplus'[op] - (SumOver(open[op], Days) - open[op][day]) < Excess(op)
<1>1. SizingTypes /\ op \in Ops /\ surplus[op] \in Nat /\ open[op][day] \in Nat
      /\ open \in [Ops -> [Days -> Nat]] /\ surplus \in [Solos -> Nat]
    BY OperationTypes DEF Sizing, SizingTypes
<1>2. PICK s \in Nat, o \in Nat, w \in Int, x \in Nat, e \in Nat :
        /\ s = surplus[op] /\ o = open[op][day] /\ w = SumOver(open[op], Days) /\ x = Excess(op)
        /\ e = Eco[op] /\ s - w < x /\ x >= 1 /\ x >= e /\ x >= ApplyEcoLot(op, Campaign[op])
  <2>1. SumOver(open[op], Days) \in Nat
    BY <1>1, SumsOfDays
  <2>2. QED
    BY <1>1, <2>1, ExcessIs, OperationTypes DEF Sizing, SurplusIsUsed
<1>3. \A p \in Ops : Making(p, lots) \in Nat
    BY <1>1, MakingIsNat DEF SizingTypes
<1>4. CASE o - s <= 0
  <2>1. surplus' = [surplus EXCEPT ![op] = -(o - s)] /\ lots' = lots
    BY <1>2, <1>4 DEF SoloStep
  <2>2. -(o - s) \in Nat /\ -(o - s) = s - o
    BY <1>4
  <2>3. surplus' \in [Solos -> Nat] /\ surplus'[op] = s - o /\ \A p \in Solos : p # op => surplus'[p] = surplus[p]
    BY <1>1, <2>1, <2>2
  <2>4. surplus'[op] - (w - o) < x
    BY <1>2, <2>3
  <2>5. Making(op, lots) - surplus'[op] = Making(op, lots) - s + o
    BY <1>1, <1>3, <2>3
  <2>6. QED
    BY <1>1, <1>2, <2>1, <2>3, <2>4, <2>5 DEF SizingTypes
<1>5. CASE o - s > 0
  <2>1. PICK d \in Nat, r \in Nat, q \in Nat :
          d = o - s /\ d > 0 /\ r = Requested(op, day, d) /\ q = ApplyEcoLot(op, r)
    <3>1. PICK d \in Nat : d = o - s
      BY <1>5
    <3>2. PICK r \in Nat : r = Requested(op, day, d)
      BY <1>1, RequestedIs
    <3>3. ApplyEcoLot(op, r) \in Nat
      BY <1>1, EcoLotCovers
    <3>4. QED
      BY <1>5, <3>1, <3>2, <3>3
  <2>2. r >= d /\ (r = Campaign[op] \/ r <= d + w - o)
    BY <1>1, <1>2, <2>1, RequestedIs
  <2>3. q >= r /\ (e = 0 => q = r) /\ (e # 0 => q < r + e)
    BY <1>1, <1>2, <2>1, EcoLotCovers
  <2>4. PICK l : l = SoloLot(op, day, q)
    OBVIOUS
  <2>5. surplus' = [surplus EXCEPT ![op] = q - d] /\ lots' = lots \cup {l}
    <3>1. ~(open[op][day] - surplus[op] <= 0)
      BY <1>2, <1>5
    <3>2. /\ surplus' = [surplus EXCEPT ![op] =
                Carried(ApplyEcoLot(op, Requested(op, day, open[op][day] - surplus[op])),
                        Requested(op, day, open[op][day] - surplus[op]),
                        open[op][day] - surplus[op])]
          /\ lots' = lots \cup
               {SoloLot(op, day, ApplyEcoLot(op, Requested(op, day, open[op][day] - surplus[op])))}
      BY <3>1 DEF SoloStep
    <3>3. QED
      BY <1>2, <2>1, <2>4, <3>2 DEF Carried
  <2>6. l.n = Cardinality(lots) + 1 /\ l.edd = ProductionDue(op, day) /\ l.made = [p \in {op} |-> q]
    BY <2>4 DEF SoloLot
  <2>7. l.edd \in Int
    BY <1>1, <2>6, ProductionDueIsDay, OperationTypes
  <2>8. \A p \in DOMAIN l.made : l.made[p] \in Nat
    BY <2>6
  <2>9. /\ l \notin lots /\ Lots(lots \cup {l})
        /\ \A k \in lots \cup {l} : k.n \in Nat /\ k.n <= Cardinality(lots \cup {l}) /\ k.edd \in Int
    BY <1>1, <2>6, <2>7, <2>8, LotJoins
  <2>10. \A p : MadeOf(p, l) = IF p = op THEN q ELSE 0
    BY <2>6 DEF MadeOf
  <2>11. \A p : Making(p, lots \cup {l}) = Making(p, lots) + MadeOf(p, l)
    BY <2>9, MakingAdd
  <2>12. q - d \in Nat
    BY <2>2, <2>3
  <2>13. surplus' \in [Solos -> Nat] /\ surplus'[op] = q - d /\ \A p \in Solos : p # op => surplus'[p] = surplus[p]
    BY <1>1, <2>5, <2>12
  <2>14. (q - d) - (w - o) < x
    <3>1. CASE r = Campaign[op]
      <4>1. q <= x
        BY <1>2, <2>1, <3>1
      <4>2. w - o >= 0
        <5>1. o <= w
          <6>1. PICK R : R = Days \ {day}
            OBVIOUS
          <6>2. IsFiniteSet(Days) /\ \A y \in Days : open[op][y] \in Nat /\ open[op][y] \in Int
            BY <1>1, OperationTypes
          <6>3. SumOver(open[op], Days) = open[op][day] + SumOver(open[op], Days \ {day})
            BY <6>2, SumRemove
          <6>4. IsFiniteSet(R) /\ \A y \in R : open[op][y] \in Nat
            BY <6>1, <6>2, FS_Subset
          <6>5. SumOver(open[op], R) \in Nat
            BY <6>4, SumIsNat
          <6>6. QED
            BY <1>2, <6>1, <6>3, <6>5
        <5>2. QED
          BY <5>1
      <4>3. QED
        BY <2>1, <4>1, <4>2
    <3>2. CASE r <= d + w - o
      BY <1>2, <2>1, <2>3, <3>2
    <3>3. QED
      BY <2>2, <3>1, <3>2
  <2>15. Making(op, lots \cup {l}) - (q - d) = Making(op, lots) - s + o
    <3>1. PICK m \in Nat : m = Making(op, lots)
      BY <1>1, <1>3
    <3>2. Making(op, lots \cup {l}) = m + q
      BY <2>10, <2>11, <3>1
    <3>3. (m + q) - (q - d) = m - s + o
      BY <2>1
    <3>4. QED
      BY <3>1, <3>2, <3>3
  <2>16. \A p \in Ops : p # op => Making(p, lots \cup {l}) = Making(p, lots)
    BY <1>3, <2>10, <2>11
  <2>17. \A k \in lots' \ lots : k.edd = ProductionDue(op, day) /\ DOMAIN k.made = {op}
    BY <2>5, <2>6
  <2>18. QED
    BY <1>2, <2>5, <2>9, <2>13, <2>14, <2>15, <2>16, <2>17
<1>6. QED
    BY <1>4, <1>5

-----------------------------------------------------------------------------
(* What the lots due by a day make does not shrink with a new lot.         *)
LEMMA DueByGrows ==
    ASSUME NEW L, NEW M, Lots(M), L \in SUBSET M, NEW op, NEW d
    PROVE  /\ Making(op, DueBy(L, op, d)) <= Making(op, DueBy(M, op, d))
           /\ Making(op, DueBy(L, op, d)) \in Nat /\ Making(op, DueBy(M, op, d)) \in Nat
<1>1. PICK A, B : A = DueBy(L, op, d) /\ B = DueBy(M, op, d)
    OBVIOUS
<1>2. A \in SUBSET B /\ B \in SUBSET M
    BY <1>1 DEF DueBy
<1>3. Lots(B) /\ Lots(A)
    BY <1>2, FS_Subset DEF Lots
<1>4. QED
    BY <1>1, <1>2, <1>3, MakingPart, MakingIsNat

(* A demand of a solo operation keeps the invariant.                       *)
LEMMA SoloDemandStep == ASSUME Sizing, SoloDemand PROVE Sizing'
<1>1. PICK op \in Solos, day \in Days :
        /\ open[op][day] > 0 /\ NextSolo = <<op, day>>
        /\ open' = [open EXCEPT ![op][day] = 0] /\ SoloStep(op, day)
    BY DEF SoloDemand, SoloStep
<1>2. /\ SizingTypes /\ op \in Ops /\ open \in [Ops -> [Days -> Nat]] /\ lots \in SUBSET lots'
      /\ \A p \in Ops : open[p] \in [Days -> Nat]
    BY <1>1, SoloStepIs, OperationTypes DEF Sizing, SizingTypes
<1>3. OrdersOk' /\ \A p \in Ops : Uncovered(p)' = Uncovered(p)
    BY <1>2, OrdersStay DEF SoloDemand, SizingTypes
<1>4. \A p \in Ops : Uncovered(p) \in [Days -> Nat]
    BY <1>2, UncoveredIs DEF SizingTypes
<1>5. /\ surplus' \in [Solos -> Nat]
      /\ \A o \in Solos : o # op => surplus'[o] = surplus[o]
      /\ Lots(lots')
      /\ \A l \in lots' : l.n \in Nat /\ l.n <= Cardinality(lots') /\ l.edd \in Int
      /\ \A l \in lots' \ lots : l.edd = ProductionDue(op, day) /\ DOMAIN l.made = {op}
      /\ \A o \in Ops : o # op => Making(o, lots') = Making(o, lots)
      /\ Making(op, lots') - surplus'[op] = Making(op, lots) - surplus[op] + open[op][day]
      /\ surplus'[op] - (SumOver(open[op], Days) - open[op][day]) < Excess(op)
    BY <1>1, SoloStepIs
<1>6. /\ \A p \in Ops : p # op => open'[p] = open[p]
      /\ open'[op] = [open[op] EXCEPT ![day] = 0]
      /\ open' \in [Ops -> [Days -> Nat]]
    BY <1>1, <1>2
<1>7. \A p \in Ops, d \in Days : open'[p][d] <= open[p][d] /\ open'[p][d] \in Nat /\ open[p][d] \in Nat
  <2>1. SUFFICES ASSUME NEW p \in Ops, NEW d \in Days
                 PROVE  open'[p][d] <= open[p][d] /\ open'[p][d] \in Nat /\ open[p][d] \in Nat
    OBVIOUS
  <2>2. CASE p = op /\ d = day
    BY <1>2, <1>6, <2>2
  <2>3. CASE ~(p = op /\ d = day)
    BY <1>2, <1>6, <2>3
  <2>4. QED
    BY <2>2, <2>3
<1>8. SizingTypes'
    BY <1>3, <1>5, <1>6 DEF SizingTypes
<1>9. OpenIsUncovered'
  <2>1. SUFFICES ASSUME NEW p \in Ops, NEW d \in Days PROVE open'[p][d] <= Uncovered(p)[d]
    BY <1>3 DEF OpenIsUncovered
  <2>2. open[p][d] <= Uncovered(p)[d]
    BY DEF Sizing, OpenIsUncovered
  <2>3. PICK a \in Nat, b \in Nat, c \in Nat : a = open'[p][d] /\ b = open[p][d] /\ c = Uncovered(p)[d]
    BY <1>4, <1>7
  <2>4. QED
    BY <1>7, <2>2, <2>3
<1>10. SumOver(open'[op], Days) = SumOver(open[op], Days) - open[op][day]
  <2>1. Days \in SUBSET Days /\ open[op] \in [Days -> Nat]
    BY <1>2
  <2>2. QED
    BY <1>1, <1>6, <2>1, SumClosed
<1>11. Balanced'
  <2>1. SUFFICES ASSUME NEW p \in Solos
                 PROVE  Making(p, lots') + SumOver(open'[p], Days)
                          = SumOver(Uncovered(p), Days) + surplus'[p]
    BY <1>3, OperationTypes DEF Balanced
  <2>2. Making(p, lots) + SumOver(open[p], Days) = SumOver(Uncovered(p), Days) + surplus[p] /\ p \in Ops
    BY OperationTypes DEF Sizing, Balanced
  <2>3. CASE p # op
    BY <1>5, <1>6, <2>2, <2>3
  <2>4. CASE p = op
    <3>1. Making(op, lots) \in Nat /\ Making(op, lots') \in Nat
      BY <1>2, <1>5, MakingIsNat DEF SizingTypes
    <3>2. SumOver(open[op], Days) \in Nat /\ SumOver(Uncovered(op), Days) \in Nat
      BY <1>1, <1>2, <1>4, SumsOfDays
    <3>3. surplus[op] \in Nat /\ surplus'[op] \in Nat /\ open[op][day] \in Nat
      BY <1>1, <1>2, <1>5 DEF SizingTypes
    <3>4. PICK m \in Nat, m2 \in Nat, s \in Nat, s2 \in Nat, w \in Nat, u \in Nat, x \in Nat :
            /\ m = Making(op, lots) /\ m2 = Making(op, lots') /\ s = surplus[op] /\ s2 = surplus'[op]
            /\ w = SumOver(open[op], Days) /\ u = SumOver(Uncovered(op), Days) /\ x = open[op][day]
      BY <3>1, <3>2, <3>3
    <3>5. m2 - s2 = m - s + x /\ m + w = u + s /\ SumOver(open'[op], Days) = w - x
      BY <1>5, <1>10, <2>2, <2>4, <3>4
    <3>6. m2 + (w - x) = u + s2
      BY <3>5
    <3>7. QED
      BY <2>4, <3>4, <3>5, <3>6
  <2>5. QED
    BY <2>3, <2>4
<1>12. SurplusIsUsed'
  <2>1. SUFFICES ASSUME NEW p \in Solos
                 PROVE  surplus'[p] - SumOver(open'[p], Days) < Excess(p)
    BY DEF SurplusIsUsed, Excess
  <2>2. CASE p # op
    BY <1>5, <1>6, <2>2, OperationTypes DEF Sizing, SurplusIsUsed
  <2>3. CASE p = op
    BY <1>5, <1>10, <2>3
  <2>4. QED
    BY <2>2, <2>3
(* The day of this demand is the earliest that is open.                    *)
<1>13. \A d \in Days : open[op][d] > 0 => day <= d
    BY <1>1, <1>2, NextSoloIsFirst
<1>14. \A x \in Days, y \in Days : x <= y => ProductionDue(op, x) <= ProductionDue(op, y)
  <2>1. \A x \in Days : x \in Int
    BY OperationTypes
  <2>2. QED
    BY <1>2, <2>1, ProductionDueMonotone
<1>15. EarlierFirst'
  <2>1. SUFFICES ASSUME NEW p \in Solos, NEW l \in lots', NEW d \in Days,
                        p \in DOMAIN l.made, open'[p][d] > 0
                 PROVE  l.edd <= ProductionDue(p, d)
    BY DEF EarlierFirst
  <2>2. p \in Ops /\ open[p][d] > 0
    <3>1. p \in Ops
      BY OperationTypes
    <3>2. QED
      BY <1>7, <2>1, <3>1
  <2>3. CASE l \in lots
    BY <2>1, <2>2, <2>3 DEF Sizing, EarlierFirst
  <2>4. CASE l \notin lots
    <3>1. p = op /\ l.edd = ProductionDue(op, day)
      BY <1>5, <2>1, <2>4
    <3>2. day <= d
      BY <1>13, <2>2, <3>1
    <3>3. QED
      BY <1>1, <1>14, <3>1, <3>2
  <2>5. QED
    BY <2>3, <2>4
<1>16. CoveredInTime'
  <2>1. SUFFICES ASSUME NEW p \in Ops, NEW d \in Days
                 PROVE  SumOver(Uncovered(p), 0..d)
                          <= Making(p, DueBy(lots', p, d)) + SumOver(open'[p], 0..d)
    BY <1>3 DEF CoveredInTime, DueBy, ProductionDue
  <2>2. SumOver(Uncovered(p), 0..d) <= Making(p, DueBy(lots, p, d)) + SumOver(open[p], 0..d)
    BY DEF Sizing, CoveredInTime
  <2>3. open'[p] \in [Days -> Nat] /\ open[p] \in [Days -> Nat] /\ Uncovered(p) \in [Days -> Nat]
    BY <1>2, <1>4, <1>6
  <2>4. PICK u \in Nat, a \in Nat, b \in Nat, m \in Nat, n \in Nat :
          /\ u = SumOver(Uncovered(p), 0..d) /\ a = SumOver(open[p], 0..d)
          /\ b = SumOver(open'[p], 0..d)
          /\ m = Making(p, DueBy(lots, p, d)) /\ n = Making(p, DueBy(lots', p, d)) /\ m <= n
    BY <1>2, <1>5, <2>3, SumsOfDays, DueByGrows
  <2>5. u <= m + a
    BY <2>2, <2>4
  <2>6. CASE p # op
    BY <1>6, <2>4, <2>5, <2>6
  <2>7. CASE p = op /\ d < day
    <3>1. PICK T : T = 0..d
      OBVIOUS
    <3>2. T \in SUBSET Days /\ day \notin T
      <4>1. day \in Nat /\ d \in Nat
        BY OperationTypes
      <4>2. QED
        BY <2>7, <3>1, <4>1, SumsOfDays, <2>3
    <3>3. SumOver(open'[op], T) = SumOver(open[op], T) - 0
      <4>1. PICK f \in [Days -> Nat] : f = open[op]
        BY <2>3, <2>7
      <4>2. SumOver([f EXCEPT ![day] = 0], T) = SumOver(f, T) - (IF day \in T THEN f[day] ELSE 0)
        BY <3>2, SumClosed
      <4>3. QED
        BY <1>6, <3>2, <4>1, <4>2
    <3>4. b = a
      BY <2>4, <2>7, <3>1, <3>3
    <3>5. QED
      BY <2>4, <2>5, <3>4
  <2>8. CASE p = op /\ ~(d < day)
    <3>1. day <= d /\ d \in Int /\ day \in Int
      <4>1. day \in Nat /\ d \in Nat
        BY OperationTypes
      <4>2. QED
        BY <2>8, <4>1
    <3>2. \A l \in lots' : op \in DOMAIN l.made => l.edd <= ProductionDue(op, d)
      <4>1. SUFFICES ASSUME NEW l \in lots', op \in DOMAIN l.made PROVE l.edd <= ProductionDue(op, d)
        OBVIOUS
      <4>2. l.edd <= ProductionDue(op, day)
        <5>1. CASE l \in lots
          BY <1>1, <4>1, <5>1 DEF Sizing, EarlierFirst
        <5>2. CASE l \notin lots
          <6>1. l.edd = ProductionDue(op, day) /\ l.edd \in Int
            BY <1>5, <5>2
          <6>2. QED
            BY <6>1
        <5>3. QED
          BY <5>1, <5>2
      <4>3. ProductionDue(op, day) <= ProductionDue(op, d)
        BY <1>14, <3>1
      <4>4. l.edd \in Int /\ ProductionDue(op, day) \in Int /\ ProductionDue(op, d) \in Int
        BY <1>2, <1>5, <3>1, ProductionDueIsDay
      <4>5. QED
        BY <4>2, <4>3, <4>4
    <3>3. n = Making(op, lots')
      BY <2>4, <2>8, <3>2, AllAreDue
    <3>4. \A x \in Days : open'[op][x] <= Uncovered(op)[x]
      BY <1>2, <1>3, <1>9 DEF OpenIsUncovered
    <3>5. SumOver(open'[op], Days) - SumOver(open'[op], 0..d)
            <= SumOver(Uncovered(op), Days) - SumOver(Uncovered(op), 0..d)
      BY <2>3, <2>8, <3>4, RestOfDays
    <3>6. Making(op, lots') + SumOver(open'[op], Days)
            = SumOver(Uncovered(op), Days) + surplus'[op]
      BY <1>2, <1>3, <1>11 DEF Balanced
    <3>7. PICK O \in Nat, U \in Nat, s \in Nat :
            O = SumOver(open'[op], Days) /\ U = SumOver(Uncovered(op), Days) /\ s = surplus'[op]
      BY <1>5, <2>3, <2>8, SumsOfDays
    <3>8. O - b <= U - u /\ n + O = U + s
      BY <2>4, <2>8, <3>3, <3>5, <3>6, <3>7
    <3>9. u <= n + b
      BY <3>8
    <3>10. QED
      BY <2>4, <3>9
  <2>9. QED
    BY <2>6, <2>7, <2>8
<1>17. QED
    BY <1>8, <1>9, <1>11, <1>12, <1>15, <1>16 DEF Sizing

-----------------------------------------------------------------------------
(* What does not change the state keeps it.                                *)
LEMMA SizingStays == ASSUME Sizing, UNCHANGED sizingVars PROVE Sizing'
<1>1. UNCHANGED <<demand, supply, open, surplus, lots>>
  BY DEF sizingVars
<1>2. OrdersOk /\ SizingTypes
  BY DEF Sizing, SizingTypes
<1>3. OrdersOk' /\ \A op \in Ops : Uncovered(op)' = Uncovered(op)
  BY <1>1, <1>2, OrdersStay
<1>4. SizingTypes'
  BY <1>1, <1>2, <1>3 DEF SizingTypes
<1>5. OpenIsUncovered' /\ CoveredInTime'
  BY <1>1, <1>3 DEF Sizing, OpenIsUncovered, CoveredInTime
<1>6. Balanced' /\ SurplusIsUsed' /\ EarlierFirst'
  <2>1. \A op \in Solos : op \in Ops
    BY OperationTypes
  <2>2. QED
    BY <1>1, <1>3, <2>1 DEF Sizing, Balanced, SurplusIsUsed, EarlierFirst
<1>7. QED
  BY <1>4, <1>5, <1>6 DEF Sizing

(* Every step keeps the invariant.                                         *)
LEMMA SizingStep == ASSUME SizingInv, SizingNext \/ Later PROVE SizingInv'
<1>1. CASE OffsetSupply
  <2>1. stage = "orders" /\ stage' = "sizing"
    BY <1>1 DEF OffsetSupply
  <2>2. OrdersOk /\ lots = {} /\ surplus = [op \in Solos |-> 0]
    BY <2>1 DEF SizingInv
  <2>3. Sizing'
    BY <1>1, <2>2, OffsetSupplyStep
  <2>4. QED
    BY <2>1, <2>3 DEF SizingInv
<1>2. CASE TwinCycle
  <2>1. stage = "sizing" /\ stage' = "sizing"
    BY <1>2 DEF TwinCycle
  <2>2. Sizing
    BY <2>1 DEF SizingInv
  <2>3. Sizing'
    BY <1>2, <2>2, TwinCycleStep
  <2>4. QED
    BY <2>1, <2>3 DEF SizingInv
<1>3. CASE TwinCycleFails
  <2>1. stage' = "failed"
    BY <1>3 DEF TwinCycleFails
  <2>2. QED
    BY <2>1 DEF SizingInv
<1>4. CASE SoloDemand
  <2>1. stage = "sizing" /\ stage' = "sizing"
    BY <1>4 DEF SoloDemand
  <2>2. Sizing
    BY <2>1 DEF SizingInv
  <2>3. Sizing'
    BY <1>4, <2>2, SoloDemandStep
  <2>4. QED
    BY <2>1, <2>3 DEF SizingInv
<1>5. CASE Sized
  <2>1. /\ stage = "sizing" /\ stage' = "sized" /\ UNCHANGED sizingVars
        /\ \A op \in Ops, day \in Days : open[op][day] = 0
    BY <1>5 DEF Sized
  <2>2. Sizing'
    BY <2>1, SizingStays DEF SizingInv
  <2>3. QED
    BY <2>1, <2>2 DEF SizingInv, sizingVars
<1>6. CASE Later
  BY <1>6 DEF Later, SizingInv
<1>7. QED
  BY <1>1, <1>2, <1>3, <1>4, <1>5, <1>6 DEF SizingNext

(* And so does a step elsewhere.                                           *)
LEMMA SizingInvStays == ASSUME SizingInv, UNCHANGED <<stage, sizingVars>> PROVE SizingInv'
<1>1. UNCHANGED stage /\ UNCHANGED sizingVars
  OBVIOUS
<1>2. Sizing => Sizing'
  BY <1>1, SizingStays
<1>3. OrdersOk => OrdersOk'
  BY <1>1 DEF OrdersOk, sizingVars
<1>4. QED
  BY <1>1, <1>2, <1>3 DEF SizingInv, sizingVars

-----------------------------------------------------------------------------
(* The theorems.                                                           *)

(* The sizing keeps its invariant, through all that follows it.            *)
THEOREM SizingIsSafe == SizingSpec => []SizingInv
<1>1. SizingInit => SizingInv
  BY SizingInitially
<1>2. SizingInv /\ [SizingNext \/ Later]_<<stage, sizingVars>> => SizingInv'
  BY SizingStep, SizingInvStays
<1>3. QED
  BY <1>1, <1>2, PTL DEF SizingSpec

(* Whatever is ordered and supplied: once the lots are sized, supply and   *)
(* lots cover the demand of every operation up to every day, by the day its*)
(* production is due (scheduler/lot_sizing.py).                            *)
THEOREM DemandMet == SizingSpec => []DemandIsMet
<1>1. SizingInv => DemandIsMet
  <2>1. SUFFICES ASSUME SizingInv, stage = "sized", NEW op \in Ops, NEW d \in Days
                 PROVE  Supplied(op, d) + Making(op, {l \in lots : l.edd <= ProductionDue(op, d)})
                          >= Total(op, d)
    BY DEF DemandIsMet
  <2>2. Sizing /\ \A x \in Days : open[op][x] = 0
    BY <2>1 DEF SizingInv
  <2>3. /\ OrdersOk /\ open[op] \in [Days -> Nat] /\ Uncovered(op) \in [Days -> Nat]
        /\ Lots(DueBy(lots, op, d)) /\ d \in Int
    <3>1. SizingTypes /\ OrdersOk
      BY <2>2 DEF Sizing, SizingTypes
    <3>2. Lots(DueBy(lots, op, d))
      BY <3>1, FS_Subset DEF SizingTypes, Lots, DueBy
    <3>3. QED
      BY <3>1, <3>2, UncoveredIs, OperationTypes DEF SizingTypes
  <2>4. SumOver(open[op], 0..d) = 0
    <3>1. IsFiniteSet(0..d) /\ 0..d \subseteq Days
      BY <2>3, SumsOfDays
    <3>2. \A x \in 0..d : open[op][x] = 0
      BY <2>2, <3>1
    <3>3. QED
      BY <3>1, <3>2, SumZero
  <2>5. SumOver(Uncovered(op), 0..d) <= Making(op, DueBy(lots, op, d)) + SumOver(open[op], 0..d)
    BY <2>2 DEF Sizing, CoveredInTime
  <2>6. SumOver(Uncovered(op), 0..d) + Supplied(op, d) >= Total(op, d)
    BY <2>3, SupplyCovers
  <2>7. Total(op, d) \in Nat
    <3>1. demand[op] \in [Days -> Nat]
      BY <2>3 DEF OrdersOk
    <3>2. QED
      BY <3>1, SumsOfDays DEF Total
  <2>8. PICK u \in Nat, m \in Nat, s \in Nat, t \in Nat :
          /\ u = SumOver(Uncovered(op), 0..d) /\ m = Making(op, DueBy(lots, op, d))
          /\ s = Supplied(op, d) /\ t = Total(op, d)
    BY <2>3, <2>7, SumsOfDays, MakingIsNat, SuppliedNext
  <2>9. s + m >= t
    BY <2>4, <2>5, <2>6, <2>8
  <2>10. QED
    BY <2>8, <2>9 DEF DueBy
<1>2. QED
  BY <1>1, SizingIsSafe, PTL

(* And a solo operation makes less than one lot, campaign or piece more    *)
(* than its supply leaves open: no demand is covered by two lots.          *)
THEOREM NothingTwice == SizingSpec => []NothingMadeTwice
<1>1. SizingInv => NothingMadeTwice
  <2>1. SUFFICES ASSUME SizingInv, stage = "sized", NEW op \in Solos
                 PROVE  Making(op, lots) - SumOver(Uncovered(op), Days) < Excess(op)
    BY DEF NothingMadeTwice, Excess
  <2>2. Sizing /\ op \in Ops /\ (\A x \in Days : open[op][x] = 0) /\ SizingTypes
    BY <2>1, OperationTypes DEF SizingInv, Sizing
  <2>3. SumOver(open[op], Days) = 0
    BY <2>2, OperationTypes, SumZero
  <2>4. /\ Making(op, lots) + SumOver(open[op], Days) = SumOver(Uncovered(op), Days) + surplus[op]
        /\ surplus[op] - SumOver(open[op], Days) < Excess(op)
    BY <2>2 DEF Sizing, Balanced, SurplusIsUsed
  <2>5. SumOver(Uncovered(op), Days) \in Nat
    <3>1. OrdersOk
      BY <2>2 DEF SizingTypes
    <3>2. IsFiniteSet(Days) /\ \A x \in Days : Uncovered(op)[x] \in Nat
      BY <2>2, <3>1, UncoveredIs, OperationTypes
    <3>3. QED
      BY <3>2, SumIsNat
  <2>6. PICK u \in Nat, m \in Nat, s \in Nat, x \in Nat :
          /\ u = SumOver(Uncovered(op), Days) /\ m = Making(op, lots)
          /\ s = surplus[op] /\ x = Excess(op)
    BY <2>2, <2>5, MakingIsNat, ExcessIs DEF SizingTypes
  <2>7. m - u < x
    BY <2>3, <2>4, <2>6
  <2>8. QED
    BY <2>6, <2>7
<1>2. QED
  BY <1>1, SizingIsSafe, PTL

-----------------------------------------------------------------------------
(* Sets in order, and folds over the positions of a sequence.              *)

(* The elements of a set by the number of elements before them.            *)
BeforeIn(S, R, x) == {y \in S : <<y, x>> \in R}
ByRank(S, R) == [i \in 1..Cardinality(S) |-> CHOOSE x \in S : Cardinality(BeforeIn(S, R, x)) = i - 1]

(* A strict total order of a set, as a set of pairs.                       *)
TotalOn(R, S) ==
    /\ \A x, y \in S : x # y => <<x, y>> \in R \/ <<y, x>> \in R
    /\ \A x \in S : <<x, x>> \notin R
    /\ \A x, y, z \in S : <<x, y>> \in R /\ <<y, z>> \in R => <<x, z>> \in R

(* The elements by rank are a sequence of the set in its order.            *)
LEMMA RanksAreOrder ==
    ASSUME NEW S, IsFiniteSet(S), NEW R, TotalOn(R, S), NEW s, s = ByRank(S, R)
    PROVE  /\ Cardinality(S) \in Nat
           /\ s \in [1..Cardinality(S) -> S]
           /\ \A i, j \in 1..Cardinality(S) : i < j => <<s[i], s[j]>> \in R
           /\ \A x \in S : \E i \in 1..Cardinality(S) : s[i] = x
<1> DEFINE B(x) == BeforeIn(S, R, x)
<1> DEFINE f == [x \in S |-> Cardinality(B(x)) + 1]
<1>0. /\ \A x, y \in S : x # y => <<x, y>> \in R \/ <<y, x>> \in R
      /\ \A x \in S : <<x, x>> \notin R
      /\ \A x, y, z \in S : <<x, y>> \in R /\ <<y, z>> \in R => <<x, z>> \in R
    BY DEF TotalOn
<1>n. PICK n \in Nat : n = Cardinality(S)
    BY FS_CardinalityType
<1>1. ASSUME NEW x \in S
      PROVE  IsFiniteSet(B(x)) /\ Cardinality(B(x)) \in Nat /\ Cardinality(B(x)) < n
    <2>1. B(x) \in SUBSET S /\ x \notin B(x) /\ x \in S
        BY <1>0 DEF BeforeIn
    <2>2. IsFiniteSet(B(x)) /\ Cardinality(B(x)) \in Nat
        BY <2>1, FS_Subset, FS_CardinalityType
    <2>3. Cardinality(B(x) \cup {x}) = Cardinality(B(x)) + 1 /\ Cardinality(B(x) \cup {x}) <= n
        <3>1. B(x) \cup {x} \in SUBSET S
            BY <2>1
        <3>2. Cardinality(B(x) \cup {x}) <= Cardinality(S)
            BY <3>1, FS_Subset
        <3>3. Cardinality(B(x) \cup {x}) = Cardinality(B(x)) + 1
            BY <2>1, <2>2, FS_AddElement
        <3>4. QED
            BY <3>2, <3>3, <1>n
    <2>4. QED
        BY <2>2, <2>3
<1>2. ASSUME NEW x \in S, NEW y \in S, <<x, y>> \in R
      PROVE  Cardinality(B(x)) < Cardinality(B(y))
    <2>1. B(x) \cup {x} \in SUBSET B(y) /\ x \notin B(x)
        BY <1>0, <1>2 DEF BeforeIn
    <2>2. Cardinality(B(x) \cup {x}) = Cardinality(B(x)) + 1
        BY <2>1, <1>1, FS_AddElement
    <2>3. Cardinality(B(x) \cup {x}) <= Cardinality(B(y))
        BY <2>1, <1>1, FS_Subset
    <2>4. QED
        <3> HIDE DEF B
        <3>1. QED
            BY <2>2, <2>3, <1>1
<1> HIDE DEF B
<1>3. \A x, y \in S : x # y => f[x] # f[y]
    <2>1. \A x, y \in S : <<x, y>> \in R => f[x] # f[y]
        <3>1. SUFFICES ASSUME NEW x \in S, NEW y \in S, <<x, y>> \in R PROVE f[x] # f[y]
            OBVIOUS
        <3>2. Cardinality(B(x)) < Cardinality(B(y)) /\ Cardinality(B(x)) \in Nat /\ Cardinality(B(y)) \in Nat
            BY <3>1, <1>1, <1>2
        <3>3. f[x] = Cardinality(B(x)) + 1 /\ f[y] = Cardinality(B(y)) + 1
            BY Zenon
        <3>4. QED
            BY <3>2, <3>3
    <2>2. QED
        BY <1>0, <2>1
<1>4. \A x \in S : f[x] \in 1..n /\ f[x] = Cardinality(B(x)) + 1
    <2>1. SUFFICES ASSUME NEW x \in S PROVE f[x] \in 1..n /\ f[x] = Cardinality(B(x)) + 1
        OBVIOUS
    <2>2. f[x] = Cardinality(B(x)) + 1
        BY Zenon
    <2>3. QED
        BY <2>2, <1>1
<1>5. \A i \in 1..n : \E x \in S : f[x] = i
    <2>1. SUFFICES ASSUME NEW i \in 1..n, \A x \in S : f[x] # i PROVE FALSE
        OBVIOUS
    <2>2. IsFiniteSet(1..n) /\ Cardinality(1..n) = n
        BY FS_Interval
    <2>3. IsFiniteSet((1..n) \ {i}) /\ Cardinality((1..n) \ {i}) = n - 1
        BY <2>2, FS_RemoveElement
    <2>4. f \in [S -> (1..n) \ {i}]
        BY <2>1, <1>4
    <2>5. Cardinality((1..n) \ {i}) < Cardinality(S)
        BY <2>3, <1>n
    <2>6. \E x, y \in S : x # y /\ f[x] = f[y]
        <3> HIDE DEF f
        <3>1. QED
            BY <2>3, <2>4, <2>5, FS_PigeonHole
    <2>7. QED
        BY <2>6, <1>3
<1>6. \A i \in 1..n : s[i] \in S /\ Cardinality(B(s[i])) = i - 1
    <2>1. SUFFICES ASSUME NEW i \in 1..n PROVE s[i] \in S /\ Cardinality(B(s[i])) = i - 1
        OBVIOUS
    <2>2. PICK x \in S : f[x] = i
        BY <1>5
    <2>3. Cardinality(B(x)) = i - 1
        BY <2>2, <1>4, <1>1
    <2>4. s[i] = CHOOSE y \in S : Cardinality(B(y)) = i - 1
        BY <1>n DEF B, ByRank
    <2>5. \E y \in S : Cardinality(B(y)) = i - 1
        BY <2>3
    <2>6. QED
        BY <2>4, <2>5, Zenon
<1>7. \A i, j \in 1..n : i < j => <<s[i], s[j]>> \in R
    <2>1. SUFFICES ASSUME NEW i \in 1..n, NEW j \in 1..n, i < j, <<s[i], s[j]>> \notin R PROVE FALSE
        OBVIOUS
    <2>2. /\ s[i] \in S /\ s[j] \in S
          /\ Cardinality(B(s[i])) = i - 1 /\ Cardinality(B(s[j])) = j - 1
        BY <1>6
    <2>3. s[i] # s[j]
        <3>1. i - 1 # j - 1
            BY <2>1
        <3>2. QED
            BY <2>2, <3>1, Zenon
    <2>4. <<s[j], s[i]>> \in R
        BY <1>0, <2>1, <2>2, <2>3
    <2>5. Cardinality(B(s[j])) < Cardinality(B(s[i]))
        BY <2>4, <2>2, <1>2
    <2>6. QED
        BY <2>1, <2>2, <2>5
<1>8. \A x \in S : \E i \in 1..n : s[i] = x
    <2>1. SUFFICES ASSUME NEW x \in S PROVE \E i \in 1..n : s[i] = x
        OBVIOUS
    <2>2. PICK i \in 1..n : i = f[x]
        BY <1>4
    <2>3. s[i] \in S /\ Cardinality(B(s[i])) = i - 1
        BY <1>6
    <2>4. f[s[i]] = i
        BY <2>3, <1>4
    <2>5. QED
        BY <2>2, <2>3, <2>4, <1>3
<1>9. s \in [1..n -> S]
    <2>1. DOMAIN s = 1..n /\ s = [i \in 1..n |-> s[i]]
        BY <1>n DEF ByRank
    <2>2. QED
        BY <1>6, <2>1
<1>10. QED
    BY <1>n, <1>7, <1>8, <1>9

(* A fold over the positions of a sequence, last one first, by a step g.   *)
FoldEquation(iter, n, a, g) ==
    iter = [s \in SUBSET (1..n) |-> IF s = {} THEN a ELSE g[<<Max(s), iter[s \ {Max(s)}]>>]]

(* There is a function that is this fold, and its values are of the type   *)
(* of the step.                                                            *)
LEMMA FoldExists ==
    ASSUME NEW n \in Nat, NEW V, NEW a \in V, NEW g \in [(1..n) \X V -> V]
    PROVE  \E iter : iter \in [SUBSET (1..n) -> V] /\ FoldEquation(iter, n, a, g)
<1> DEFINE D == SUBSET (1..n)
<1> DEFINE A == [D -> V]
<1> DEFINE next(f) == [s \in D |-> IF s = {} THEN a ELSE g[<<Max(s), f[s \ {Max(s)}]>>]]
<1> DEFINE step == [p \in Nat \X A |-> next(p[2])]
<1> DEFINE first == [s \in D |-> a]
<1>1. \A s \in D : IsFiniteSet(s) /\ Cardinality(s) \in Nat
    <2>1. IsFiniteSet(1..n)
        BY FS_Interval
    <2>2. QED
        BY <2>1, FS_Subset, FS_CardinalityType
<1>2. \A s \in D : s # {} => Max(s) \in s /\ Max(s) \in 1..n /\ s \ {Max(s)} \in D
    <2>1. SUFFICES ASSUME NEW s \in D, s # {} PROVE Max(s) \in s
        OBVIOUS
    <2>2. s \subseteq Int
        BY <2>1
    <2>3. QED
        BY <2>1, <2>2, <1>1, MaxIs
<1>3. ASSUME NEW f \in A PROVE next(f) \in A
    <2>1. \A s \in D : next(f)[s] \in V
        <3>1. SUFFICES ASSUME NEW s \in D, s # {} PROVE g[<<Max(s), f[s \ {Max(s)}]>>] \in V
            OBVIOUS
        <3>2. Max(s) \in 1..n /\ f[s \ {Max(s)}] \in V
            BY <3>1, <1>2
        <3>3. QED
            BY <3>2
    <2>2. QED
        BY <2>1
<1>4. first \in A
    OBVIOUS
<1>5. step \in [Nat \X A -> A]
    BY <1>3
<1>6. PICK F : Iterates(F, A, first, step)
    <2> HIDE DEF A, first, step
    <2>1. QED
        BY <1>4, <1>5, NatRecursion
<1>7. /\ F \in [Nat -> A] /\ \A k \in Nat : F[k + 1] = next(F[k])
    <2>1. F \in [Nat -> A] /\ \A k \in Nat : F[k + 1] = step[<<k, F[k]>>]
        BY <1>6, Zenon DEF Iterates
    <2>2. SUFFICES ASSUME NEW k \in Nat PROVE F[k + 1] = next(F[k])
        BY <2>1
    <2>3. F[k] \in A /\ F[k + 1] = step[<<k, F[k]>>]
        BY <2>1
    <2>4. step[<<k, F[k]>>] = next(F[k])
        <3> HIDE DEF A, next
        <3>1. PICK p : p = <<k, F[k]>>
            OBVIOUS
        <3>2. p \in Nat \X A /\ p[2] = F[k]
            BY <3>1, <2>3
        <3>3. step[p] = next(p[2])
            BY <3>2
        <3>4. QED
            BY <3>1, <3>2, <3>3
    <2>5. QED
        BY <2>3, <2>4
<1> DEFINE iter == [s \in D |-> F[Cardinality(s)][s]]
<1>8. iter \in [D -> V]
    <2>1. SUFFICES ASSUME NEW s \in D PROVE F[Cardinality(s)][s] \in V
        OBVIOUS
    <2>2. PICK k \in Nat : k = Cardinality(s)
        BY <1>1
    <2>3. F[k] \in [D -> V]
        BY <1>7
    <2>4. QED
        BY <2>2, <2>3
<1>9. ASSUME NEW s \in D
      PROVE  iter[s] = IF s = {} THEN a ELSE g[<<Max(s), iter[s \ {Max(s)}]>>]
    <2>1. CASE s = {}
        <3>1. iter[s] = F[0][s]
            BY <2>1, FS_EmptySet
        <3>2. F[0] = first
            BY <1>6, Zenon DEF Iterates
        <3>3. QED
            BY <2>1, <3>1, <3>2
    <2>2. CASE s # {}
        <3>1. PICK m : m = Max(s) /\ m \in s /\ s \ {m} \in D
            BY <2>2, <1>2
        <3>2. PICK k \in Nat : k = Cardinality(s \ {m})
            BY <3>1, <1>1
        <3>3. Cardinality(s) = k + 1
            <4>1. Cardinality(s \ {m}) = Cardinality(s) - 1
                BY <3>1, <1>1, FS_RemoveElement
            <4>2. QED
                BY <4>1, <3>2, <1>1
        <3>4. iter[s] = F[k + 1][s] /\ iter[s \ {m}] = F[k][s \ {m}]
            BY <3>1, <3>2, <3>3
        <3>5. F[k + 1] = next(F[k])
            BY <1>7
        <3>6. next(F[k])[s] = g[<<Max(s), F[k][s \ {Max(s)}]>>]
            BY <2>2
        <3>7. QED
            BY <2>2, <3>1, <3>4, <3>5, <3>6
    <2>3. QED
        BY <2>1, <2>2
<1>10. FoldEquation(iter, n, a, g)
    <2> HIDE DEF iter
    <2>1. DOMAIN iter = D
        BY <1>8
    <2>2. QED
        BY <1>8, <1>9, <2>1 DEF FoldEquation
<1>11. QED
    <2> HIDE DEF iter
    <2>1. QED
        BY <1>8, <1>10

-----------------------------------------------------------------------------
(* The lots, known by their numbers.                                       *)

(* What the grouping reads of a lot.                                       *)
Keyed(l) ==
    /\ l.n \in Int /\ l.edd \in Int /\ l.rupture \in Int /\ l.priority \in Int /\ l.release \in Int
    /\ l.family \in Int /\ l.minutes \in Nat
    /\ IsFiniteSet(DOMAIN l.made) /\ \A op \in DOMAIN l.made : l.made[op] \in Nat

(* A lot is known by its number.                                           *)
LotsKeyed(L) ==
    /\ IsFiniteSet(L)
    /\ \A l \in L : Keyed(l)
    /\ \A k, l \in L : k.n = l.n => k = l

(* The day the material of an order comes is a day,                        *)
LEMMA ReleaseIsDay ==
    ASSUME NEW op \in Ops, NEW d \in Int
    PROVE  Release(op, d) \in Int
<1>1. PICK m \in Nat : m = Anticipation
    BY SizingAssumption
<1>2. ProductionDue(op, d) \in Int
    BY ProductionDueIsDay
<1>3. \A e \in Int : Back[e][m] \in Int
    BY BackStep
<1>4. QED
    BY <1>1, <1>2, <1>3 DEF Release

(* a lot with the next number keeps the numbers apart,                     *)
LEMMA KeyedJoins ==
    ASSUME SizingTypes, LotsKeyed(lots), NEW l, Keyed(l), l.n = Cardinality(lots) + 1
    PROVE  LotsKeyed(lots \cup {l})
<1>1. IsFiniteSet(lots) /\ \A k \in lots : k.n \in Nat /\ k.n <= Cardinality(lots)
    BY DEF SizingTypes, Lots
<1>2. Cardinality(lots) \in Nat
    BY <1>1, FS_CardinalityType
<1>3. \A k \in lots : k.n # l.n
    BY <1>1, <1>2
<1>4. IsFiniteSet(lots \cup {l})
    BY <1>1, FS_AddElement
<1>5. \A j, k \in lots \cup {l} : j.n = k.n => j = k
    BY <1>3 DEF LotsKeyed
<1>6. QED
    BY <1>4, <1>5 DEF LotsKeyed

(* the lot of a twin cycle is one the grouping can read,                   *)
LEMMA TwinLotIsKeyed == ASSUME SizingTypes, Pending # {} PROVE Keyed(TwinLot)
<1>1. PICK p \in Pending : Active = {Current, p} /\ Current \in Pending
    BY ActiveIs
<1> DEFINE rel(e) == Release(e[1], e[2])
           pri(e) == Priority[e[1]]
           day(e) == e[2]
           takes(op) == CycleQty * Minutes[op]
<1>2. \A e \in Pending : rel(e) \in Int /\ pri(e) \in Int /\ day(e) \in Int
  <2>1. SUFFICES ASSUME NEW e \in Pending PROVE rel(e) \in Int /\ pri(e) \in Int /\ day(e) \in Int
    OBVIOUS
  <2>2. QED
    BY PendingIs, ReleaseIsDay
<1>3. CycleQty \in Nat /\ TwinLot.n = Cardinality(lots) + 1 /\ TwinLot.made = [op \in Pair |-> CycleQty]
      /\ TwinLot.edd \in Int
    BY TwinLotIs
<1>4. \A op \in Pair : takes(op) \in Nat
  <2>1. PICK q \in Nat : q = CycleQty
    BY <1>3
  <2>2. SUFFICES ASSUME NEW op \in Pair PROVE q * Minutes[op] \in Nat
    BY <2>1
  <2>3. PICK m \in Nat : m = Minutes[op]
    BY OperationTypes
  <2>4. q * m \in Nat
    OBVIOUS
  <2>5. QED
    BY <2>3, <2>4
<1>5. PICK r1 \in Int, r2 \in Int, p1 \in Int, p2 \in Int, d1 \in Int, d2 \in Int :
         r1 = rel(Current) /\ r2 = rel(p) /\ p1 = pri(Current) /\ p2 = pri(p)
         /\ d1 = day(Current) /\ d2 = day(p)
    BY <1>1, <1>2
<1>6. PICK m1 \in Nat, m2 \in Nat : m1 = takes(Twins[1]) /\ m2 = takes(Twins[2])
    BY <1>4, OperationTypes
<1>7. /\ {rel(e) : e \in Active} = {r1, r2} /\ {pri(e) : e \in Active} = {p1, p2}
      /\ {day(e) : e \in Active} = {d1, d2} /\ {takes(op) : op \in Pair} = {m1, m2}
    BY <1>1, <1>5, <1>6 DEF Pair
<1>8. /\ TwinLot.release = Min({rel(e) : e \in Active}) /\ TwinLot.priority = Max({pri(e) : e \in Active})
      /\ TwinLot.rupture = Min({day(e) : e \in Active}) /\ TwinLot.minutes = Max({takes(op) : op \in Pair})
      /\ TwinLot.family = Family[Twins[1]]
    BY DEF TwinLot
<1>9. Min({r1, r2}) \in {r1, r2} /\ Max({p1, p2}) \in {p1, p2} /\ Min({d1, d2}) \in {d1, d2}
    BY ExtremesOfTwo
<1>10. Max({m1, m2}) \in {m1, m2}
  <2>1. m1 \in Int /\ m2 \in Int
    OBVIOUS
  <2>2. QED
    BY <2>1, ExtremesOfTwo
<1>11. /\ TwinLot.release \in Int /\ TwinLot.priority \in Int /\ TwinLot.rupture \in Int
       /\ TwinLot.minutes \in Nat
  <2>1. TwinLot.release = Min({r1, r2})
    BY <1>7, <1>8, Zenon
  <2>2. TwinLot.priority = Max({p1, p2})
    BY <1>7, <1>8, Zenon
  <2>3. TwinLot.rupture = Min({d1, d2})
    BY <1>7, <1>8, Zenon
  <2>4. TwinLot.minutes = Max({m1, m2})
    BY <1>7, <1>8, Zenon
  <2>5. QED
    BY <1>9, <1>10, <2>1, <2>2, <2>3, <2>4
<1>12. TwinLot.family \in Int
    BY <1>8, GroupingAssumption, OperationTypes
<1>13. TwinLot.n \in Int
    BY <1>3, FS_CardinalityType DEF SizingTypes, Lots
<1>14. IsFiniteSet(DOMAIN TwinLot.made) /\ \A op \in DOMAIN TwinLot.made : TwinLot.made[op] \in Nat
    BY <1>3, OperationTypes
<1>15. QED
    BY <1>3, <1>11, <1>12, <1>13, <1>14 DEF Keyed

(* and so is the lot of a solo operation.                                  *)
LEMMA SoloLotIsKeyed ==
    ASSUME SizingTypes, NEW op \in Solos, NEW day \in Days, NEW qty \in Nat
    PROVE  Keyed(SoloLot(op, day, qty)) /\ SoloLot(op, day, qty).n = Cardinality(lots) + 1
<1>1. PICK l : l = SoloLot(op, day, qty)
    OBVIOUS
<1>2. op \in Ops /\ day \in Int
    BY OperationTypes
<1>3. /\ l.n = Cardinality(lots) + 1 /\ l.made = [o \in {op} |-> qty] /\ l.family = Family[op]
      /\ l.minutes = qty * Minutes[op] /\ l.edd = ProductionDue(op, day) /\ l.rupture = day
      /\ l.priority = Priority[op] /\ l.release = Release(op, day)
    BY <1>1 DEF SoloLot
<1>4. l.n \in Int
    BY <1>3, FS_CardinalityType DEF SizingTypes, Lots
<1>5. l.minutes \in Nat
  <2>1. PICK m \in Nat : m = Minutes[op]
    BY <1>2, OperationTypes
  <2>2. qty * m \in Nat
    OBVIOUS
  <2>3. QED
    BY <1>3, <2>1, <2>2
<1>6. l.edd \in Int /\ l.release \in Int /\ l.priority \in Int /\ l.rupture \in Int
    BY <1>2, <1>3, ProductionDueIsDay, ReleaseIsDay, OperationTypes
<1>7. l.family \in Int
    BY <1>2, <1>3, GroupingAssumption
<1>8. IsFiniteSet(DOMAIN l.made) /\ \A o \in DOMAIN l.made : l.made[o] \in Nat
    BY <1>3, FS_Singleton
<1>9. Keyed(l)
    BY <1>4, <1>5, <1>6, <1>7, <1>8 DEF Keyed
<1>10. QED
    BY <1>1, <1>3, <1>9

(* Hence the sizing keeps its lots apart by their numbers.                 *)
LEMMA LotsStayKeyed ==
    ASSUME SizingInv, stage = "sizing" => LotsKeyed(lots), SizingNext, stage' \in {"sizing", "sized"}
    PROVE  LotsKeyed(lots')
<1>1. CASE OffsetSupply
  <2>1. lots' = {}
    BY <1>1 DEF OffsetSupply, SizingInv
  <2>2. QED
    BY <2>1, FS_EmptySet DEF LotsKeyed
<1>2. ASSUME stage = "sizing" PROVE SizingTypes /\ LotsKeyed(lots) /\ Sizing
    BY <1>2 DEF SizingInv, Sizing
<1>3. CASE TwinCycle
  <2>1. stage = "sizing" /\ Pending # {} /\ lots' = lots \cup {TwinLot}
    BY <1>3 DEF TwinCycle
  <2>2. QED
    BY <1>2, <2>1, TwinLotIsKeyed, TwinLotIs, KeyedJoins
<1>4. CASE TwinCycleFails
    BY <1>4 DEF TwinCycleFails
<1>5. CASE SoloDemand
  <2>1. stage = "sizing"
    BY <1>5 DEF SoloDemand
  <2>2. PICK op \in Solos, day \in Days : open[op][day] > 0 /\ SoloStep(op, day)
    BY <1>5 DEF SoloDemand, SoloStep
  <2>3. op \in Ops /\ open[op][day] \in Nat /\ surplus[op] \in Nat
    BY <1>2, <2>1, OperationTypes DEF SizingTypes
  <2>4. CASE lots' = lots
    BY <1>2, <2>1, <2>4
  <2>5. CASE lots' # lots
    <3>1. PICK d \in Int : d = open[op][day] - surplus[op]
      BY <2>3
    <3>2. d > 0 /\ lots' = lots \cup {SoloLot(op, day, ApplyEcoLot(op, Requested(op, day, d)))}
      BY <2>2, <2>5, <3>1 DEF SoloStep
    <3>3. PICK q : q = ApplyEcoLot(op, Requested(op, day, d))
      OBVIOUS
    <3>4. q \in Nat
      <4>1. d \in Nat /\ open \in [Ops -> [Days -> Nat]]
        BY <1>2, <2>1, <3>2 DEF SizingTypes
      <4>2. Requested(op, day, d) \in Nat
        BY <4>1, <2>2, RequestedIs
      <4>3. QED
        BY <2>3, <3>3, <4>2, EcoLotCovers
    <3>5. lots' = lots \cup {SoloLot(op, day, q)}
      BY <3>2, <3>3
    <3>6. QED
      BY <1>2, <2>1, <3>4, <3>5, SoloLotIsKeyed, KeyedJoins
  <2>6. QED
    BY <2>4, <2>5
<1>6. CASE Sized
    BY <1>2, <1>6 DEF Sized, sizingVars
<1>7. QED
    BY <1>1, <1>3, <1>4, <1>5, <1>6 DEF SizingNext

-----------------------------------------------------------------------------
(* The order of urgency.                                                   *)

(* A lot is of a whole number of pieces,                                   *)
LEMMA PiecesAreInt == ASSUME NEW l, Keyed(l) PROVE Pieces(l) \in Int
<1>1. \A op \in DOMAIN l.made : l.made[op] \in Int
    BY DEF Keyed
<1>2. SumOver(l.made, DOMAIN l.made) \in Int
    BY <1>1, SumType DEF Keyed
<1>3. QED
    BY <1>2 DEF Pieces

(* and its priority is a key of five numbers, its day and number among     *)
(* them.                                                                   *)
LEMMA LotPriorityIs ==
    ASSUME NEW l, Keyed(l)
    PROVE  LotPriority(l) \in Keys(5) /\ LotPriority(l)[1] = l.edd /\ LotPriority(l)[5] = l.n
<1>1. PICK p \in Int : p = Pieces(l)
    BY PiecesAreInt
<1>2. LotPriority(l) = <<l.edd, l.rupture, -l.priority, -p, l.n>>
    BY <1>1 DEF LotPriority
<1>a. PICK a \in Int : a = l.edd
    BY DEF Keyed
<1>b. PICK b \in Int : b = l.rupture
    BY DEF Keyed
<1>c. PICK c \in Int : c = -l.priority
    BY DEF Keyed
<1>d. PICK d \in Int : d = -p
    OBVIOUS
<1>e. PICK e \in Int : e = l.n
    BY DEF Keyed
<1>3. a = l.edd /\ b = l.rupture /\ c = -l.priority /\ d = -p /\ e = l.n
    BY <1>a, <1>b, <1>c, <1>d, <1>e
<1>4. LotPriority(l) = <<a, b, c, d, e>>
    BY <1>2, <1>3
<1>5. <<a, b, c, d, e>> \in [1..5 -> Int]
    OBVIOUS
<1>6. QED
    BY <1>3, <1>4, <1>5 DEF Keys

(* The lots of a set, in order of urgency.                                 *)
UrgentFirst(s, S) ==
    /\ s \in Seq(S)
    /\ \A i, j \in 1..Len(s) : i < j => s[i].edd <= s[j].edd /\ s[i] # s[j]
    /\ \A x \in S : \E i \in 1..Len(s) : s[i] = x

(* Sorted puts the lots of a set in this order.                            *)
LEMMA SortedIs ==
    ASSUME LotsKeyed(lots), NEW S, S \in SUBSET lots
    PROVE  UrgentFirst(Sorted(S), S)
<1>1. IsFiniteSet(S) /\ \A l \in S : Keyed(l)
    BY FS_Subset DEF LotsKeyed
<1> DEFINE K == [l \in S |-> LotPriority(l)]
<1> DEFINE R == {p \in S \X S : Precedes(K[p[1]], K[p[2]])}
<1>2. \A l \in S : K[l] \in Keys(5) /\ K[l][1] = l.edd /\ K[l][5] = l.n /\ K[l] = LotPriority(l)
    BY <1>1, LotPriorityIs
<1> HIDE DEF K
<1>3. \A x, y \in S : <<x, y>> \in R <=> Precedes(K[x], K[y])
  <2>1. SUFFICES ASSUME NEW x \in S, NEW y \in S PROVE <<x, y>> \in R <=> Precedes(K[x], K[y])
    OBVIOUS
  <2>2. PICK p : p = <<x, y>>
    OBVIOUS
  <2>3. p[1] = x /\ p[2] = y /\ p \in S \X S
    BY <2>2
  <2>4. p \in R <=> Precedes(K[x], K[y])
    BY <2>3
  <2>5. QED
    BY <2>2, <2>4
<1> HIDE DEF R
<1>4. \A x, y \in S : x # y => K[x] # K[y]
    BY <1>2 DEF LotsKeyed
<1>5. 5 \in Nat /\ 5 # 0
    OBVIOUS
<1>6. \A x, y \in S : x # y => <<x, y>> \in R \/ <<y, x>> \in R
    BY <1>2, <1>3, <1>4, <1>5, PrecedesTotal
<1>7. \A x \in S : <<x, x>> \notin R
    BY <1>2, <1>3, <1>5, PrecedesNot
<1>8. \A x, y, z \in S : <<x, y>> \in R /\ <<y, z>> \in R => <<x, z>> \in R
  <2>1. SUFFICES ASSUME NEW x \in S, NEW y \in S, NEW z \in S, <<x, y>> \in R, <<y, z>> \in R
                 PROVE  Precedes(K[x], K[z])
    BY <1>3
  <2>2. QED
    BY <2>1, <1>2, <1>3, <1>5, PrecedesTransitive
<1>9. Sorted(S) = ByRank(S, R)
  <2>1. \A x \in S : BeforeIn(S, R, x) = {y \in S : Precedes(LotPriority(y), LotPriority(x))}
    BY <1>2, <1>3 DEF BeforeIn
  <2>2. \A i \in 1..Cardinality(S) :
          (CHOOSE x \in S : Cardinality(BeforeIn(S, R, x)) = i - 1)
          = (CHOOSE x \in S : Cardinality({y \in S : Precedes(LotPriority(y), LotPriority(x))}) = i - 1)
    BY <2>1
  <2>3. QED
    BY <2>2 DEF Sorted, InSequence, ByRank
<1>10. PICK t : t = ByRank(S, R)
    OBVIOUS
<1>11. /\ Cardinality(S) \in Nat
       /\ t \in [1..Cardinality(S) -> S]
       /\ \A i, j \in 1..Cardinality(S) : i < j => <<t[i], t[j]>> \in R
       /\ \A x \in S : \E i \in 1..Cardinality(S) : t[i] = x
  <2>1. TotalOn(R, S)
    BY <1>6, <1>7, <1>8 DEF TotalOn
  <2>2. QED
    BY <1>1, <1>10, <2>1, RanksAreOrder
<1>12. t \in Seq(S) /\ Len(t) = Cardinality(S)
    BY <1>11
<1>13. \A i, j \in 1..Len(t) : i < j => t[i].edd <= t[j].edd /\ t[i] # t[j]
  <2>1. SUFFICES ASSUME NEW i \in 1..Len(t), NEW j \in 1..Len(t), i < j
                 PROVE  t[i].edd <= t[j].edd /\ t[i] # t[j]
    OBVIOUS
  <2>2. t[i] \in S /\ t[j] \in S /\ <<t[i], t[j]>> \in R
    BY <1>11, <1>12, <2>1
  <2>3. K[t[i]][1] <= K[t[j]][1]
    BY <1>2, <1>3, <1>5, <2>2, PrecedesFirst
  <2>4. QED
    BY <1>2, <1>7, <2>2, <2>3
<1>14. UrgentFirst(t, S)
    BY <1>11, <1>12, <1>13 DEF UrgentFirst
<1>15. QED
    BY <1>9, <1>10, <1>14

(* The minutes of a run, one lot at a time.                                *)
LEMMA MinutesAppend ==
    ASSUME NEW S, \A l \in S : Keyed(l), NEW its \in Seq(S), NEW l \in S
    PROVE  /\ RunMinutes(its) \in Nat
           /\ RunMinutes(Append(its, l)) = RunMinutes(its) + l.minutes
<1>1. PICK n \in Nat : n = Len(its) /\ DOMAIN its = 1..n /\ \A i \in 1..n : its[i] \in S
    BY ElementOfSeq
<1>2. PICK new : new = Append(its, l)
    OBVIOUS
<1>3. new \in Seq(S) /\ DOMAIN new = 1..(n + 1) /\ new[n + 1] = l /\ \A i \in 1..n : new[i] = its[i]
    BY <1>1, <1>2
<1>4. \A x \in S : x.minutes \in Nat
    BY DEF Keyed
<1> DEFINE f == [i \in 1..n |-> its[i].minutes]
           g == [i \in 1..(n + 1) |-> new[i].minutes]
<1>5. RunMinutes(its) = SumOver(f, 1..n) /\ RunMinutes(new) = SumOver(g, 1..(n + 1))
    BY <1>1, <1>3 DEF RunMinutes
<1>6. /\ \A i \in 1..n : f[i] \in Nat /\ f[i] \in Int /\ g[i] = f[i]
      /\ g[n + 1] = l.minutes /\ g[n + 1] \in Int
    BY <1>1, <1>3, <1>4
<1> HIDE DEF f, g
<1>7. IsFiniteSet(1..n) /\ 1..(n + 1) = (1..n) \cup {n + 1} /\ n + 1 \notin 1..n
  <2>1. IsFiniteSet(1..n)
    BY FS_Interval
  <2>2. QED
    BY <2>1
<1>8. SumOver(f, 1..n) \in Nat
    BY <1>6, <1>7, SumIsNat
<1>9. SumOver(g, (1..n) \cup {n + 1}) = g[n + 1] + SumOver(g, 1..n)
  <2>1. \A x \in (1..n) \cup {n + 1} : g[x] \in Int
    BY <1>6
  <2>2. QED
    BY <1>7, <2>1, SumAdd
<1>10. SumOver(g, 1..n) = SumOver(f, 1..n)
  <2>1. \A x \in 1..n : g[x] = f[x]
    BY <1>6
  <2>2. QED
    BY <1>7, <2>1, SumSame
<1>11. RunMinutes(its) \in Nat
    BY <1>5, <1>8
<1>12. RunMinutes(new) = RunMinutes(its) + l.minutes
  <2>1. RunMinutes(new) = l.minutes + SumOver(f, 1..n)
    BY <1>5, <1>6, <1>7, <1>9, <1>10
  <2>2. QED
    BY <1>4, <1>5, <1>8, <2>1
<1>13. QED
    BY <1>2, <1>11, <1>12

-----------------------------------------------------------------------------
(* The chains of the lots of a family.                                     *)

(* What holds of the lots of a run: one floor, within the span, in order   *)
(* of their days and within the gap, and within the minutes of a run       *)
(* unless there is one lot only.                                           *)
Together(its) ==
    /\ \A i \in 1..Len(its) : /\ Floor(its[i]) = Floor(its[1])
                              /\ its[i].edd - its[1].edd <= MaxSpan
    /\ \A i, j \in 1..Len(its) : i < j => its[i].edd <= its[j].edd
    /\ \A i \in 2..Len(its) : its[i].edd - its[i - 1].edd <= MaxGap
    /\ Len(its) = 1 \/ RunMinutes(its) <= MaxRunMinutes

(* It holds of a lot alone,                                                *)
LEMMA TogetherAlone ==
    ASSUME NEW S, \A l \in S : Keyed(l), NEW l \in S
    PROVE  <<l>> \in Seq(S) /\ <<l>> # <<>> /\ Together(<<l>>)
<1>1. PICK its : its = <<l>>
    OBVIOUS
<1>2. its \in Seq(S) /\ its # <<>> /\ Len(its) = 1 /\ its[1] = l
    BY <1>1
<1>3. l.edd \in Int /\ MaxSpan \in Nat
    BY GroupingAssumption DEF Keyed
<1>4. Together(its)
    BY <1>2, <1>3 DEF Together
<1>5. QED
    BY <1>1, <1>2, <1>4

(* and of a run that a lot joins which does not split it.                  *)
LEMMA TogetherJoined ==
    ASSUME NEW S, \A l \in S : Keyed(l), NEW its \in Seq(S), its # <<>>, Together(its), NEW l \in S,
           Last(its).edd <= l.edd, ~Splits(its, l)
    PROVE  Append(its, l) \in Seq(S) /\ Append(its, l) # <<>> /\ Together(Append(its, l))
<1>1. PICK n \in Nat : n = Len(its) /\ n >= 1 /\ \A i \in 1..n : its[i] \in S
    BY ElementOfSeq
<1>2. PICK new : new = Append(its, l)
    OBVIOUS
<1>3. new \in Seq(S) /\ Len(new) = n + 1 /\ new[n + 1] = l /\ \A i \in 1..n : new[i] = its[i]
    BY <1>1, <1>2
<1>4. \A x \in S : x.edd \in Int /\ x.minutes \in Nat
    BY DEF Keyed
<1>5. /\ Floor(l) = Floor(its[n]) /\ ~(l.edd - its[n].edd > MaxGap) /\ its[n].edd <= l.edd
      /\ ~(RunMinutes(its) + l.minutes > MaxRunMinutes) /\ ~(l.edd - its[1].edd > MaxSpan)
    BY <1>1 DEF Splits, Last
<1>6. MaxGap \in Nat /\ MaxSpan \in Nat /\ MaxRunMinutes \in Nat
    BY GroupingAssumption
<1>7. RunMinutes(its) \in Nat /\ RunMinutes(new) = RunMinutes(its) + l.minutes
    BY <1>2, MinutesAppend
<1>8. RunMinutes(new) <= MaxRunMinutes
    BY <1>4, <1>5, <1>6, <1>7
<1>9. \A i \in 1..(n + 1) : Floor(new[i]) = Floor(new[1]) /\ new[i].edd - new[1].edd <= MaxSpan
  <2>1. SUFFICES ASSUME NEW i \in 1..(n + 1)
                 PROVE  Floor(new[i]) = Floor(new[1]) /\ new[i].edd - new[1].edd <= MaxSpan
    OBVIOUS
  <2>2. CASE i \in 1..n
    BY <1>1, <1>3, <2>2 DEF Together
  <2>3. CASE i = n + 1
    <3>1. Floor(its[n]) = Floor(its[1])
      BY <1>1 DEF Together
    <3>2. its[1] \in S /\ its[1] = new[1]
      BY <1>1, <1>3
    <3>3. QED
      BY <1>3, <1>4, <1>5, <1>6, <2>3, <3>1, <3>2
  <2>4. QED
    BY <2>2, <2>3
<1>10. \A i, j \in 1..(n + 1) : i < j => new[i].edd <= new[j].edd
  <2>1. SUFFICES ASSUME NEW i \in 1..(n + 1), NEW j \in 1..(n + 1), i < j
                 PROVE  new[i].edd <= new[j].edd
    OBVIOUS
  <2>2. CASE j \in 1..n
    <3>1. i \in 1..n /\ new[i] = its[i] /\ new[j] = its[j]
      BY <1>3, <2>1, <2>2
    <3>2. QED
      BY <1>1, <2>1, <2>2, <3>1 DEF Together
  <2>3. CASE j = n + 1
    <3>1. i \in 1..n /\ n \in 1..n /\ its[i] \in S /\ its[n] \in S
      BY <1>1, <2>1, <2>3
    <3>2. its[i].edd <= its[n].edd
      <4>1. CASE i = n
        BY <1>4, <3>1, <4>1
      <4>2. CASE i < n
        BY <1>1, <3>1, <4>2 DEF Together
      <4>3. QED
        BY <3>1, <4>1, <4>2
    <3>3. PICK a \in Int, b \in Int, e \in Int : a = its[i].edd /\ b = its[n].edd /\ e = l.edd
      BY <1>4, <3>1
    <3>4. new[i].edd = a /\ new[j].edd = e
      BY <1>3, <2>3, <3>1, <3>3
    <3>5. a <= b /\ b <= e
      BY <1>5, <3>2, <3>3
    <3>6. a <= e
      BY <3>5
    <3>7. QED
      BY <3>4, <3>6, Zenon
  <2>4. QED
    BY <2>2, <2>3
<1>11. \A i \in 2..(n + 1) : new[i].edd - new[i - 1].edd <= MaxGap
  <2>1. SUFFICES ASSUME NEW i \in 2..(n + 1) PROVE new[i].edd - new[i - 1].edd <= MaxGap
    OBVIOUS
  <2>2. CASE i \in 2..n
    <3>1. i - 1 \in 1..n /\ i \in 1..n
      BY <2>2
    <3>2. QED
      BY <1>1, <1>3, <2>2, <3>1 DEF Together
  <2>3. CASE i = n + 1
    <3>1. i - 1 = n /\ n \in 1..n /\ new[i] = l /\ new[n] = its[n] /\ its[n] \in S
      BY <1>1, <1>3, <2>3
    <3>2. l.edd - its[n].edd <= MaxGap
      BY <1>4, <1>5, <1>6, <3>1
    <3>3. QED
      BY <3>1, <3>2
  <2>4. QED
    BY <2>2, <2>3
<1>12. Together(new)
    BY <1>3, <1>8, <1>9, <1>10, <1>11 DEF Together
<1>13. QED
    BY <1>2, <1>3, <1>12

(* The runs made of the first k lots of a sequence: each of these lots is  *)
(* in one place, and the last of them is the last of the last run.         *)
ChainOk(c, k, s, S) ==
    /\ c \in Seq(Seq(S))
    /\ \A j \in 1..Len(c) : c[j] # <<>> /\ Together(c[j])
    /\ \A i \in 1..k : \E j \in 1..Len(c) : \E m \in 1..Len(c[j]) : c[j][m] = s[i]
    /\ \A j \in 1..Len(c) : \A m \in 1..Len(c[j]) : \E i \in 1..k : c[j][m] = s[i]
    /\ \A i, j \in 1..Len(c) : \A m \in 1..Len(c[i]), p \in 1..Len(c[j]) :
         c[i][m] = c[j][p] => i = j /\ m = p
    /\ k > 0 => Len(c) > 0 /\ Last(Last(c)) = s[k]

(* The runs that the next lot joins or begins: the step of Chained.        *)
Linked(done, l) ==
    IF done = <<>> \/ Splits(Last(done), l) THEN Append(done, <<l>>)
    ELSE [done EXCEPT ![Len(done)] = Append(@, l)]

(* It keeps what holds of the runs.                                        *)
LEMMA LinkedIs ==
    ASSUME NEW S, \A l \in S : Keyed(l), NEW s, UrgentFirst(s, S), NEW k \in 0..(Len(s) - 1),
           NEW c, ChainOk(c, k, s, S)
    PROVE  ChainOk(Linked(c, s[k + 1]), k + 1, s, S)
<1>1. PICK n \in Nat : n = Len(c) /\ c \in Seq(Seq(S)) /\ \A j \in 1..n : c[j] \in Seq(S)
    BY ElementOfSeq DEF ChainOk
<1>2. PICK l \in S : l = s[k + 1]
    BY ElementOfSeq DEF UrgentFirst
<1>c. /\ \A j \in 1..n : c[j] # <<>> /\ Together(c[j])
      /\ \A i \in 1..k : \E j \in 1..n : \E m \in 1..Len(c[j]) : c[j][m] = s[i]
      /\ \A j \in 1..n : \A m \in 1..Len(c[j]) : \E i \in 1..k : c[j][m] = s[i]
      /\ \A i, j \in 1..n : \A m \in 1..Len(c[i]), p \in 1..Len(c[j]) :
           c[i][m] = c[j][p] => i = j /\ m = p
      /\ k > 0 => n > 0 /\ Last(Last(c)) = s[k]
    BY <1>1, Zenon DEF ChainOk
<1>once. \A i, j \in 1..n : \A m \in 1..Len(c[i]), p \in 1..Len(c[j]) :
           c[i][m] = c[j][p] => i = j /\ m = p
    BY <1>c, Zenon
<1>len. PICK N \in Nat : N = Len(s) /\ k + 1 \in 1..N /\ k \in Nat
  <2>1. PICK N \in Nat : N = Len(s)
    BY DEF UrgentFirst
  <2>2. k \in 0..(N - 1)
    BY <2>1, Zenon
  <2>3. k + 1 \in 1..N /\ k \in Nat
    BY <2>2
  <2>4. QED
    BY <2>1, <2>3, Zenon
<1>3. \A j \in 1..n : \A m \in 1..Len(c[j]) : c[j][m] # l
  <2>1. SUFFICES ASSUME NEW j \in 1..n, NEW m \in 1..Len(c[j]) PROVE c[j][m] # l
    OBVIOUS
  <2>a. \A q \in 1..n : \A o \in 1..Len(c[q]) : \E i \in 1..k : c[q][o] = s[i]
    BY <1>c, Zenon
  <2>b. \E i \in 1..k : c[j][m] = s[i]
    BY <2>1, <2>a
  <2>2. PICK i \in 1..k : c[j][m] = s[i]
    BY <2>b
  <2>3. i \in 1..Len(s) /\ k + 1 \in 1..Len(s) /\ i < k + 1
    BY <1>len
  <2>4. QED
    BY <1>2, <2>2, <2>3 DEF UrgentFirst
<1>4. \A j \in 1..n : \A m \in 1..Len(c[j]) : \E i \in 1..(k + 1) : c[j][m] = s[i]
  <2>1. \A i \in 1..k : i \in 1..(k + 1)
    BY <1>len
  <2>2. QED
    BY <1>c, <2>1
<1>5. \A i \in 1..(k + 1) : i \in 1..k \/ s[i] = l
    BY <1>2
<1>6. CASE c = <<>> \/ Splits(Last(c), l)
  <2>1. PICK d : d = Append(c, <<l>>)
    OBVIOUS
  <2>2. <<l>> \in Seq(S) /\ <<l>> # <<>> /\ Together(<<l>>) /\ Len(<<l>>) = 1 /\ <<l>>[1] = l
    BY TogetherAlone
  <2>3. d \in Seq(Seq(S)) /\ Len(d) = n + 1 /\ d[n + 1] = <<l>> /\ \A j \in 1..n : d[j] = c[j]
    BY <1>1, <2>1, <2>2
  <2>4. \A j \in 1..Len(d) : d[j] # <<>> /\ Together(d[j])
    <3>1. SUFFICES ASSUME NEW j \in 1..(n + 1) PROVE d[j] # <<>> /\ Together(d[j])
      BY <2>3
    <3>2. CASE j \in 1..n
      BY <1>1, <2>3, <3>2 DEF ChainOk
    <3>3. CASE j = n + 1
      BY <2>2, <2>3, <3>3
    <3>4. QED
      BY <3>2, <3>3
  <2>5. \A i \in 1..(k + 1) : \E j \in 1..Len(d) : \E m \in 1..Len(d[j]) : d[j][m] = s[i]
    <3>1. SUFFICES ASSUME NEW i \in 1..(k + 1)
                   PROVE  \E j \in 1..Len(d) : \E m \in 1..Len(d[j]) : d[j][m] = s[i]
      OBVIOUS
    <3>2. CASE i \in 1..k
      <4>1. PICK j \in 1..n : \E m \in 1..Len(c[j]) : c[j][m] = s[i]
        BY <1>1, <3>2 DEF ChainOk
      <4>2. d[j] = c[j] /\ j \in 1..Len(d)
        BY <2>3
      <4>3. QED
        BY <4>1, <4>2
    <3>3. CASE s[i] = l
      <4>1. n + 1 \in 1..Len(d) /\ 1 \in 1..Len(d[n + 1]) /\ d[n + 1][1] = l
        BY <2>2, <2>3
      <4>2. QED
        BY <3>3, <4>1
    <3>4. QED
      BY <1>5, <3>2, <3>3
  <2>6. \A j \in 1..(n + 1) : \A m \in 1..Len(d[j]) :
          \/ j \in 1..n /\ d[j] = c[j] /\ m \in 1..Len(c[j])
          \/ j = n + 1 /\ m = 1 /\ d[j][m] = l
    <3>1. SUFFICES ASSUME NEW j \in 1..(n + 1), NEW m \in 1..Len(d[j])
                   PROVE  \/ j \in 1..n /\ d[j] = c[j] /\ m \in 1..Len(c[j])
                          \/ j = n + 1 /\ m = 1 /\ d[j][m] = l
      OBVIOUS
    <3>2. CASE j \in 1..n
      BY <2>3, <3>2
    <3>3. CASE j = n + 1
      <4>1. d[j] = <<l>>
        BY <2>3, <3>3
      <4>2. m = 1
        BY <2>2, <4>1
      <4>3. QED
        BY <2>2, <3>3, <4>1, <4>2
    <3>4. QED
      BY <3>2, <3>3
  <2>7. \A j \in 1..Len(d) : \A m \in 1..Len(d[j]) : \E i \in 1..(k + 1) : d[j][m] = s[i]
    <3>1. SUFFICES ASSUME NEW j \in 1..(n + 1), NEW m \in 1..Len(d[j])
                   PROVE  \E i \in 1..(k + 1) : d[j][m] = s[i]
      BY <2>3
    <3>2. k + 1 \in 1..(k + 1)
      BY <1>len
    <3>3. CASE j \in 1..n /\ d[j] = c[j] /\ m \in 1..Len(c[j])
      BY <1>4, <3>3
    <3>4. CASE d[j][m] = l
      BY <1>2, <3>2, <3>4
    <3>5. QED
      BY <2>6, <3>3, <3>4
  <2>8. \A i, j \in 1..Len(d) : \A m \in 1..Len(d[i]), p \in 1..Len(d[j]) :
          d[i][m] = d[j][p] => i = j /\ m = p
    <3>1. SUFFICES ASSUME NEW i \in 1..(n + 1), NEW j \in 1..(n + 1),
                          NEW m \in 1..Len(d[i]), NEW p \in 1..Len(d[j]), d[i][m] = d[j][p]
                   PROVE  i = j /\ m = p
      BY <2>3
    <3>2. CASE i \in 1..n /\ j \in 1..n
      <4>1. d[i] = c[i] /\ d[j] = c[j]
        BY <2>3, <3>2
      <4>2. QED
        <5>1. m \in 1..Len(c[i]) /\ p \in 1..Len(c[j]) /\ c[i][m] = c[j][p]
          BY <3>1, <4>1
        <5>2. QED
          BY <1>once, <3>2, <5>1
    <3>3. CASE ~(i \in 1..n /\ j \in 1..n)
      BY <1>3, <2>6, <3>1, <3>3
    <3>4. QED
      BY <3>2, <3>3
  <2>9. Len(d) > 0 /\ Last(Last(d)) = s[k + 1]
    BY <1>2, <2>2, <2>3 DEF Last
  <2>10. ChainOk(d, k + 1, s, S)
    BY <2>3, <2>4, <2>5, <2>7, <2>8, <2>9, Zenon DEF ChainOk
  <2>11. QED
    BY <1>2, <1>6, <2>1, <2>10 DEF Linked
<1>7. CASE ~(c = <<>> \/ Splits(Last(c), l))
  <2>1. n >= 1 /\ n \in 1..n /\ Last(c) = c[n]
    BY <1>1, <1>7 DEF Last
  <2>2. PICK its \in Seq(S) : its = c[n] /\ its # <<>> /\ Together(its)
    BY <1>1, <2>1 DEF ChainOk
  <2>3. PICK q \in Nat : q = Len(its) /\ q >= 1
    BY <2>2
  <2>4. k >= 1
    <3>1. 1 \in 1..Len(c[n])
      BY <2>2, <2>3
    <3>2. \E i \in 1..k : c[n][1] = s[i]
      <4>1. \A m \in 1..Len(c[n]) : \E i \in 1..k : c[n][m] = s[i]
        BY Zenon, <1>c, <2>1
      <4>2. QED
        BY <3>1, <4>1
    <3>3. QED
      BY <3>2
  <2>5. its[q] = s[k]
    BY <2>1, <2>2, <2>3, <2>4 DEF ChainOk, Last
  <2>6. Last(its).edd <= l.edd
    <3>1. k \in 1..Len(s) /\ k + 1 \in 1..Len(s)
      BY <2>4, <1>len
    <3>2. s[k].edd <= s[k + 1].edd
      <4>1. k < k + 1
        BY <1>len
      <4>2. QED
        BY <3>1, <4>1 DEF UrgentFirst
    <3>3. QED
      BY <1>2, <2>3, <2>5, <3>2 DEF Last
  <2>7. ~Splits(its, l)
    BY <1>7, <2>1, <2>2
  <2>8. PICK new : new = Append(its, l)
    OBVIOUS
  <2>9. /\ new \in Seq(S) /\ new # <<>> /\ Together(new)
        /\ Len(new) = q + 1 /\ new[q + 1] = l /\ \A m \in 1..q : new[m] = its[m]
    <3>1. new \in Seq(S) /\ new # <<>> /\ Together(new)
      BY <2>2, <2>6, <2>7, <2>8, TogetherJoined
    <3>2. QED
      BY <2>3, <2>8, <3>1
  <2>10. PICK d : d = [c EXCEPT ![n] = new]
    OBVIOUS
  <2>11. d \in Seq(Seq(S)) /\ Len(d) = n /\ d[n] = new /\ \A j \in 1..n : j # n => d[j] = c[j]
    BY <1>1, <2>1, <2>9, <2>10
  <2>12. \A j \in 1..Len(d) : d[j] # <<>> /\ Together(d[j])
    <3>1. SUFFICES ASSUME NEW j \in 1..n PROVE d[j] # <<>> /\ Together(d[j])
      BY <2>11
    <3>2. CASE j = n
      BY <2>9, <2>11, <3>2
    <3>3. CASE j # n
      BY <1>c, <2>11, <3>3
    <3>4. QED
      BY <3>2, <3>3
  <2>13. \A j \in 1..n : \A m \in 1..Len(c[j]) : m \in 1..Len(d[j]) /\ d[j][m] = c[j][m]
    <3>1. SUFFICES ASSUME NEW j \in 1..n, NEW m \in 1..Len(c[j])
                   PROVE  m \in 1..Len(d[j]) /\ d[j][m] = c[j][m]
      OBVIOUS
    <3>2. CASE j = n
      BY <2>2, <2>3, <2>9, <2>11, <3>2
    <3>3. QED
      BY <2>11, <3>2
  <2>14. \A j \in 1..n : \A m \in 1..Len(d[j]) :
           \/ m \in 1..Len(c[j]) /\ d[j][m] = c[j][m]
           \/ j = n /\ m = q + 1 /\ d[j][m] = l
    <3>1. SUFFICES ASSUME NEW j \in 1..n, NEW m \in 1..Len(d[j])
                   PROVE  \/ m \in 1..Len(c[j]) /\ d[j][m] = c[j][m]
                          \/ j = n /\ m = q + 1 /\ d[j][m] = l
      OBVIOUS
    <3>2. CASE j = n
      <4>1. m \in 1..(q + 1)
        BY <2>9, <2>11, <3>2
      <4>2. m \in 1..q \/ m = q + 1
        BY <4>1
      <4>3. QED
        BY <2>2, <2>3, <2>9, <2>11, <3>2, <4>2
    <3>3. QED
      BY <2>11, <3>2
  <2>15. \A i \in 1..(k + 1) : \E j \in 1..Len(d) : \E m \in 1..Len(d[j]) : d[j][m] = s[i]
    <3>1. SUFFICES ASSUME NEW i \in 1..(k + 1)
                   PROVE  \E j \in 1..n : \E m \in 1..Len(d[j]) : d[j][m] = s[i]
      BY <2>11
    <3>2. CASE i \in 1..k
      <4>1. PICK j \in 1..n : \E m \in 1..Len(c[j]) : c[j][m] = s[i]
        BY <1>1, <3>2 DEF ChainOk
      <4>2. QED
        BY <4>1, <2>13
    <3>3. CASE s[i] = l
      <4>1. q + 1 \in 1..Len(d[n]) /\ d[n][q + 1] = l
        BY <2>3, <2>9, <2>11
      <4>2. QED
        BY <2>1, <3>3, <4>1
    <3>4. QED
      BY <1>5, <3>2, <3>3
  <2>16. \A j \in 1..Len(d) : \A m \in 1..Len(d[j]) : \E i \in 1..(k + 1) : d[j][m] = s[i]
    <3>1. SUFFICES ASSUME NEW j \in 1..n, NEW m \in 1..Len(d[j])
                   PROVE  \E i \in 1..(k + 1) : d[j][m] = s[i]
      BY <2>11
    <3>2. k + 1 \in 1..(k + 1)
      BY <1>len
    <3>3. CASE m \in 1..Len(c[j]) /\ d[j][m] = c[j][m]
      BY <1>4, <3>3
    <3>4. CASE d[j][m] = l
      BY <1>2, <3>2, <3>4
    <3>5. QED
      BY <2>14, <3>3, <3>4
  <2>17. \A i, j \in 1..Len(d) : \A m \in 1..Len(d[i]), p \in 1..Len(d[j]) :
           d[i][m] = d[j][p] => i = j /\ m = p
    <3>1. SUFFICES ASSUME NEW i \in 1..n, NEW j \in 1..n,
                          NEW m \in 1..Len(d[i]), NEW p \in 1..Len(d[j]), d[i][m] = d[j][p]
                   PROVE  i = j /\ m = p
      BY <2>11
    <3>2. CASE m \in 1..Len(c[i]) /\ d[i][m] = c[i][m] /\ p \in 1..Len(c[j]) /\ d[j][p] = c[j][p]
      <4>1. m \in 1..Len(c[i]) /\ p \in 1..Len(c[j]) /\ c[i][m] = c[j][p]
        BY <3>1, <3>2
      <4>2. QED
        BY <1>once, <4>1
    <3>3. CASE m \in 1..Len(c[i]) /\ d[i][m] = c[i][m] /\ d[j][p] = l
      BY <1>3, <3>1, <3>3
    <3>4. CASE p \in 1..Len(c[j]) /\ d[j][p] = c[j][p] /\ d[i][m] = l
      BY <1>3, <3>1, <3>4
    <3>5. QED
      BY <2>14, <3>2, <3>3, <3>4
  <2>18. Len(d) > 0 /\ Last(Last(d)) = s[k + 1]
    BY <1>2, <2>1, <2>3, <2>9, <2>11 DEF Last
  <2>19. ChainOk(d, k + 1, s, S)
    BY <2>11, <2>12, <2>15, <2>16, <2>17, <2>18, Zenon DEF ChainOk
  <2>20. Linked(c, s[k + 1]) = d
    BY <1>1, <1>2, <1>7, <2>2, <2>8, <2>10 DEF Linked
  <2>21. QED
    BY <2>19, <2>20
<1>8. QED
    BY <1>6, <1>7

(* The first positions are a set whose last element is known.              *)
LEMMA PrefixIs ==
    ASSUME NEW n \in Nat, NEW k \in 0..(n - 1)
    PROVE  /\ 1..(k + 1) \in SUBSET (1..n) /\ 1..(k + 1) # {} /\ Max(1..(k + 1)) = k + 1
           /\ (1..(k + 1)) \ {k + 1} = 1..k
<1>1. PICK s : s = 1..(k + 1)
    OBVIOUS
<1>2. k \in Int /\ k + 1 <= n /\ k + 1 >= 1
    OBVIOUS
<1>3. s \in SUBSET (1..n) /\ k + 1 \in s /\ s \subseteq Int /\ s # {}
    BY <1>1, <1>2
<1>4. IsFiniteSet(s)
  <2>1. IsFiniteSet(1..(k + 1))
    BY <1>2, FS_Interval
  <2>2. QED
    BY <1>1, <2>1
<1>5. Max(s) \in s /\ \A y \in s : Max(s) >= y
    BY <1>3, <1>4, MaxIs
<1>6. Max(s) = k + 1
    BY <1>1, <1>2, <1>3, <1>5
<1>7. QED
    BY <1>1, <1>2, <1>3, <1>6

(* Chained is a fold over the lots by this step.                           *)
ChainEquation(iter, s) ==
    iter = [p \in SUBSET DOMAIN s |-> IF p = {} THEN <<>> ELSE Linked(iter[p \ {Max(p)}], s[Max(p)])]
ChainOf(s) == CHOOSE iter : ChainEquation(iter, s)

(* Chained is this fold at all the positions.                              *)
LEMMA ChainedIsChain == ASSUME NEW s PROVE Chained(s) = ChainOf(s)[DOMAIN s]
BY Zenon DEF Chained, FoldLeft, MapThenFoldSet, ChainOf, ChainEquation, Linked

(* The step takes a sequence of runs to a sequence of runs,                *)
LEMMA LinkedType ==
    ASSUME NEW S, NEW c \in Seq(Seq(S)), NEW l \in S
    PROVE  Linked(c, l) \in Seq(Seq(S))
<1>1. <<l>> \in Seq(S)
    OBVIOUS
<1>2. Append(c, <<l>>) \in Seq(Seq(S))
    BY <1>1
<1>3. CASE c # <<>>
  <2>1. PICK n \in Nat : n = Len(c) /\ n \in 1..n
    BY <1>3
  <2>2. c[n] \in Seq(S)
    BY <2>1, ElementOfSeq
  <2>3. Append(c[n], l) \in Seq(S)
    BY <2>2
  <2>4. PICK t \in Seq(S) : t = Append(c[n], l)
    BY <2>3
  <2>5. [c EXCEPT ![n] = t] \in Seq(Seq(S))
    BY <2>1
  <2>6. QED
    BY <1>2, <2>1, <2>4, <2>5 DEF Linked
<1>4. QED
    BY <1>2, <1>3 DEF Linked

(* so that there is such a fold.                                           *)
LEMMA ChainExists ==
    ASSUME NEW S, NEW s \in Seq(S)
    PROVE  ChainEquation(ChainOf(s), s)
<1>1. PICK n \in Nat : n = Len(s) /\ DOMAIN s = 1..n /\ \A i \in 1..n : s[i] \in S
    BY ElementOfSeq
<1>2. PICK V : V = Seq(Seq(S))
    OBVIOUS
<1> DEFINE g == [p \in (1..n) \X V |-> Linked(p[2], s[p[1]])]
<1>3. g \in [(1..n) \X V -> V]
    BY <1>1, <1>2, LinkedType
<1>4. \A i \in 1..n, c \in V : g[<<i, c>>] = Linked(c, s[i])
  <2>1. SUFFICES ASSUME NEW i \in 1..n, NEW c \in V PROVE g[<<i, c>>] = Linked(c, s[i])
    OBVIOUS
  <2>2. PICK p : p = <<i, c>>
    OBVIOUS
  <2>3. p[1] = i /\ p[2] = c /\ p \in (1..n) \X V
    BY <2>2
  <2>4. g[p] = Linked(p[2], s[p[1]])
    BY <2>3
  <2>5. QED
    BY <2>2, <2>3, <2>4
<1> HIDE DEF g
<1>5. <<>> \in V
    BY <1>2
<1>6. PICK iter : iter \in [SUBSET (1..n) -> V] /\ FoldEquation(iter, n, <<>>, g)
    BY <1>3, <1>5, FoldExists
<1>7. \A p \in SUBSET (1..n) :
        iter[p] = IF p = {} THEN <<>> ELSE Linked(iter[p \ {Max(p)}], s[Max(p)])
  <2>1. SUFFICES ASSUME NEW p \in SUBSET (1..n)
                 PROVE  iter[p] = IF p = {} THEN <<>> ELSE Linked(iter[p \ {Max(p)}], s[Max(p)])
    OBVIOUS
  <2>2. iter[p] = IF p = {} THEN <<>> ELSE g[<<Max(p), iter[p \ {Max(p)}]>>]
    BY <1>6, Zenon DEF FoldEquation
  <2>3. CASE p # {}
    <3>1. p \subseteq Int /\ IsFiniteSet(p)
      <4>1. IsFiniteSet(1..n)
        BY FS_Interval
      <4>2. IsFiniteSet(p)
        BY <4>1, FS_Subset
      <4>3. QED
        BY <4>2
    <3>2. PICK m \in 1..n : m = Max(p)
      BY <2>3, <3>1, MaxIs
    <3>3. p \ {m} \in SUBSET (1..n)
      OBVIOUS
    <3>4. PICK c \in V : c = iter[p \ {m}]
      BY <1>6, <3>3
    <3>5. g[<<m, c>>] = Linked(c, s[m])
      BY <1>4
    <3>6. QED
      BY <2>2, <2>3, <3>2, <3>4, <3>5
  <2>4. QED
    BY <2>2, <2>3
<1>8. ChainEquation(iter, s)
  <2>1. DOMAIN iter = SUBSET (1..n) /\ iter = [p \in SUBSET (1..n) |-> iter[p]]
    BY <1>6
  <2>2. iter = [p \in SUBSET (1..n) |->
                  IF p = {} THEN <<>> ELSE Linked(iter[p \ {Max(p)}], s[Max(p)])]
    BY <1>7, <2>1
  <2>3. QED
    BY <1>1, <2>2, Zenon DEF ChainEquation
<1>9. QED
    BY <1>8, Zenon DEF ChainOf

(* Hence what it makes of the lots of a family are runs of them.           *)
LEMMA ChainedIs ==
    ASSUME NEW S, \A l \in S : Keyed(l), NEW s, UrgentFirst(s, S)
    PROVE  ChainOk(Chained(s), Len(s), s, S)
<1>1. PICK n \in Nat : n = Len(s) /\ DOMAIN s = 1..n /\ s \in Seq(S)
    BY DEF UrgentFirst
<1>2. PICK c : c = ChainOf(s)
    OBVIOUS
<1>3. \A p \in SUBSET (1..n) :
        c[p] = IF p = {} THEN <<>> ELSE Linked(c[p \ {Max(p)}], s[Max(p)])
  <2>1. ChainEquation(c, s)
    BY <1>1, <1>2, ChainExists
  <2>2. QED
    BY <1>1, <2>1, Zenon DEF ChainEquation
<1> DEFINE P == {k \in Nat : k <= n => ChainOk(c[1..k], k, s, S)}
<1>4. 0 \in P
  <2>1. 1..0 = {} /\ {} \in SUBSET (1..n)
    OBVIOUS
  <2>2. c[1..0] = <<>>
    BY <1>3, <2>1
  <2>3. ChainOk(<<>>, 0, s, S)
    BY DEF ChainOk
  <2>4. QED
    BY <2>2, <2>3
<1>5. ASSUME NEW k \in P PROVE k + 1 \in P
  <2>1. SUFFICES ASSUME k \in Nat, k + 1 <= n PROVE ChainOk(c[1..(k + 1)], k + 1, s, S)
    OBVIOUS
  <2>2. k \in 0..(n - 1) /\ ChainOk(c[1..k], k, s, S)
    BY <2>1
  <2>3. PICK p : p = 1..(k + 1)
    OBVIOUS
  <2>4. p \in SUBSET (1..n) /\ p # {} /\ Max(p) = k + 1 /\ p \ {k + 1} = 1..k
    BY <2>2, <2>3, PrefixIs
  <2>5. c[p] = Linked(c[1..k], s[k + 1])
    BY <1>3, <2>4
  <2>6. ChainOk(Linked(c[1..k], s[k + 1]), k + 1, s, S)
    BY <1>1, <2>2, LinkedIs
  <2>7. QED
    BY <2>3, <2>5, <2>6
<1>6. P = Nat
  <2>1. P \subseteq Nat
    OBVIOUS
  <2> HIDE DEF P
  <2>2. QED
    BY <2>1, <1>4, <1>5, NatInd
<1>7. ChainOk(c[1..n], n, s, S)
    BY <1>6
<1>8. QED
    BY <1>1, <1>2, <1>7, ChainedIsChain

-----------------------------------------------------------------------------
(* The runs of a tool.                                                     *)

(* A sequence that has all of a set.                                       *)
Covers(s, S) == \A x \in S : \E i \in 1..Len(s) : s[i] = x

(* Numbers in ascending order.                                             *)
Ascending(S) == [i \in 1..Cardinality(S) |-> CHOOSE x \in S : Cardinality({y \in S : y < x}) = i - 1]

(* They are all of the set, each before the greater ones.                  *)
LEMMA AscendingIs ==
    ASSUME NEW S, IsFiniteSet(S), S \subseteq Int, NEW s, s = Ascending(S)
    PROVE  /\ s \in Seq(S)
           /\ \A i, j \in 1..Len(s) : i < j => s[i] < s[j]
           /\ Covers(s, S)
<1>1. PICK R : R = {p \in S \X S : p[1] < p[2]}
    OBVIOUS
<1>2. \A x, y \in S : <<x, y>> \in R <=> x < y
    BY <1>1
<1>a. \A x, y \in S : x # y => <<x, y>> \in R \/ <<y, x>> \in R
    BY <1>2
<1>b. \A x \in S : <<x, x>> \notin R
    BY <1>2
<1>c. \A x, y, z \in S : <<x, y>> \in R /\ <<y, z>> \in R => <<x, z>> \in R
  <2>1. SUFFICES ASSUME NEW x \in S, NEW y \in S, NEW z \in S, <<x, y>> \in R, <<y, z>> \in R
                 PROVE  x < z
    BY <1>2
  <2>2. x < y /\ y < z
    BY <2>1, <1>2
  <2>3. x \in Int /\ y \in Int /\ z \in Int
    OBVIOUS
  <2>4. QED
    BY <2>2, <2>3
<1>4. s = ByRank(S, R)
  <2>1. \A x \in S : BeforeIn(S, R, x) = {y \in S : y < x}
    BY <1>2 DEF BeforeIn
  <2>2. \A i \in 1..Cardinality(S) :
          (CHOOSE x \in S : Cardinality(BeforeIn(S, R, x)) = i - 1)
          = (CHOOSE x \in S : Cardinality({y \in S : y < x}) = i - 1)
    BY <2>1
  <2>3. QED
    BY <2>2 DEF Ascending, ByRank
<1>5. /\ Cardinality(S) \in Nat
      /\ s \in [1..Cardinality(S) -> S]
      /\ \A i, j \in 1..Cardinality(S) : i < j => <<s[i], s[j]>> \in R
      /\ \A x \in S : \E i \in 1..Cardinality(S) : s[i] = x
  <2>1. TotalOn(R, S)
    BY <1>a, <1>b, <1>c DEF TotalOn
  <2>2. QED
    BY <1>4, <2>1, RanksAreOrder
<1>6. s \in Seq(S) /\ Len(s) = Cardinality(S)
  <2>1. PICK n \in Nat : n = Cardinality(S)
    BY <1>5
  <2>2. s \in [1..n -> S]
    BY <1>5, <2>1
  <2>3. QED
    BY <2>1, <2>2
<1>7. \A i, j \in 1..Len(s) : i < j => s[i] < s[j]
    BY <1>2, <1>5, <1>6
<1>8. Covers(s, S)
    BY <1>5, <1>6, Zenon DEF Covers
<1>9. QED
    BY <1>6, <1>7, <1>8

(* The first k of some sequences, one after the other, each element once.  *)
FlatOk(f, k, t, V) ==
    /\ f \in Seq(V)
    /\ \A q \in 1..Len(f) : \E i \in 1..k : \E j \in 1..Len(t[i]) : f[q] = t[i][j]
    /\ \A i \in 1..k : \A j \in 1..Len(t[i]) : \E q \in 1..Len(f) : f[q] = t[i][j]
    /\ \A q, r \in 1..Len(f) : f[q] = f[r] => q = r

(* Sequences of which no two places hold the same.                         *)
Distinct(t) ==
    \A i, j \in 1..Len(t) : \A m \in 1..Len(t[i]), p \in 1..Len(t[j]) :
      t[i][m] = t[j][p] => i = j /\ m = p

(* Two places of them that hold the same are one place.                    *)
LEMMA DistinctIs ==
    ASSUME NEW t, Distinct(t), NEW i \in 1..Len(t), NEW j \in 1..Len(t),
           NEW m \in 1..Len(t[i]), NEW p \in 1..Len(t[j]), t[i][m] = t[j][p]
    PROVE  i = j /\ m = p
BY Zenon DEF Distinct

(* The next sequence joins them.                                           *)
LEMMA FlatJoined ==
    ASSUME NEW V, NEW t \in Seq(Seq(V)), Distinct(t), NEW k \in Nat, k + 1 <= Len(t),
           NEW f, FlatOk(f, k, t, V)
    PROVE  FlatOk(f \o t[k + 1], k + 1, t, V)
<1>1. k + 1 \in 1..Len(t) /\ t[k + 1] \in Seq(V)
    BY ElementOfSeq
<1>2. PICK e \in Seq(V) : e = t[k + 1]
    BY <1>1
<1>3. PICK a \in Nat, b \in Nat : a = Len(f) /\ b = Len(e) /\ f \in Seq(V)
    BY DEF FlatOk
<1>4. PICK h : h = f \o e
    OBVIOUS
<1>5. /\ h \in Seq(V) /\ Len(h) = a + b
      /\ \A q \in 1..(a + b) : h[q] = IF q <= a THEN f[q] ELSE e[q - a]
    BY <1>3, <1>4, ConcatProperties
<1>6. \A q \in 1..(a + b) : \/ q \in 1..a /\ h[q] = f[q]
                            \/ q - a \in 1..b /\ q > a /\ h[q] = e[q - a]
    BY <1>5
<1>7. /\ \A q \in 1..a : \E i \in 1..k : \E j \in 1..Len(t[i]) : f[q] = t[i][j]
      /\ \A i \in 1..k : \A j \in 1..Len(t[i]) : \E q \in 1..a : f[q] = t[i][j]
      /\ \A q, r \in 1..a : f[q] = f[r] => q = r
    BY <1>3, Zenon DEF FlatOk
<1>8. \A i \in 1..k : i \in 1..(k + 1) /\ i \in 1..Len(t) /\ i # k + 1
    BY <1>1
<1>9. \A q \in 1..a, j \in 1..b : f[q] # e[j]
  <2>1. SUFFICES ASSUME NEW q \in 1..a, NEW j \in 1..b, f[q] = e[j] PROVE FALSE
    OBVIOUS
  <2>2. PICK i \in 1..k : \E m \in 1..Len(t[i]) : f[q] = t[i][m]
    BY <1>7
  <2>3. PICK m \in 1..Len(t[i]) : f[q] = t[i][m]
    BY <2>2
  <2>4. /\ i \in 1..Len(t) /\ k + 1 \in 1..Len(t) /\ i # k + 1 /\ j \in 1..Len(t[k + 1])
        /\ t[i][m] = t[k + 1][j]
    BY <1>1, <1>2, <1>3, <1>8, <2>1, <2>3
  <2>5. QED
    BY <2>4 DEF Distinct
<1>10. \A i, j \in 1..b : e[i] = e[j] => i = j
  <2>1. SUFFICES ASSUME NEW i \in 1..b, NEW j \in 1..b, e[i] = e[j] PROVE i = j
    OBVIOUS
  <2>2. /\ k + 1 \in 1..Len(t) /\ i \in 1..Len(t[k + 1]) /\ j \in 1..Len(t[k + 1])
        /\ t[k + 1][i] = t[k + 1][j]
    BY <1>1, <1>2, <1>3, <2>1
  <2>3. QED
    BY <2>2, DistinctIs
<1>11. \A q \in 1..Len(h) : \E i \in 1..(k + 1) : \E j \in 1..Len(t[i]) : h[q] = t[i][j]
  <2>1. SUFFICES ASSUME NEW q \in 1..(a + b)
                 PROVE  \E i \in 1..(k + 1) : \E j \in 1..Len(t[i]) : h[q] = t[i][j]
    BY <1>5
  <2>2. CASE q \in 1..a /\ h[q] = f[q]
    <3>1. PICK i \in 1..k : \E j \in 1..Len(t[i]) : f[q] = t[i][j]
      BY <1>7, <2>2
    <3>2. i \in 1..(k + 1)
      BY <1>8
    <3>3. QED
      BY <2>2, <3>1, <3>2
  <2>3. CASE q - a \in 1..b /\ h[q] = e[q - a]
    <3>1. k + 1 \in 1..(k + 1)
      OBVIOUS
    <3>2. QED
      BY <1>2, <1>3, <2>3, <3>1
  <2>4. QED
    BY <1>6, <2>2, <2>3
<1>12. \A i \in 1..(k + 1) : \A j \in 1..Len(t[i]) : \E q \in 1..Len(h) : h[q] = t[i][j]
  <2>1. SUFFICES ASSUME NEW i \in 1..(k + 1), NEW j \in 1..Len(t[i])
                 PROVE  \E q \in 1..(a + b) : h[q] = t[i][j]
    BY <1>5
  <2>2. CASE i \in 1..k
    <3>1. PICK q \in 1..a : f[q] = t[i][j]
      BY <1>7, <2>2
    <3>2. q \in 1..(a + b) /\ q <= a
      OBVIOUS
    <3>x. h[q] = f[q]
      BY <1>5, <3>2
    <3>3. QED
      BY <3>1, <3>2, <3>x
  <2>3. CASE i = k + 1
    <3>1. j \in 1..b /\ t[i][j] = e[j]
      BY <1>2, <1>3, <2>3
    <3>2. a + j \in 1..(a + b) /\ ~(a + j <= a) /\ (a + j) - a = j
      BY <3>1
    <3>3. h[a + j] = e[j]
      BY <1>5, <3>2
    <3>4. QED
      BY <3>1, <3>2, <3>3
  <2>4. QED
    BY <2>2, <2>3
<1>13. \A q, r \in 1..Len(h) : h[q] = h[r] => q = r
  <2>1. SUFFICES ASSUME NEW q \in 1..(a + b), NEW r \in 1..(a + b), h[q] = h[r] PROVE q = r
    BY <1>5
  <2>2. CASE q \in 1..a /\ h[q] = f[q] /\ r \in 1..a /\ h[r] = f[r]
    <3>1. q \in 1..a /\ r \in 1..a /\ f[q] = f[r]
      BY <2>1, <2>2
    <3>2. QED
      BY <1>7, <3>1
  <2>3. CASE q \in 1..a /\ h[q] = f[q] /\ r - a \in 1..b /\ h[r] = e[r - a]
    BY <1>9, <2>1, <2>3
  <2>4. CASE r \in 1..a /\ h[r] = f[r] /\ q - a \in 1..b /\ h[q] = e[q - a]
    BY <1>9, <2>1, <2>4
  <2>5. CASE q - a \in 1..b /\ h[q] = e[q - a] /\ r - a \in 1..b /\ h[r] = e[r - a]
    <3>1. q - a = r - a
      BY <1>10, <2>1, <2>5
    <3>2. QED
      BY <3>1
  <2>6. QED
    BY <1>6, <2>2, <2>3, <2>4, <2>5
<1>14. FlatOk(h, k + 1, t, V)
    BY <1>5, <1>11, <1>12, <1>13, Zenon DEF FlatOk
<1>15. QED
    BY <1>2, <1>4, <1>14

(* FlattenSeq is a function defined by recursion.                          *)
FlattenEquation(f, t) == f = [i \in 1..Len(t) |-> IF i = 1 THEN t[i] ELSE f[i - 1] \o t[i]]
Flattened(t) == CHOOSE f : FlattenEquation(f, t)

(* FlattenSeq is its last value.                                           *)
LEMMA FlattenIs == ASSUME NEW t, Len(t) # 0 PROVE FlattenSeq(t) = Flattened(t)[Len(t)]
BY Zenon DEF FlattenSeq, Flattened, FlattenEquation

(* Such a function exists,                                                 *)
LEMMA FlattenExists ==
    ASSUME NEW V, NEW t \in Seq(Seq(V))
    PROVE  FlattenEquation(Flattened(t), t)
<1>1. PICK n \in Nat : n = Len(t) /\ \A i \in 1..n : t[i] \in Seq(V)
    BY ElementOfSeq
<1>2. PICK W : W = Seq(V)
    OBVIOUS
<1> DEFINE step == [p \in Nat \X W |-> IF p[1] < n THEN p[2] \o t[p[1] + 1] ELSE p[2]]
<1>3. step \in [Nat \X W -> W]
  <2>1. SUFFICES ASSUME NEW p \in Nat \X W, p[1] < n PROVE p[2] \o t[p[1] + 1] \in W
    OBVIOUS
  <2>2. p[1] + 1 \in 1..n /\ p[2] \in Seq(V)
    BY <1>2, <2>1
  <2>3. t[p[1] + 1] \in Seq(V)
    BY <1>1, <2>2
  <2>4. QED
    BY <1>2, <2>2, <2>3
<1>4. \A k \in Nat, x \in W : k < n => step[<<k, x>>] = x \o t[k + 1]
  <2>1. SUFFICES ASSUME NEW k \in Nat, NEW x \in W, k < n PROVE step[<<k, x>>] = x \o t[k + 1]
    OBVIOUS
  <2>2. PICK p : p = <<k, x>>
    OBVIOUS
  <2>3. p[1] = k /\ p[2] = x /\ p \in Nat \X W
    BY <2>2
  <2>4. step[p] = p[2] \o t[p[1] + 1]
    BY <2>1, <2>3
  <2>5. QED
    BY <2>2, <2>3, <2>4
<1> HIDE DEF step
<1>5. <<>> \in W
    BY <1>2
<1>6. PICK h : Iterates(h, W, <<>>, step)
    BY <1>3, <1>5, NatRecursion
<1>7. /\ h \in [Nat -> W] /\ h[0] = <<>>
      /\ \A k \in Nat : h[k + 1] = step[<<k, h[k]>>]
    BY <1>6, Zenon DEF Iterates
<1>8. \A i \in 1..n : h[i] = IF i = 1 THEN t[i] ELSE h[i - 1] \o t[i]
  <2>1. SUFFICES ASSUME NEW i \in 1..n PROVE h[i] = IF i = 1 THEN t[i] ELSE h[i - 1] \o t[i]
    OBVIOUS
  <2>2. PICK k \in Nat : k = i - 1 /\ k < n /\ k + 1 = i
    OBVIOUS
  <2>3. h[k] \in W
    BY <1>7
  <2>4. h[i] = h[k] \o t[i]
    BY <1>4, <1>7, <2>2, <2>3
  <2>5. CASE i = 1
    <3>1. h[k] = <<>> /\ t[i] \in Seq(V)
      BY <1>1, <1>7, <2>2, <2>5
    <3>2. QED
      BY <2>4, <2>5, <3>1, ConcatEmptySeq
  <2>6. QED
    BY <2>2, <2>4, <2>5
<1> DEFINE f == [i \in 1..n |-> h[i]]
<1>9. \A i \in 1..n : f[i] = IF i = 1 THEN t[i] ELSE f[i - 1] \o t[i]
  <2>1. SUFFICES ASSUME NEW i \in 1..n, i # 1 PROVE h[i] = f[i - 1] \o t[i]
    BY <1>8
  <2>2. i - 1 \in 1..n
    BY <2>1
  <2>3. QED
    BY <1>8, <2>1, <2>2
<1>10. FlattenEquation(f, t)
  <2>1. f = [i \in 1..n |-> f[i]]
    OBVIOUS
  <2> HIDE DEF f
  <2>2. f = [i \in 1..n |-> IF i = 1 THEN t[i] ELSE f[i - 1] \o t[i]]
    BY <1>9, <2>1
  <2>3. QED
    BY <1>1, <2>2, Zenon DEF FlattenEquation
<1>11. QED
    BY <1>10, Zenon DEF Flattened

(* and puts them all one after the other.                                  *)
LEMMA FlattenSeqIs ==
    ASSUME NEW V, NEW t \in Seq(Seq(V)), Distinct(t)
    PROVE  FlatOk(FlattenSeq(t), Len(t), t, V)
<1>1. PICK n \in Nat : n = Len(t) /\ \A i \in 1..n : t[i] \in Seq(V)
    BY ElementOfSeq
<1>2. FlatOk(<<>>, 0, t, V)
    BY DEF FlatOk
<1>3. CASE n = 0
  <2>1. FlattenSeq(t) = <<>>
    <3>1. FlattenSeq(t) = t
      BY <1>1, <1>3, Zenon DEF FlattenSeq
    <3>2. QED
      BY <1>1, <1>3, <3>1, EmptySeq
  <2>2. QED
    BY <1>1, <1>2, <1>3, <2>1
<1>4. CASE n # 0
  <2>1. PICK f : f = Flattened(t)
    OBVIOUS
  <2>2. \A i \in 1..n : f[i] = IF i = 1 THEN t[i] ELSE f[i - 1] \o t[i]
    <3>1. FlattenEquation(f, t)
      BY <2>1, FlattenExists
    <3>2. f = [i \in 1..n |-> IF i = 1 THEN t[i] ELSE f[i - 1] \o t[i]]
      BY <1>1, <3>1, Zenon DEF FlattenEquation
    <3>3. QED
      BY <3>2, Zenon
  <2> DEFINE P == {k \in Nat : k >= 1 /\ k <= n => FlatOk(f[k], k, t, V)}
  <2>3. 0 \in P
    OBVIOUS
  <2>4. ASSUME NEW k \in P PROVE k + 1 \in P
    <3>1. SUFFICES ASSUME k \in Nat, k + 1 <= n PROVE FlatOk(f[k + 1], k + 1, t, V)
      OBVIOUS
    <3>2. k + 1 \in 1..n
      BY <3>1
    <3>3. CASE k = 0
      <4>1. f[k + 1] = t[k + 1] /\ t[k + 1] \in Seq(V)
        BY <1>1, <2>2, <3>2, <3>3
      <4>2. f[k + 1] = <<>> \o t[k + 1]
        BY <4>1, ConcatEmptySeq
      <4>3. QED
        BY <1>1, <1>2, <3>1, <3>3, <4>2, FlatJoined
    <3>4. CASE k # 0
      <4>1. FlatOk(f[k], k, t, V) /\ k + 1 # 1 /\ (k + 1) - 1 = k
        BY <3>1, <3>4
      <4>2. f[k + 1] = f[k] \o t[k + 1]
        BY <2>2, <3>2, <4>1
      <4>3. QED
        BY <1>1, <3>1, <4>1, <4>2, FlatJoined
    <3>5. QED
      BY <3>3, <3>4
  <2>5. P = Nat
    <3>1. P \subseteq Nat
      OBVIOUS
    <3> HIDE DEF P
    <3>2. QED
      BY <3>1, <2>3, <2>4, NatInd
  <2>6. FlatOk(f[n], n, t, V)
    <3>1. n \in P /\ n >= 1 /\ n <= n
      BY <1>4, <2>5
    <3>2. QED
      BY <3>1
  <2>7. QED
    BY <1>1, <1>4, <2>1, <2>6, FlattenIs
<1>5. QED
    BY <1>3, <1>4

(* Runs that have each lot of a set in one place.                          *)
OncePlaced(c, S) ==
    /\ c \in Seq(Seq(S))
    /\ \A j \in 1..Len(c) : c[j] # <<>> /\ Together(c[j])
    /\ \A l \in S : \E j \in 1..Len(c) : \E m \in 1..Len(c[j]) : c[j][m] = l
    /\ Distinct(c)

(* The lots of a family are chained into such runs.                        *)
LEMMA FamilyRuns ==
    ASSUME LotsKeyed(lots), NEW S, S \in SUBSET lots
    PROVE  OncePlaced(Chained(Sorted(S)), S)
<1>1. PICK s : s = Sorted(S)
    OBVIOUS
<1>2. UrgentFirst(s, S)
    BY <1>1, SortedIs
<1>3. \A l \in S : Keyed(l)
    BY DEF LotsKeyed
<1>4. PICK c : c = Chained(s)
    OBVIOUS
<1>5. ChainOk(c, Len(s), s, S)
    BY <1>2, <1>3, <1>4, ChainedIs
<1>6. \A l \in S : \E i \in 1..Len(s) : s[i] = l
    BY <1>2 DEF UrgentFirst
<1>7. \A i \in 1..Len(s) : \E j \in 1..Len(c) : \E m \in 1..Len(c[j]) : c[j][m] = s[i]
    BY <1>5, Zenon DEF ChainOk
<1>8. \A l \in S : \E j \in 1..Len(c) : \E m \in 1..Len(c[j]) : c[j][m] = l
  <2>1. SUFFICES ASSUME NEW l \in S
                 PROVE  \E j \in 1..Len(c) : \E m \in 1..Len(c[j]) : c[j][m] = l
    OBVIOUS
  <2>2. PICK i \in 1..Len(s) : s[i] = l
    BY <1>6
  <2>3. QED
    BY <1>7, <2>2, Zenon
<1>9. /\ c \in Seq(Seq(S))
      /\ \A j \in 1..Len(c) : c[j] # <<>> /\ Together(c[j])
      /\ Distinct(c)
    BY <1>5, Zenon DEF ChainOk, Distinct
<1>10. OncePlaced(c, S)
    BY <1>8, <1>9, Zenon DEF OncePlaced
<1>11. QED
    BY <1>1, <1>4, <1>10

(* The lots of a run are of one family.                                    *)
OneFamily(its) == \A m \in 1..Len(its) : its[m].family = its[1].family

(* The runs of a tool are such runs, each of one family.                   *)
LEMMA OfToolIs ==
    ASSUME LotsKeyed(lots), NEW tool, NEW here, here = {l \in lots : l.tool = tool},
           NEW o, o = OfTool(tool)
    PROVE  OncePlaced(o, here) /\ \A j \in 1..Len(o) : OneFamily(o[j])
<1>1. IsFiniteSet(here) /\ here \in SUBSET lots /\ \A l \in here : l.family \in Int
    BY FS_Subset DEF LotsKeyed, Keyed
<1> DEFINE F == {l.family : l \in here}
<1>3. IsFiniteSet(F) /\ F \subseteq Int
  <2> DEFINE f == [l \in here |-> l.family]
  <2>1. f \in Surjection(here, F)
    BY DEF Surjection
  <2>2. IsFiniteSet(F)
    BY <1>1, <2>1, FS_Surjection
  <2>3. QED
    BY <1>1, <2>2
<1>4. PICK w : w = Ascending(F)
    OBVIOUS
<1>x. w = InSequence({l.family : l \in here}, <)
    BY <1>4, Zenon DEF InSequence, Ascending
<1>y. \A l \in here : l.family \in F
    OBVIOUS
<1> HIDE DEF F
<1>5. /\ w \in Seq(F)
      /\ \A i, j \in 1..Len(w) : i < j => w[i] < w[j]
      /\ Covers(w, F)
    BY <1>3, <1>4, AscendingIs
<1>6. PICK n \in Nat : n = Len(w) /\ DOMAIN w = 1..n /\ \A i \in 1..n : w[i] \in F
    BY <1>5, ElementOfSeq
<1>7. \A i, j \in 1..n : w[i] = w[j] => i = j
  <2>1. SUFFICES ASSUME NEW i \in 1..n, NEW j \in 1..n, w[i] = w[j], i # j PROVE FALSE
    OBVIOUS
  <2>2. w[i] \in Int
    BY <1>3, <1>6
  <2>3. i < j \/ j < i
    BY <2>1
  <2>4. QED
    BY <1>5, <1>6, <2>1, <2>2, <2>3
<1> DEFINE S(i) == {l \in here : l.family = w[i]}
           t == [i \in 1..n |-> Chained(Sorted(S(i)))]
<1>8. o = FlattenSeq(t)
  <2>1. t = [i \in DOMAIN w |-> Chained(Sorted(S(i)))]
    BY <1>6
  <2>3. OfTool(tool) = FlattenSeq([i \in DOMAIN w |-> Chained(Sorted({l \in here : l.family = w[i]}))])
    BY <1>x, Zenon DEF OfTool
  <2>4. QED
    BY <2>1, <2>3, Zenon
<1>9. \A i \in 1..n : OncePlaced(t[i], S(i))
  <2>1. SUFFICES ASSUME NEW i \in 1..n PROVE OncePlaced(t[i], S(i))
    OBVIOUS
  <2>2. S(i) \in SUBSET lots
    OBVIOUS
  <2> HIDE DEF S
  <2>3. QED
    BY <2>2, FamilyRuns
<1>10. \A i \in 1..n : S(i) \subseteq here /\ \A l \in S(i) : l.family = w[i]
    OBVIOUS
<1>11. \A l \in here : \E i \in 1..n : l \in S(i)
  <2>1. SUFFICES ASSUME NEW l \in here PROVE \E i \in 1..n : l \in S(i)
    OBVIOUS
  <2>2. l.family \in F
    BY <1>y
  <2>3. PICK i \in 1..n : w[i] = l.family
    BY <1>5, <1>6, <2>2 DEF Covers
  <2>4. QED
    BY <2>3
<1>12. Len(t) = n /\ DOMAIN t = 1..n
    BY <1>6
<1> HIDE DEF S, t
<1>13. \A i \in 1..n : \A j \in 1..Len(t[i]) :
         /\ t[i][j] \in Seq(S(i)) /\ t[i][j] \in Seq(here) /\ t[i][j] # <<>> /\ Together(t[i][j])
         /\ \A m \in 1..Len(t[i][j]) : t[i][j][m].family = w[i]
         /\ OneFamily(t[i][j]) /\ 1 \in 1..Len(t[i][j])
  <2>1. SUFFICES ASSUME NEW i \in 1..n, NEW j \in 1..Len(t[i])
                 PROVE  /\ t[i][j] \in Seq(S(i)) /\ t[i][j] \in Seq(here) /\ t[i][j] # <<>>
                        /\ Together(t[i][j])
                        /\ \A m \in 1..Len(t[i][j]) : t[i][j][m].family = w[i]
                        /\ OneFamily(t[i][j]) /\ 1 \in 1..Len(t[i][j])
    OBVIOUS
  <2>2. t[i] \in Seq(Seq(S(i))) /\ t[i][j] # <<>> /\ Together(t[i][j])
    BY <1>9 DEF OncePlaced
  <2>3. PICK its : its = t[i][j]
    OBVIOUS
  <2>4. its \in Seq(S(i)) /\ its # <<>>
    BY <2>2, <2>3, ElementOfSeq
  <2>5. its \in Seq(here)
    BY <1>10, <2>4, SeqMonotonic
  <2>6. Len(its) \in Nat /\ Len(its) >= 1
    BY <2>4
  <2>7. \A m \in 1..Len(its) : its[m].family = w[i]
    BY <1>10, <2>4, ElementOfSeq
  <2>8. OneFamily(its)
    BY <2>6, <2>7 DEF OneFamily
  <2>9. 1 \in 1..Len(its)
    BY <2>6
  <2>10. QED
    BY <2>2, <2>3, <2>4, <2>5, <2>7, <2>8, <2>9
<1>fam. \A i \in 1..n : \A j \in 1..Len(t[i]) : \A m \in 1..Len(t[i][j]) : t[i][j][m].family = w[i]
    BY <1>13
<1>14. PICK V : V = Seq(here)
    OBVIOUS
<1>15. t \in Seq(Seq(V))
  <2>1. \A i \in 1..n : t[i] \in Seq(V)
    <3>1. SUFFICES ASSUME NEW i \in 1..n PROVE t[i] \in Seq(V)
      OBVIOUS
    <3>2. t[i] \in Seq(Seq(S(i)))
      BY <1>9 DEF OncePlaced
    <3>3. PICK q \in Nat : q = Len(t[i]) /\ t[i] = [j \in 1..q |-> t[i][j]]
      BY <3>2, LenProperties
    <3>4. \A j \in 1..q : t[i][j] \in V
      BY <1>13, <1>14, <3>3
    <3>5. t[i] \in [1..q -> V]
      BY <3>3, <3>4
    <3>6. QED
      BY <3>5
  <2>2. t = [i \in 1..n |-> t[i]]
    BY DEF t
  <2>3. t \in [1..n -> Seq(V)]
    BY <2>1, <2>2
  <2>4. QED
    BY <2>3
<1>16. Distinct(t)
  <2>1. SUFFICES ASSUME NEW i \in 1..n, NEW j \in 1..n, NEW m \in 1..Len(t[i]), NEW p \in 1..Len(t[j]),
                        t[i][m] = t[j][p]
                 PROVE  i = j /\ m = p
    BY <1>12 DEF Distinct
  <2>2. t[i][m][1].family = w[i] /\ t[j][p][1].family = w[j]
    <3>1. 1 \in 1..Len(t[i][m]) /\ 1 \in 1..Len(t[j][p])
      BY <1>13
    <3>2. QED
      BY <1>fam, <3>1
  <2>3. i = j
    BY <1>7, <2>1, <2>2
  <2>4. PICK c : c = t[i]
    OBVIOUS
  <2>5. c[m][1] = c[p][1] /\ m \in 1..Len(c) /\ p \in 1..Len(c) /\ 1 \in 1..Len(c[m]) /\ 1 \in 1..Len(c[p])
    BY <1>13, <2>1, <2>3, <2>4
  <2>6. Distinct(c)
    BY <1>9, <2>4 DEF OncePlaced
  <2>7. m = p
    BY <2>5, <2>6 DEF Distinct
  <2>8. QED
    BY <2>3, <2>7
<1>17. FlatOk(o, n, t, V)
    BY <1>8, <1>12, <1>15, <1>16, FlattenSeqIs
<1>18. /\ o \in Seq(V)
       /\ \A q \in 1..Len(o) : \E i \in 1..n : \E j \in 1..Len(t[i]) : o[q] = t[i][j]
       /\ \A i \in 1..n : \A j \in 1..Len(t[i]) : \E q \in 1..Len(o) : o[q] = t[i][j]
       /\ \A q, r \in 1..Len(o) : o[q] = o[r] => q = r
    BY <1>17, Zenon DEF FlatOk
<1>19. \A q \in 1..Len(o) : o[q] # <<>> /\ Together(o[q]) /\ OneFamily(o[q])
  <2>1. SUFFICES ASSUME NEW q \in 1..Len(o) PROVE o[q] # <<>> /\ Together(o[q]) /\ OneFamily(o[q])
    OBVIOUS
  <2>2. PICK i \in 1..n : \E j \in 1..Len(t[i]) : o[q] = t[i][j]
    BY <1>18
  <2>3. PICK j \in 1..Len(t[i]) : o[q] = t[i][j]
    BY <2>2
  <2>4. QED
    BY <1>13, <2>3
<1>20. \A l \in here : \E q \in 1..Len(o) : \E m \in 1..Len(o[q]) : o[q][m] = l
  <2>1. SUFFICES ASSUME NEW l \in here PROVE \E q \in 1..Len(o) : \E m \in 1..Len(o[q]) : o[q][m] = l
    OBVIOUS
  <2>2. PICK i \in 1..n : l \in S(i)
    BY <1>11
  <2>3. PICK j \in 1..Len(t[i]) : \E m \in 1..Len(t[i][j]) : t[i][j][m] = l
    BY <1>9, <2>2 DEF OncePlaced
  <2>4. PICK q \in 1..Len(o) : o[q] = t[i][j]
    BY <1>18
  <2>5. QED
    BY <2>3, <2>4
<1>21. Distinct(o)
  <2>1. SUFFICES ASSUME NEW q \in 1..Len(o), NEW r \in 1..Len(o), NEW m \in 1..Len(o[q]), NEW p \in 1..Len(o[r]),
                        o[q][m] = o[r][p]
                 PROVE  q = r /\ m = p
    BY DEF Distinct
  <2>2. PICK i \in 1..n : \E j \in 1..Len(t[i]) : o[q] = t[i][j]
    BY <1>18
  <2>3. PICK j \in 1..Len(t[i]) : o[q] = t[i][j]
    BY <2>2
  <2>4. PICK h \in 1..n : \E k \in 1..Len(t[h]) : o[r] = t[h][k]
    BY <1>18
  <2>5. PICK k \in 1..Len(t[h]) : o[r] = t[h][k]
    BY <2>4
  <2>6. o[q][m].family = w[i] /\ o[r][p].family = w[h]
    <3>1. m \in 1..Len(t[i][j]) /\ p \in 1..Len(t[h][k])
      BY <2>3, <2>5
    <3>2. QED
      <4>1. t[i][j][m].family = w[i]
        BY <1>fam, <3>1
      <4>2. t[h][k][p].family = w[h]
        BY <1>fam, <3>1
      <4>3. QED
        BY <2>3, <2>5, <4>1, <4>2
  <2>7. i = h
    BY <1>7, <2>1, <2>6
  <2>8. PICK c : c = t[i]
    OBVIOUS
  <2>9. Distinct(c)
    BY <1>9, <2>8 DEF OncePlaced
  <2>10. /\ j \in 1..Len(c) /\ k \in 1..Len(c) /\ m \in 1..Len(c[j]) /\ p \in 1..Len(c[k])
         /\ c[j][m] = c[k][p]
    BY <2>1, <2>3, <2>5, <2>7, <2>8
  <2>11. j = k /\ m = p
    <3>1. \A x, y \in 1..Len(c) : \A u \in 1..Len(c[x]), v \in 1..Len(c[y]) :
            c[x][u] = c[y][v] => x = y /\ u = v
      BY <2>9, Zenon DEF Distinct
    <3>2. \A u \in 1..Len(c[j]), v \in 1..Len(c[k]) : c[j][u] = c[k][v] => j = k /\ u = v
      BY <2>10, <3>1
    <3>3. QED
      BY <2>10, <3>2
  <2>12. o[q] = o[r]
    BY <2>3, <2>5, <2>7, <2>11
  <2>13. QED
    BY <1>18, <2>11, <2>12
<1>22. OncePlaced(o, here)
  <2>1. o \in Seq(Seq(here))
    BY <1>14, <1>18
  <2>2. QED
    BY <1>19, <1>20, <1>21, <2>1 DEF OncePlaced
<1>23. QED
    BY <1>19, <1>22

-----------------------------------------------------------------------------
(* The runs of the model.                                                  *)

(* A run of the model: its lots are of its tool and one family, and        *)
(* together.                                                               *)
RunOk(run) ==
    /\ run = [tool |-> run.tool, index |-> run.index, part |-> run.part, lots |-> run.lots]
    /\ run.lots \in Seq(lots) /\ run.lots # <<>> /\ Together(run.lots) /\ OneFamily(run.lots)
    /\ \A m \in 1..Len(run.lots) : run.lots[m].tool = run.tool

(* The lots of a run, none of them twice.                                  *)
LotsOf(its) == {its[i] : i \in 1..Len(its)}
Once(its) == \A i, j \in 1..Len(its) : its[i] = its[j] => i = j

(* Each lot of L is in one place of the runs, and no other is.             *)
Divides(R, L) ==
    /\ \A r \in R : Once(r.lots) /\ LotsOf(r.lots) \subseteq L
    /\ \A l \in L : \E r \in R : l \in LotsOf(r.lots)
    /\ \A r, q \in R, l \in L : l \in LotsOf(r.lots) /\ l \in LotsOf(q.lots) => r = q

(* No two runs have the same name.                                         *)
Named(R) == \A r, q \in R : Name(r) = Name(q) => r = q

(* What holds of the runs from the grouping on.                            *)
Grouping(R) == (\A run \in R : RunOk(run)) /\ Divides(R, lots) /\ Named(R)

(* The parts of a run that was split, and the part of one that was not.    *)
PartNames == {<<>>, <<"early">>, <<"late">>}

(* No run is split yet.                                                    *)
Undivided(R) == \A r \in R : r.part = <<>>

(* The infeasible runs are split, and no run has the number of one that    *)
(* is not.                                                                 *)
Whole(R) ==
    /\ \A r \in R : r.part \in PartNames
    /\ \A r, q \in R : r.part = <<>> /\ r.tool = q.tool /\ r.index = q.index => r = q

(* A run as the grouping makes it, with its tool and its number.           *)
NewRun(tool, i) == [tool |-> tool, index |-> i, part |-> <<>>, lots |-> OfTool(tool)[i]]

(* It is a run of the lots of its tool.                                    *)
LEMMA NewRunIs ==
    ASSUME LotsKeyed(lots), NEW tool, NEW i \in 1..Len(OfTool(tool))
    PROVE  /\ RunOk(NewRun(tool, i))
           /\ NewRun(tool, i).tool = tool /\ NewRun(tool, i).index = i /\ NewRun(tool, i).part = <<>>
           /\ NewRun(tool, i).lots = OfTool(tool)[i]
           /\ \E m \in 1..Len(OfTool(tool)[i]) : OfTool(tool)[i][m].tool = tool
           /\ \A m \in 1..Len(OfTool(tool)[i]) : OfTool(tool)[i][m].tool = tool
<1>1. PICK o : o = OfTool(tool)
    OBVIOUS
<1>2. PICK here : here = {l \in lots : l.tool = tool}
    OBVIOUS
<1>3. OncePlaced(o, here) /\ \A j \in 1..Len(o) : OneFamily(o[j])
    BY <1>1, <1>2, OfToolIs
<1>4. PICK its : its = o[i]
    OBVIOUS
<1>5. its \in Seq(here) /\ its # <<>> /\ Together(its) /\ OneFamily(its)
    BY <1>1, <1>3, <1>4, ElementOfSeq DEF OncePlaced
<1>6. here \subseteq lots /\ \A l \in here : l.tool = tool
    BY <1>2
<1>7. its \in Seq(lots)
    BY <1>5, <1>6, SeqMonotonic
<1>8. \A m \in 1..Len(its) : its[m].tool = tool
    BY <1>5, <1>6, ElementOfSeq
<1>9. 1 \in 1..Len(its)
    BY <1>5
<1>10. PICK r : r = NewRun(tool, i)
    OBVIOUS
<1>11. r.tool = tool /\ r.index = i /\ r.part = <<>> /\ r.lots = its
    BY <1>1, <1>4, <1>10 DEF NewRun
<1>12. RunOk(r)
  <2>1. r = [tool |-> r.tool, index |-> r.index, part |-> r.part, lots |-> r.lots]
    BY <1>10 DEF NewRun
  <2>2. QED
    BY <1>5, <1>7, <1>8, <1>11, <2>1 DEF RunOk
<1>13. QED
    BY <1>1, <1>4, <1>8, <1>9, <1>10, <1>11, <1>12

(* The runs that the grouping makes divide the lots.                       *)
LEMMA GroupLotsIs ==
    ASSUME LotsKeyed(lots), GroupLots
    PROVE  Grouping(runs') /\ Undivided(runs') /\ UNCHANGED lots
<1>1. PICK T : T = {l.tool : l \in lots}
    OBVIOUS
<1>2. PICK R : R = runs'
    OBVIOUS
<1>3. \A tool : LotsKeyed(lots) => DOMAIN OfTool(tool) = 1..Len(OfTool(tool))
  <2>1. SUFFICES ASSUME NEW tool PROVE DOMAIN OfTool(tool) = 1..Len(OfTool(tool))
    OBVIOUS
  <2>2. PICK here : here = {l \in lots : l.tool = tool}
    OBVIOUS
  <2>3. PICK o : o = OfTool(tool)
    OBVIOUS
  <2>4. OncePlaced(o, here)
    BY <2>2, <2>3, OfToolIs
  <2>5. o \in Seq(Seq(here))
    BY <2>4 DEF OncePlaced
  <2>6. DOMAIN o = 1..Len(o)
    BY <2>5
  <2>7. QED
    BY <2>3, <2>6
<1>4. R = UNION {{NewRun(tool, i) : i \in DOMAIN OfTool(tool)} : tool \in T}
    BY <1>1, <1>2 DEF GroupLots, NewRun
<1>5. \A r \in R : \E tool \in T : \E i \in 1..Len(OfTool(tool)) : r = NewRun(tool, i)
    BY <1>3, <1>4
<1>6. \A tool \in T : \A i \in 1..Len(OfTool(tool)) : NewRun(tool, i) \in R
    BY <1>3, <1>4
<1>7. ASSUME NEW r \in R
      PROVE  /\ r.tool \in T /\ r.index \in 1..Len(OfTool(r.tool)) /\ r = NewRun(r.tool, r.index)
             /\ RunOk(r) /\ r.part = <<>> /\ r.lots = OfTool(r.tool)[r.index]
             /\ \A m \in 1..Len(r.lots) : r.lots[m].tool = r.tool
  <2>1. PICK tool \in T : \E i \in 1..Len(OfTool(tool)) : r = NewRun(tool, i)
    BY <1>5
  <2>2. PICK i \in 1..Len(OfTool(tool)) : r = NewRun(tool, i)
    BY <2>1
  <2>3. r.tool = tool /\ r.index = i /\ RunOk(r) /\ r.part = <<>> /\ r.lots = OfTool(tool)[i]
    BY <2>2, NewRunIs
  <2>4. QED
    BY <2>1, <2>2, <2>3 DEF RunOk
<1>8. \A l \in lots : \E run \in R : \E i \in 1..Len(run.lots) : run.lots[i] = l
  <2>1. SUFFICES ASSUME NEW l \in lots
                 PROVE  \E run \in R : \E i \in 1..Len(run.lots) : run.lots[i] = l
    OBVIOUS
  <2>2. PICK here : here = {k \in lots : k.tool = l.tool}
    OBVIOUS
  <2>3. PICK tool : tool = l.tool
    OBVIOUS
  <2>4. PICK o : o = OfTool(tool)
    OBVIOUS
  <2>5. OncePlaced(o, here) /\ l \in here /\ tool \in T
    BY <1>1, <2>2, <2>3, <2>4, OfToolIs
  <2>6. PICK i \in 1..Len(o) : \E m \in 1..Len(o[i]) : o[i][m] = l
    BY <2>5 DEF OncePlaced
  <2>7. PICK r : r = NewRun(tool, i)
    OBVIOUS
  <2>8. r \in R /\ r.lots = o[i]
    BY <1>6, <2>4, <2>5, <2>7, NewRunIs
  <2>9. QED
    BY <2>6, <2>8
<1>9. \A r, q \in R : r.tool = q.tool /\ r.index = q.index => r = q
    BY <1>7
<1>10. \A r, q \in R : \A i \in 1..Len(r.lots), j \in 1..Len(q.lots) :
         r.lots[i] = q.lots[j] => r = q /\ i = j
  <2>1. SUFFICES ASSUME NEW r \in R, NEW q \in R, NEW i \in 1..Len(r.lots), NEW j \in 1..Len(q.lots),
                        r.lots[i] = q.lots[j]
                 PROVE  r = q /\ i = j
    OBVIOUS
  <2>2. r.tool = q.tool
    <3>1. r.lots[i].tool = r.tool
      BY <1>7
    <3>2. q.lots[j].tool = q.tool
      BY <1>7
    <3>3. QED
      BY <2>1, <3>1, <3>2
  <2>3. PICK o : o = OfTool(r.tool)
    OBVIOUS
  <2>4. Distinct(o)
    BY <2>3, OfToolIs DEF OncePlaced
  <2>5. PICK a, b : a = r.index /\ b = q.index
    OBVIOUS
  <2>6. a \in 1..Len(o) /\ b \in 1..Len(o) /\ r.lots = o[a] /\ q.lots = o[b]
    BY <1>7, <2>2, <2>3, <2>5
  <2>7. \A x, y \in 1..Len(o) : \A u \in 1..Len(o[x]), v \in 1..Len(o[y]) :
          o[x][u] = o[y][v] => x = y /\ u = v
    BY <2>4, Zenon DEF Distinct
  <2>8. \A u \in 1..Len(o[a]), v \in 1..Len(o[b]) : o[a][u] = o[b][v] => a = b /\ u = v
    BY <2>6, <2>7
  <2>9. a = b /\ i = j
    BY <2>1, <2>6, <2>8
  <2>10. QED
    BY <1>9, <2>2, <2>5, <2>9
<1>11. Divides(R, lots)
  <2>1. \A r \in R : Once(r.lots)
    <3>1. SUFFICES ASSUME NEW r \in R, NEW i \in 1..Len(r.lots), NEW j \in 1..Len(r.lots),
                          r.lots[i] = r.lots[j]
                   PROVE  i = j
      BY DEF Once
    <3>2. QED
      BY <1>10, <3>1
  <2>2. \A r \in R : LotsOf(r.lots) \subseteq lots
    <3>1. SUFFICES ASSUME NEW r \in R, NEW i \in 1..Len(r.lots) PROVE r.lots[i] \in lots
      BY DEF LotsOf
    <3>2. r.lots \in Seq(lots)
      BY <1>7 DEF RunOk
    <3>3. QED
      BY <3>2, ElementOfSeq
  <2>3. \A l \in lots : \E r \in R : l \in LotsOf(r.lots)
    BY <1>8 DEF LotsOf
  <2>4. \A r, q \in R, l \in lots : l \in LotsOf(r.lots) /\ l \in LotsOf(q.lots) => r = q
    <3>1. SUFFICES ASSUME NEW r \in R, NEW q \in R, NEW l \in LotsOf(r.lots), l \in LotsOf(q.lots)
                   PROVE  r = q
      OBVIOUS
    <3>2. PICK i \in 1..Len(r.lots) : l = r.lots[i]
      BY DEF LotsOf
    <3>3. PICK j \in 1..Len(q.lots) : l = q.lots[j]
      BY <3>1 DEF LotsOf
    <3>4. QED
      BY <1>10, <3>2, <3>3
  <2>5. QED
    BY <2>1, <2>2, <2>3, <2>4, Zenon DEF Divides
<1>12. Named(R)
  <2>1. SUFFICES ASSUME NEW r \in R, NEW q \in R, Name(r) = Name(q) PROVE r.tool = q.tool /\ r.index = q.index
    BY <1>9 DEF Named
  <2>2. QED
    BY <2>1 DEF Name
<1>13. Undivided(R)
    BY <1>7 DEF Undivided
<1>14. QED
    BY <1>2, <1>7, <1>11, <1>12, <1>13 DEF Grouping, GroupLots, sizingVars

-----------------------------------------------------------------------------
(* Parts of a run.                                                         *)

(* The minutes of some lots.                                               *)
Lasting(S) == [l \in S |-> l.minutes]

(* The minutes of a run are those of its lots, whatever their order.       *)
LEMMA MinutesOfLots ==
    ASSUME NEW S, \A l \in S : Keyed(l), NEW its \in Seq(S), Once(its)
    PROVE  /\ IsFiniteSet(LotsOf(its)) /\ LotsOf(its) \in SUBSET S
           /\ Cardinality(LotsOf(its)) = Len(its)
           /\ RunMinutes(its) = SumOver(Lasting(S), LotsOf(its))
<1>1. PICK n \in Nat : n = Len(its) /\ DOMAIN its = 1..n /\ \A i \in 1..n : its[i] \in S
    BY ElementOfSeq
<1> DEFINE f == [i \in 1..n |-> its[i].minutes]
           U(k) == {its[i] : i \in 1..k}
           P == {k \in Nat : k <= n => /\ IsFiniteSet(U(k)) /\ Cardinality(U(k)) = k
                                       /\ SumOver(Lasting(S), U(k)) = SumOver(f, 1..k)}
<1>2. \A l \in S : Lasting(S)[l] = l.minutes /\ l.minutes \in Int
    BY DEF Lasting, Keyed
<1>3. \A i \in 1..n : f[i] = its[i].minutes /\ f[i] \in Int
    BY <1>1, <1>2
<1>4. /\ U(0) = {} /\ 1..0 = {}
      /\ \A k \in Nat : k + 1 <= n => U(k + 1) = U(k) \cup {its[k + 1]} /\ its[k + 1] \notin U(k)
                                     /\ U(k) \subseteq S
  <2>1. U(0) = {} /\ 1..0 = {}
    OBVIOUS
  <2>2. SUFFICES ASSUME NEW k \in Nat, k + 1 <= n
                 PROVE  /\ U(k + 1) = U(k) \cup {its[k + 1]} /\ its[k + 1] \notin U(k)
                        /\ U(k) \subseteq S
    BY <2>1
  <2>3. 1..(k + 1) = (1..k) \cup {k + 1} /\ k + 1 \in 1..n /\ 1..k \subseteq 1..n
    BY <2>2
  <2>4. U(k + 1) = U(k) \cup {its[k + 1]}
    BY <2>3
  <2>5. U(k) \subseteq S
    BY <1>1, <2>3
  <2>6. its[k + 1] \notin U(k)
    <3>1. SUFFICES ASSUME NEW i \in 1..k, its[i] = its[k + 1] PROVE FALSE
      OBVIOUS
    <3>2. i \in 1..Len(its) /\ k + 1 \in 1..Len(its) /\ i # k + 1
      BY <1>1, <2>3
    <3>3. QED
      BY <3>1, <3>2 DEF Once
  <2>7. QED
    BY <2>4, <2>5, <2>6
<1>5. LotsOf(its) = U(n)
    BY <1>1 DEF LotsOf
<1>6. RunMinutes(its) = SumOver(f, 1..n)
    BY <1>1 DEF RunMinutes
<1> HIDE DEF U, f
<1>7. 0 \in P
    BY <1>4, SumEmpty, FS_EmptySet
<1>8. ASSUME NEW k \in P PROVE k + 1 \in P
  <2>1. SUFFICES ASSUME k \in Nat, k + 1 <= n
                 PROVE  /\ IsFiniteSet(U(k + 1)) /\ Cardinality(U(k + 1)) = k + 1
                        /\ SumOver(Lasting(S), U(k + 1)) = SumOver(f, 1..(k + 1))
    OBVIOUS
  <2>2. /\ IsFiniteSet(U(k)) /\ Cardinality(U(k)) = k
        /\ SumOver(Lasting(S), U(k)) = SumOver(f, 1..k)
    BY <2>1
  <2>3. /\ U(k + 1) = U(k) \cup {its[k + 1]} /\ its[k + 1] \notin U(k)
        /\ U(k) \subseteq S /\ its[k + 1] \in S
    BY <1>1, <1>4, <2>1
  <2>4. IsFiniteSet(U(k + 1)) /\ Cardinality(U(k + 1)) = k + 1
    <3>1. IsFiniteSet(U(k) \cup {its[k + 1]}) /\ Cardinality(U(k) \cup {its[k + 1]}) = Cardinality(U(k)) + 1
      BY <2>2, <2>3, FS_AddElement
    <3>2. QED
      BY <2>2, <2>3, <3>1
  <2>5. IsFiniteSet(1..k) /\ 1..(k + 1) = (1..k) \cup {k + 1} /\ k + 1 \notin 1..k /\ 1..(k + 1) \subseteq 1..n
    <3>1. IsFiniteSet(1..k)
      BY <2>1, FS_Interval
    <3>2. QED
      BY <2>1, <3>1
  <2>6. SumOver(Lasting(S), U(k) \cup {its[k + 1]})
        = Lasting(S)[its[k + 1]] + SumOver(Lasting(S), U(k))
    <3>1. \A x \in U(k) \cup {its[k + 1]} : Lasting(S)[x] \in Int
      BY <1>2, <2>3
    <3>2. QED
      BY <2>2, <2>3, <3>1, SumAdd
  <2>7. SumOver(f, (1..k) \cup {k + 1}) = f[k + 1] + SumOver(f, 1..k)
    <3>1. \A x \in (1..k) \cup {k + 1} : f[x] \in Int
      BY <1>3, <2>5
    <3>2. QED
      BY <2>5, <3>1, SumAdd
  <2>8. f[k + 1] = Lasting(S)[its[k + 1]]
    <3>1. k + 1 \in 1..n
      BY <2>1
    <3>2. QED
      BY <1>2, <1>3, <2>3, <3>1
  <2>9. QED
    BY <2>2, <2>3, <2>4, <2>5, <2>6, <2>7, <2>8
<1>9. P = Nat
  <2>1. P \subseteq Nat
    OBVIOUS
  <2> HIDE DEF P
  <2>2. QED
    BY <2>1, <1>7, <1>8, NatInd
<1>10. IsFiniteSet(U(n)) /\ Cardinality(U(n)) = n /\ SumOver(Lasting(S), U(n)) = SumOver(f, 1..n)
    BY <1>9
<1>11. LotsOf(its) \in SUBSET S
    BY <1>1 DEF LotsOf
<1>12. QED
    BY <1>1, <1>5, <1>6, <1>10, <1>11

(* The lots of a run are in order of their days.                           *)
LEMMA DayOrder ==
    ASSUME NEW S, \A l \in S : Keyed(l), NEW s \in Seq(S), Together(s),
           NEW i \in 1..Len(s), NEW j \in 1..Len(s), i <= j
    PROVE  s[i].edd \in Int /\ s[j].edd \in Int /\ s[i].edd <= s[j].edd
<1>1. s[i] \in S /\ s[j] \in S
    BY ElementOfSeq
<1>2. s[i].edd \in Int /\ s[j].edd \in Int
    BY <1>1 DEF Keyed
<1>3. CASE i < j
    BY <1>2, <1>3 DEF Together
<1>4. CASE i = j
    BY <1>2, <1>4
<1>5. i \in Int /\ j \in Int
    OBVIOUS
<1>6. QED
    BY <1>2, <1>3, <1>4, <1>5

(* Some of the lots of a run, in its order: the i-th is the a[i]-th of     *)
(* it.                                                                     *)
Picks(a, t, s) ==
    /\ a \in [1..Len(t) -> 1..Len(s)]
    /\ \A i, j \in 1..Len(t) : i < j => a[i] < a[j]
    /\ \A i \in 1..Len(t) : t[i] = s[a[i]]

(* They are lots of the run, each of them once if it is once in the run.   *)
LEMMA PicksOnce ==
    ASSUME NEW S, NEW s \in Seq(S), NEW t \in Seq(S), NEW a, Picks(a, t, s), Once(s)
    PROVE  Once(t) /\ LotsOf(t) \subseteq LotsOf(s)
<1>1. PICK m \in Nat : m = Len(t)
    OBVIOUS
<1>2. /\ \A i \in 1..m : a[i] \in 1..Len(s) /\ t[i] = s[a[i]]
      /\ \A i, j \in 1..m : i < j => a[i] < a[j]
    BY <1>1 DEF Picks
<1>3. \A i, j \in 1..m : t[i] = t[j] => i = j
  <2>1. SUFFICES ASSUME NEW i \in 1..m, NEW j \in 1..m, t[i] = t[j], i # j PROVE FALSE
    OBVIOUS
  <2>2. a[i] = a[j] /\ a[i] \in Int
    <3>1. a[i] \in 1..Len(s) /\ a[j] \in 1..Len(s) /\ s[a[i]] = s[a[j]]
      BY <1>2, <2>1
    <3>2. QED
      BY <3>1 DEF Once
  <2>3. i < j \/ j < i
    BY <2>1
  <2>4. QED
    BY <1>2, <2>2, <2>3
<1>4. QED
  <2>1. Once(t)
    BY <1>1, <1>3, Zenon DEF Once
  <2>2. \A i \in 1..m : t[i] \in LotsOf(s)
    BY <1>2 DEF LotsOf
  <2>3. LotsOf(t) \subseteq LotsOf(s)
    BY <1>1, <2>2 DEF LotsOf
  <2>4. QED
    BY <2>1, <2>3

(* No two neighbours are far apart.                                        *)
CloseBy(its) == \A i \in 2..Len(its) : its[i].edd - its[i - 1].edd <= MaxGap

(* Lots picked from a run are together if no two neighbours are far        *)
(* apart: the other limits hold of any part of a run.                      *)
LEMMA SubRun ==
    ASSUME NEW S, \A l \in S : Keyed(l), NEW s \in Seq(S), Together(s), OneFamily(s), Once(s),
           NEW t \in Seq(S), t # <<>>, NEW a, Picks(a, t, s), CloseBy(t)
    PROVE  Together(t) /\ OneFamily(t)
<1>1. PICK m \in Nat : m = Len(t) /\ m >= 1
    OBVIOUS
<1>2. PICK n \in Nat : n = Len(s)
    OBVIOUS
<1>3. /\ \A i \in 1..m : a[i] \in 1..n /\ t[i] = s[a[i]]
      /\ \A i, j \in 1..m : i < j => a[i] < a[j]
    BY <1>1, <1>2 DEF Picks
<1>4. 1 \in 1..m /\ a[1] \in 1..n /\ 1 \in 1..n /\ 1 <= a[1]
    BY <1>1, <1>3
<1>5. MaxSpan \in Nat /\ MaxRunMinutes \in Nat
    BY GroupingAssumption
<1>6. \A i, j \in 1..n : i <= j => s[i].edd \in Int /\ s[j].edd \in Int /\ s[i].edd <= s[j].edd
    BY <1>2, DayOrder
<1>7. \A i \in 1..n : Floor(s[i]) = Floor(s[1]) /\ s[i].edd - s[1].edd <= MaxSpan
    BY <1>2 DEF Together
<1>8. \A i \in 1..m : Floor(t[i]) = Floor(t[1]) /\ t[i].edd - t[1].edd <= MaxSpan
  <2>1. SUFFICES ASSUME NEW i \in 1..m PROVE Floor(t[i]) = Floor(t[1]) /\ t[i].edd - t[1].edd <= MaxSpan
    OBVIOUS
  <2>2. PICK b \in 1..n : b = a[i] /\ t[i] = s[b]
    BY <1>3
  <2>3. PICK c \in 1..n : c = a[1] /\ t[1] = s[c] /\ 1 <= c
    BY <1>3, <1>4
  <2>4. Floor(t[i]) = Floor(t[1])
    BY <1>7, <2>2, <2>3
  <2>5. /\ s[1].edd \in Int /\ s[c].edd \in Int /\ s[1].edd <= s[c].edd
    BY <1>4, <1>6, <2>3
  <2>6. s[b].edd \in Int
    <3>1. b <= b
      OBVIOUS
    <3>2. QED
      BY <1>6, <3>1
  <2>7. s[b].edd - s[c].edd <= MaxSpan
    <3>1. s[b].edd - s[1].edd <= MaxSpan
      BY <1>7
    <3>2. PICK x \in Int, y \in Int, z \in Int : x = s[1].edd /\ y = s[c].edd /\ z = s[b].edd
      BY <2>5, <2>6
    <3>3. x <= y /\ z - x <= MaxSpan
      BY <2>5, <3>1, <3>2, Zenon
    <3>4. z - y <= MaxSpan
      BY <1>5, <3>3
    <3>5. QED
      BY <3>2, <3>4, Zenon
  <2>8. QED
    BY <2>2, <2>3, <2>4, <2>7
<1>9. \A i, j \in 1..m : i < j => t[i].edd <= t[j].edd
  <2>1. SUFFICES ASSUME NEW i \in 1..m, NEW j \in 1..m, i < j PROVE t[i].edd <= t[j].edd
    OBVIOUS
  <2>2. PICK b \in 1..n, c \in 1..n : b = a[i] /\ t[i] = s[b] /\ c = a[j] /\ t[j] = s[c] /\ b < c
    BY <1>3, <2>1
  <2>3. b <= c
    BY <2>2
  <2>4. QED
    BY <1>6, <2>2, <2>3
<1>10. OneFamily(t)
  <2>1. \A i \in 1..n : s[i].family = s[1].family
    BY <1>2 DEF OneFamily
  <2>2. \A i \in 1..m : t[i].family = s[1].family
    BY <1>3, <2>1
  <2>3. QED
    BY <1>1, <1>4, <2>2 DEF OneFamily
<1>11. m = 1 \/ RunMinutes(t) <= MaxRunMinutes
  <2>1. CASE n = 1
    <3>1. SUFFICES ASSUME m # 1 PROVE FALSE
      OBVIOUS
    <3>2. 2 \in 1..m /\ 1 < 2
      BY <1>1, <3>1
    <3>3. a[1] < a[2] /\ a[1] \in 1..n /\ a[2] \in 1..n
      BY <1>3, <1>4, <3>2
    <3>4. QED
      BY <2>1, <3>3
  <2>2. CASE RunMinutes(s) <= MaxRunMinutes
    <3>1. Once(t) /\ LotsOf(t) \subseteq LotsOf(s)
      BY PicksOnce
    <3>2. /\ IsFiniteSet(LotsOf(s)) /\ LotsOf(s) \in SUBSET S
          /\ RunMinutes(s) = SumOver(Lasting(S), LotsOf(s))
      BY MinutesOfLots
    <3>3. RunMinutes(t) = SumOver(Lasting(S), LotsOf(t))
      BY <3>1, MinutesOfLots
    <3>4. \A l \in LotsOf(s) : Lasting(S)[l] \in Nat
      BY <3>2 DEF Lasting, Keyed
    <3>5. SumOver(Lasting(S), LotsOf(t)) <= SumOver(Lasting(S), LotsOf(s))
      BY <3>1, <3>2, <3>4, SumOfPart
    <3>6. SumOver(Lasting(S), LotsOf(t)) \in Int /\ SumOver(Lasting(S), LotsOf(s)) \in Int
      <4>1. IsFiniteSet(LotsOf(t)) /\ \A l \in LotsOf(t) : Lasting(S)[l] \in Nat
        BY <3>1, <3>2, <3>4, FS_Subset
      <4>2. QED
        BY <3>2, <3>4, <4>1, SumIsNat
    <3>7. QED
      BY <1>5, <2>2, <3>2, <3>3, <3>5, <3>6
  <2>3. QED
    BY <1>2, <2>1, <2>2 DEF Together
<1>12. Together(t)
    BY <1>1, <1>8, <1>9, <1>11 DEF Together, CloseBy
<1>13. QED
    BY <1>10, <1>12

(* Runs stay divided when each of them is divided.                         *)
LEMMA DividedAgain ==
    ASSUME NEW R, NEW L, Divides(R, L), NEW D, \A r \in R : Divides(D[r], LotsOf(r.lots)),
           NEW N, N = UNION {D[r] : r \in R}
    PROVE  Divides(N, L)
<1>1. \A p \in N : \E r \in R : p \in D[r]
    OBVIOUS
<1>2. \A r \in R : \A p \in D[r] : p \in N /\ Once(p.lots) /\ LotsOf(p.lots) \subseteq LotsOf(r.lots)
    BY DEF Divides
<1>3. \A r \in R : LotsOf(r.lots) \subseteq L
    BY DEF Divides
<1>4. \A p \in N : Once(p.lots) /\ LotsOf(p.lots) \subseteq L
    BY <1>1, <1>2, <1>3
<1>5. \A l \in L : \E p \in N : l \in LotsOf(p.lots)
  <2>1. SUFFICES ASSUME NEW l \in L PROVE \E p \in N : l \in LotsOf(p.lots)
    OBVIOUS
  <2>2. PICK r \in R : l \in LotsOf(r.lots)
    BY DEF Divides
  <2>3. Divides(D[r], LotsOf(r.lots))
    OBVIOUS
  <2>4. PICK p \in D[r] : l \in LotsOf(p.lots)
    BY <2>2, <2>3, Zenon DEF Divides
  <2>5. QED
    BY <1>2, <2>4
<1>6. \A p, q \in N, l \in L : l \in LotsOf(p.lots) /\ l \in LotsOf(q.lots) => p = q
  <2>1. SUFFICES ASSUME NEW p \in N, NEW q \in N, NEW l \in L, l \in LotsOf(p.lots), l \in LotsOf(q.lots)
                 PROVE  p = q
    OBVIOUS
  <2>2. PICK r \in R : p \in D[r]
    BY <1>1
  <2>3. PICK s \in R : q \in D[s]
    BY <1>1
  <2>4. l \in LotsOf(r.lots) /\ l \in LotsOf(s.lots)
    BY <1>2, <2>1, <2>2, <2>3
  <2>5. r = s
    BY <2>4, Zenon DEF Divides
  <2>6. Divides(D[r], LotsOf(r.lots))
    OBVIOUS
  <2>7. \A x, y \in D[r], k \in LotsOf(r.lots) : k \in LotsOf(x.lots) /\ k \in LotsOf(y.lots) => x = y
    BY <2>6, Zenon DEF Divides
  <2>8. QED
    BY <2>1, <2>2, <2>3, <2>4, <2>5, <2>7
<1>7. QED
    BY <1>4, <1>5, <1>6, Zenon DEF Divides

(* A run divides its own lots.                                             *)
LEMMA DividesItself == ASSUME NEW r, Once(r.lots) PROVE Divides({r}, LotsOf(r.lots))
BY DEF Divides

(* A lot joins the picked ones.                                            *)
LEMMA PicksJoined ==
    ASSUME NEW S, NEW s \in Seq(S), NEW t \in Seq(S), NEW a, Picks(a, t, s),
           NEW k \in Nat, k + 1 <= Len(s), \A i \in 1..Len(t) : a[i] <= k,
           NEW b, b = [i \in 1..(Len(t) + 1) |-> IF i = Len(t) + 1 THEN k + 1 ELSE a[i]]
    PROVE  Picks(b, Append(t, s[k + 1]), s)
<1>1. PICK n \in Nat, m \in Nat : n = Len(s) /\ m = Len(t)
    OBVIOUS
<1>2. s[k + 1] \in S
    BY ElementOfSeq
<1>3. PICK u : u = Append(t, s[k + 1])
    OBVIOUS
<1>4. Len(u) = m + 1 /\ u[m + 1] = s[k + 1] /\ \A i \in 1..m : u[i] = t[i]
    BY <1>1, <1>2, <1>3
<1>5. /\ \A i \in 1..m : a[i] \in 1..n /\ t[i] = s[a[i]] /\ a[i] <= k
      /\ \A i, j \in 1..m : i < j => a[i] < a[j]
    BY <1>1 DEF Picks
<1>6. \A i \in 1..m : i \in 1..(m + 1) /\ i # m + 1 /\ b[i] = a[i]
    BY <1>1
<1>7. b[m + 1] = k + 1 /\ m + 1 \in 1..(m + 1) /\ k + 1 \in 1..n
    BY <1>1
<1>8. \A i \in 1..(m + 1) : i \in 1..m \/ i = m + 1
    OBVIOUS
<1>9. b \in [1..(m + 1) -> 1..n]
  <2>1. \A i \in 1..(m + 1) : b[i] \in 1..n
    BY <1>5, <1>6, <1>7, <1>8
  <2>2. b = [i \in 1..(m + 1) |-> b[i]]
    BY <1>1
  <2>3. QED
    BY <2>1, <2>2
<1>10. \A i \in 1..(m + 1) : u[i] = s[b[i]]
    BY <1>4, <1>5, <1>6, <1>7, <1>8
<1>11. \A i, j \in 1..(m + 1) : i < j => b[i] < b[j]
  <2>1. SUFFICES ASSUME NEW i \in 1..(m + 1), NEW j \in 1..(m + 1), i < j PROVE b[i] < b[j]
    OBVIOUS
  <2>2. i \in 1..m
    BY <2>1
  <2>3. CASE j \in 1..m
    BY <1>5, <1>6, <2>1, <2>2, <2>3
  <2>4. CASE j = m + 1
    <3>1. a[i] \in 1..n /\ a[i] <= k /\ b[i] = a[i]
      BY <1>5, <1>6, <2>2
    <3>2. QED
      BY <1>7, <2>4, <3>1
  <2>5. QED
    BY <1>8, <2>3, <2>4
<1>12. Picks(b, u, s)
    BY <1>1, <1>4, <1>9, <1>10, <1>11 DEF Picks
<1>13. QED
    BY <1>3, <1>12

(* No lot picked is a pick.                                                *)
LEMMA PicksNone == ASSUME NEW s PROVE Picks(<<>>, <<>>, s)
BY DEF Picks

-----------------------------------------------------------------------------
(* The split of the runs that cannot end in time.                          *)

(* The first k lots of a run s, sorted into e (by a) and l (by b).         *)
Sorts(e, l, a, b, k, s) ==
    /\ Picks(a, e, s) /\ Picks(b, l, s)
    /\ \A i \in 1..Len(e) : a[i] <= k /\ e[i].edd <= s[1].edd
    /\ \A i \in 1..Len(l) : b[i] <= k
    /\ \A c \in 1..k : (\E i \in 1..Len(e) : a[i] = c) \/ (\E i \in 1..Len(l) : b[i] = c)
    /\ \A i \in 1..Len(e), j \in 1..Len(l) : a[i] # b[j]

(* The step of EarlyAndLate.                                               *)
Sorting(run, parts, l) ==
    IF Fits(run, parts[1], l) THEN <<Append(parts[1], l), parts[2]>>
    ELSE <<parts[1], Append(parts[2], l)>>

(* The positions of a part that a lot joins.                               *)
Extended(a, m, k) == [i \in 1..(m + 1) |-> IF i = m + 1 THEN k + 1 ELSE a[i]]

(* The next lot is sorted into one part or the other,                      *)
LEMMA SortingJoins ==
    ASSUME NEW S, \A l \in S : Keyed(l), NEW s \in Seq(S), NEW k \in Nat, k + 1 <= Len(s),
           NEW e \in Seq(S), NEW l \in Seq(S), NEW a, NEW b, Sorts(e, l, a, b, k, s)
    PROVE  /\ \E c : Sorts(e, Append(l, s[k + 1]), a, c, k + 1, s)
           /\ s[k + 1].edd <= s[1].edd => \E c : Sorts(Append(e, s[k + 1]), l, c, b, k + 1, s)
<1>1. PICK n \in Nat, me \in Nat, ml \in Nat : n = Len(s) /\ me = Len(e) /\ ml = Len(l)
    OBVIOUS
<1>2. PICK x \in S : x = s[k + 1]
  <2>1. k + 1 \in 1..Len(s)
    BY <1>1
  <2>2. QED
    BY <2>1, ElementOfSeq
<1>3. /\ Picks(a, e, s) /\ Picks(b, l, s)
      /\ a \in [1..me -> 1..n] /\ b \in [1..ml -> 1..n]
      /\ \A i \in 1..me : a[i] <= k /\ e[i].edd <= s[1].edd
      /\ \A i \in 1..ml : b[i] <= k
      /\ \A c \in 1..k : (\E i \in 1..me : a[i] = c) \/ (\E i \in 1..ml : b[i] = c)
      /\ \A i \in 1..me, j \in 1..ml : a[i] # b[j]
    BY <1>1, Zenon DEF Sorts, Picks
<1>4. \A c \in 1..(k + 1) : c \in 1..k \/ c = k + 1
    OBVIOUS
<1>5. \A i \in 1..me : a[i] # k + 1 /\ a[i] <= k + 1
  <2>1. SUFFICES ASSUME NEW i \in 1..me PROVE a[i] # k + 1 /\ a[i] <= k + 1
    OBVIOUS
  <2>2. a[i] \in 1..n /\ a[i] <= k
    BY <1>3
  <2>3. PICK v \in 1..n : v = a[i]
    BY <2>2
  <2>4. v <= k
    BY <2>2, <2>3
  <2>5. v # k + 1 /\ v <= k + 1
    BY <1>1, <2>4
  <2>6. QED
    BY <2>3, <2>5
<1>6. \A i \in 1..ml : b[i] # k + 1 /\ b[i] <= k + 1
  <2>1. SUFFICES ASSUME NEW i \in 1..ml PROVE b[i] # k + 1 /\ b[i] <= k + 1
    OBVIOUS
  <2>2. b[i] \in 1..n /\ b[i] <= k
    BY <1>3
  <2>3. QED
    BY <2>2
<1>7. \E c : Sorts(e, Append(l, s[k + 1]), a, c, k + 1, s)
  <2>1. PICK c : c = Extended(b, ml, k)
    OBVIOUS
  <2>2. /\ \A i \in 1..(ml + 1) : c[i] <= k + 1
        /\ \A i \in 1..ml : i \in 1..(ml + 1) /\ c[i] = b[i]
        /\ ml + 1 \in 1..(ml + 1) /\ c[ml + 1] = k + 1
        /\ \A i \in 1..(ml + 1) : i \in 1..ml \/ i = ml + 1
    <3>1. /\ \A i \in 1..ml : i \in 1..(ml + 1) /\ c[i] = b[i]
          /\ ml + 1 \in 1..(ml + 1) /\ c[ml + 1] = k + 1
          /\ \A i \in 1..(ml + 1) : i \in 1..ml \/ i = ml + 1
      BY <2>1 DEF Extended
    <3>2. \A i \in 1..(ml + 1) : c[i] <= k + 1
      <4>1. k + 1 <= k + 1
        OBVIOUS
      <4>2. QED
        BY <1>6, <3>1, <4>1
    <3>3. QED
      BY <3>1, <3>2
  <2>3. Picks(c, Append(l, s[k + 1]), s)
    <3>1. c = [i \in 1..(Len(l) + 1) |-> IF i = Len(l) + 1 THEN k + 1 ELSE b[i]]
      BY <1>1, <2>1 DEF Extended
    <3>2. \A i \in 1..Len(l) : b[i] <= k
      BY <1>1, <1>3
    <3>3. QED
      BY <1>3, <3>1, <3>2, PicksJoined
  <2>4. PICK t : t = Append(l, s[k + 1])
    OBVIOUS
  <2>5. Len(t) = ml + 1
    BY <1>1, <1>2, <2>4
  <2>6. \A d \in 1..(k + 1) : (\E i \in 1..me : a[i] = d) \/ (\E i \in 1..(ml + 1) : c[i] = d)
    <3>1. SUFFICES ASSUME NEW d \in 1..(k + 1)
                   PROVE  (\E i \in 1..me : a[i] = d) \/ (\E i \in 1..(ml + 1) : c[i] = d)
      OBVIOUS
    <3>2. CASE d \in 1..k
      BY <1>3, <2>2, <3>2
    <3>3. CASE d = k + 1
      BY <2>2, <3>3
    <3>4. QED
      BY <1>4, <3>2, <3>3
  <2>7. \A i \in 1..me, j \in 1..(ml + 1) : a[i] # c[j]
    BY <1>3, <1>5, <2>2
  <2>8. Sorts(e, t, a, c, k + 1, s)
    <3>1. \A i \in 1..me : a[i] <= k + 1 /\ e[i].edd <= s[1].edd
      BY <1>3, <1>5
    <3>2. \A i \in 1..(ml + 1) : c[i] <= k + 1
      BY <2>2
    <3>3. QED
      BY <1>1, <1>3, <2>3, <2>4, <2>5, <2>6, <2>7, <3>1, <3>2, Zenon DEF Sorts
  <2>9. QED
    BY <2>4, <2>8
<1>8. ASSUME x.edd <= s[1].edd PROVE \E c : Sorts(Append(e, s[k + 1]), l, c, b, k + 1, s)
  <2>1. PICK c : c = Extended(a, me, k)
    OBVIOUS
  <2>2. /\ \A i \in 1..(me + 1) : c[i] <= k + 1
        /\ \A i \in 1..me : i \in 1..(me + 1) /\ c[i] = a[i]
        /\ me + 1 \in 1..(me + 1) /\ c[me + 1] = k + 1
        /\ \A i \in 1..(me + 1) : i \in 1..me \/ i = me + 1
    <3>1. /\ \A i \in 1..me : i \in 1..(me + 1) /\ c[i] = a[i]
          /\ me + 1 \in 1..(me + 1) /\ c[me + 1] = k + 1
          /\ \A i \in 1..(me + 1) : i \in 1..me \/ i = me + 1
      BY <2>1 DEF Extended
    <3>2. \A i \in 1..(me + 1) : c[i] <= k + 1
      <4>1. k + 1 <= k + 1
        OBVIOUS
      <4>2. QED
        BY <1>5, <3>1, <4>1
    <3>3. QED
      BY <3>1, <3>2
  <2>3. Picks(c, Append(e, s[k + 1]), s)
    <3>1. c = [i \in 1..(Len(e) + 1) |-> IF i = Len(e) + 1 THEN k + 1 ELSE a[i]]
      BY <1>1, <2>1 DEF Extended
    <3>2. \A i \in 1..Len(e) : a[i] <= k
      BY <1>1, <1>3
    <3>3. QED
      BY <1>3, <3>1, <3>2, PicksJoined
  <2>4. PICK t : t = Append(e, s[k + 1])
    OBVIOUS
  <2>5. Len(t) = me + 1 /\ t[me + 1] = x /\ \A i \in 1..me : t[i] = e[i]
    BY <1>1, <1>2, <2>4
  <2>6. \A d \in 1..(k + 1) : (\E i \in 1..(me + 1) : c[i] = d) \/ (\E i \in 1..ml : b[i] = d)
    <3>1. SUFFICES ASSUME NEW d \in 1..(k + 1)
                   PROVE  (\E i \in 1..(me + 1) : c[i] = d) \/ (\E i \in 1..ml : b[i] = d)
      OBVIOUS
    <3>2. CASE d \in 1..k
      BY <1>3, <2>2, <3>2
    <3>3. CASE d = k + 1
      BY <2>2, <3>3
    <3>4. QED
      BY <1>4, <3>2, <3>3
  <2>7. \A i \in 1..(me + 1), j \in 1..ml : c[i] # b[j]
    BY <1>3, <1>6, <2>2
  <2>8. \A i \in 1..(me + 1) : c[i] <= k + 1 /\ t[i].edd <= s[1].edd
    BY <1>3, <1>8, <2>2, <2>5
  <2>9. Sorts(t, l, c, b, k + 1, s)
    BY <1>1, <1>3, <1>6, <2>3, <2>4, <2>5, <2>6, <2>7, <2>8, Zenon DEF Sorts
  <2>10. QED
    BY <2>4, <2>9
<1>9. QED
    BY <1>2, <1>7, <1>8

(* and in the parts of a run whose lots are all sorted no two neighbours   *)
(* are far apart: the early ones are of the first day of the run, which    *)
(* comes before all others.                                                *)
LEMMA SortsGaps ==
    ASSUME NEW S, \A l \in S : Keyed(l), NEW s \in Seq(S), Together(s), NEW e \in Seq(S), NEW l \in Seq(S),
           NEW a, NEW b, Sorts(e, l, a, b, Len(s), s)
    PROVE  CloseBy(e) /\ CloseBy(l)
<1>1. PICK n \in Nat, me \in Nat, ml \in Nat : n = Len(s) /\ me = Len(e) /\ ml = Len(l)
    OBVIOUS
<1>2. /\ \A i \in 1..me : a[i] \in 1..n /\ e[i] = s[a[i]] /\ e[i].edd <= s[1].edd
      /\ \A i \in 1..ml : b[i] \in 1..n /\ l[i] = s[b[i]]
      /\ \A i, j \in 1..ml : i < j => b[i] < b[j]
      /\ \A c \in 1..n : (\E i \in 1..me : a[i] = c) \/ (\E i \in 1..ml : b[i] = c)
    BY <1>1, Zenon DEF Sorts, Picks
<1>3. \A i, j \in 1..n : i <= j => s[i].edd \in Int /\ s[j].edd \in Int /\ s[i].edd <= s[j].edd
    BY <1>1, DayOrder
<1>4. MaxGap \in Nat /\ \A i \in 2..n : s[i].edd - s[i - 1].edd <= MaxGap
    BY <1>1, GroupingAssumption DEF Together
<1>5. \A i \in 1..n : 1 \in 1..n /\ 1 <= i
    BY <1>1
<1>6. ASSUME NEW i \in 2..me PROVE e[i].edd - e[i - 1].edd <= MaxGap
  <2>1. i \in 1..me /\ i - 1 \in 1..me
    BY <1>1
  <2>2. PICK c \in 1..n, d \in 1..n : c = a[i] /\ d = a[i - 1] /\ e[i] = s[c] /\ e[i - 1] = s[d]
    BY <1>2, <2>1
  <2>3. s[c].edd <= s[1].edd
    BY <1>2, <2>1, <2>2
  <2>4. /\ s[1].edd \in Int /\ s[d].edd \in Int /\ s[1].edd <= s[d].edd
        /\ s[c].edd \in Int
    BY <1>3, <1>5
  <2>5. s[c].edd - s[d].edd <= MaxGap
    BY <1>4, <2>3, <2>4
  <2>6. QED
    BY <2>2, <2>5
<1>7. ASSUME NEW i \in 2..ml PROVE l[i].edd - l[i - 1].edd <= MaxGap
  <2>1. i \in 1..ml /\ i - 1 \in 1..ml /\ i - 1 < i
    BY <1>1
  <2>0. /\ b[i] \in 1..n /\ l[i] = s[b[i]]
        /\ b[i - 1] \in 1..n /\ l[i - 1] = s[b[i - 1]] /\ b[i - 1] < b[i]
    BY <1>2, <2>1
  <2>2. PICK c \in 1..n, d \in 1..n : c = b[i] /\ d = b[i - 1] /\ l[i] = s[c] /\ l[i - 1] = s[d] /\ d < c
    BY <2>0
  <2>3. c \in 2..n /\ c - 1 \in 1..n
    BY <1>1, <2>2
  <2>4. PICK p \in 1..n : p = c - 1
    BY <2>3
  <2>5. s[c].edd - s[p].edd <= MaxGap
    BY <1>4, <2>3, <2>4
  <2>6. CASE p = d
    BY <2>2, <2>5, <2>6
  <2>7. CASE p # d
    <3>1. ~ \E j \in 1..ml : b[j] = p
      <4>1. SUFFICES ASSUME NEW j \in 1..ml, b[j] = p PROVE FALSE
        OBVIOUS
      <4>2. d < p /\ p < c
        BY <2>2, <2>4, <2>7
      <4>3. ~(j < i - 1) /\ j # i - 1
        <5>1. CASE j < i - 1
          <6>1. b[j] < b[i - 1]
            BY <1>2, <2>1, <5>1
          <6>2. QED
            BY <2>2, <4>1, <4>2, <6>1
        <5>2. CASE j = i - 1
          BY <2>2, <2>7, <4>1, <5>2
        <5>3. QED
          BY <5>1, <5>2
      <4>4. ~(i < j) /\ j # i
        <5>1. CASE i < j
          <6>1. b[i] < b[j]
            BY <1>2, <2>1, <5>1
          <6>2. QED
            BY <2>2, <4>1, <4>2, <6>1
        <5>2. CASE j = i
          BY <2>2, <4>1, <4>2, <5>2
        <5>3. QED
          BY <5>1, <5>2
      <4>5. QED
        BY <4>3, <4>4
    <3>2. PICK j \in 1..me : a[j] = p
      BY <1>2, <3>1
    <3>3. s[p].edd <= s[1].edd
      BY <1>2, <3>2
    <3>4. s[1].edd \in Int /\ s[d].edd \in Int /\ s[1].edd <= s[d].edd
      BY <1>3, <1>5
    <3>5. s[p].edd \in Int /\ s[c].edd \in Int
      BY <1>3, <1>5
    <3>6. s[c].edd - s[d].edd <= MaxGap
      <4>1. PICK x \in Int, y \in Int, z \in Int : x = s[c].edd /\ y = s[d].edd /\ z = s[p].edd
        BY <3>4, <3>5
      <4>2. z <= y /\ x - z <= MaxGap
        BY <2>5, <3>3, <3>4, <4>1
      <4>3. x - y <= MaxGap
        BY <4>2, GroupingAssumption
      <4>4. QED
        BY <4>1, <4>3
    <3>7. QED
      BY <2>2, <3>6
  <2>8. QED
    BY <2>6, <2>7
<1>8. QED
    BY <1>1, <1>6, <1>7 DEF CloseBy

(* The parts of a run are a fold over its lots.                            *)
PartsEquation(iter, run) ==
    iter = [p \in SUBSET DOMAIN run.lots |->
              IF p = {} THEN <<<<>>, <<>>>> ELSE Sorting(run, iter[p \ {Max(p)}], run.lots[Max(p)])]
PartsUpTo(run) == CHOOSE iter : PartsEquation(iter, run)

(* EarlyAndLate is this fold at all the positions.                         *)
LEMMA PartsAreSorted == ASSUME NEW run PROVE EarlyAndLate(run) = PartsUpTo(run)[DOMAIN run.lots]
BY Zenon DEF EarlyAndLate, FoldLeft, MapThenFoldSet, PartsUpTo, PartsEquation, Sorting

(* Its step takes two sequences of lots to two sequences of lots,          *)
LEMMA SortingType ==
    ASSUME NEW S, NEW run, NEW e \in Seq(S), NEW h \in Seq(S), NEW c, c[1] = e, c[2] = h, NEW l \in S,
           NEW p, p = Sorting(run, c, l)
    PROVE  p \in Seq(S) \X Seq(S)
<1>0. Append(e, l) \in Seq(S) /\ Append(h, l) \in Seq(S)
    OBVIOUS
<1>1. PICK e1 \in Seq(S), h1 \in Seq(S) : e1 = Append(e, l) /\ h1 = Append(h, l)
    BY <1>0
<1>2. CASE Fits(run, e, l)
  <2>1. p = <<e1, h>>
    BY <1>1, <1>2 DEF Sorting
  <2>2. p[1] = e1 /\ p[2] = h /\ p \in Seq(S) \X Seq(S)
    BY <2>1
  <2>3. QED
    BY <1>1, <1>2, <2>2, Zenon
<1>3. CASE ~Fits(run, e, l)
  <2>1. p = <<e, h1>>
    BY <1>1, <1>3 DEF Sorting
  <2>2. p[1] = e /\ p[2] = h1 /\ p \in Seq(S) \X Seq(S)
    BY <2>1
  <2>3. QED
    BY <1>1, <2>2, Zenon
<1>4. QED
    BY <1>2, <1>3

(* so that there is such a fold.                                           *)
LEMMA PartsExist ==
    ASSUME NEW S, NEW run, run.lots \in Seq(S)
    PROVE  PartsEquation(PartsUpTo(run), run)
<1>0. PICK s \in Seq(S) : s = run.lots
    OBVIOUS
<1>1. PICK n \in Nat : n = Len(s) /\ DOMAIN s = 1..n /\ \A i \in 1..n : s[i] \in S
    BY ElementOfSeq
<1>2. PICK V : V = Seq(S) \X Seq(S)
    OBVIOUS
<1> DEFINE g == [p \in (1..n) \X V |-> Sorting(run, p[2], s[p[1]])]
<1>3. g \in [(1..n) \X V -> V]
  <2>1. \A p \in (1..n) \X V : Sorting(run, p[2], s[p[1]]) \in V
    <3>1. SUFFICES ASSUME NEW p \in (1..n) \X V PROVE Sorting(run, p[2], s[p[1]]) \in V
      OBVIOUS
    <3>2. p[2] \in V /\ s[p[1]] \in S
      BY <1>1
    <3>3. PICK c \in V, l \in S : c = p[2] /\ l = s[p[1]]
      BY <3>2
    <3>4. PICK e \in Seq(S), h \in Seq(S) : c[1] = e /\ c[2] = h
      BY <1>2
    <3>5. PICK q : q = Sorting(run, c, l)
      OBVIOUS
    <3>6. q \in Seq(S) \X Seq(S)
      BY <3>4, <3>5, SortingType
    <3>7. QED
      BY <1>2, <3>3, <3>5, <3>6
  <2>2. QED
    BY <2>1
<1>4. \A i \in 1..n, c \in V : g[<<i, c>>] = Sorting(run, c, s[i])
  <2>1. SUFFICES ASSUME NEW i \in 1..n, NEW c \in V PROVE g[<<i, c>>] = Sorting(run, c, s[i])
    OBVIOUS
  <2>2. PICK p : p = <<i, c>>
    OBVIOUS
  <2>3. p[1] = i /\ p[2] = c /\ p \in (1..n) \X V
    BY <2>2
  <2>4. g[p] = Sorting(run, p[2], s[p[1]])
    BY <2>3
  <2>5. QED
    BY <2>2, <2>3, <2>4
<1> HIDE DEF g
<1>none. PICK z : z = <<<<>>, <<>>>>
    OBVIOUS
<1>5. z \in V
  <2>1. PICK nil \in Seq(S) : nil = <<>>
    BY EmptySeq
  <2>2. z = <<nil, nil>>
    BY <1>none, <2>1, Zenon
  <2>3. QED
    BY <1>2, <2>2
<1>6. PICK iter : iter \in [SUBSET (1..n) -> V] /\ FoldEquation(iter, n, z, g)
    BY <1>3, <1>5, FoldExists
<1>7. \A p \in SUBSET (1..n) :
        iter[p] = IF p = {} THEN z ELSE Sorting(run, iter[p \ {Max(p)}], s[Max(p)])
  <2>1. SUFFICES ASSUME NEW p \in SUBSET (1..n)
                 PROVE  iter[p] = IF p = {} THEN z ELSE Sorting(run, iter[p \ {Max(p)}], s[Max(p)])
    OBVIOUS
  <2>2. iter[p] = IF p = {} THEN z ELSE g[<<Max(p), iter[p \ {Max(p)}]>>]
    BY <1>6, Zenon DEF FoldEquation
  <2>3. CASE p # {}
    <3>1. p \subseteq Int /\ IsFiniteSet(p)
      <4>1. IsFiniteSet(1..n)
        BY FS_Interval
      <4>2. IsFiniteSet(p)
        BY <4>1, FS_Subset
      <4>3. QED
        BY <4>2
    <3>2. PICK m \in 1..n : m = Max(p)
      BY <2>3, <3>1, MaxIs
    <3>3. p \ {m} \in SUBSET (1..n)
      OBVIOUS
    <3>4. PICK c \in V : c = iter[p \ {m}]
      BY <1>6, <3>3
    <3>5. g[<<m, c>>] = Sorting(run, c, s[m])
      BY <1>4
    <3>6. QED
      BY <2>2, <2>3, <3>2, <3>4, <3>5
  <2>4. QED
    BY <2>2, <2>3
<1>8. PartsEquation(iter, run)
  <2>1. DOMAIN iter = SUBSET (1..n) /\ iter = [p \in SUBSET (1..n) |-> iter[p]]
    BY <1>6
  <2>2. iter = [p \in SUBSET (1..n) |->
                  IF p = {} THEN z ELSE Sorting(run, iter[p \ {Max(p)}], s[Max(p)])]
    BY <1>7, <2>1
  <2>3. QED
    BY <1>0, <1>1, <1>none, <2>2, Zenon DEF PartsEquation
<1>9. QED
    BY <1>8, Zenon DEF PartsUpTo

(* Two parts are the first k lots of a run, sorted.                        *)
PartsOk(c, k, s, S) ==
    /\ c[1] \in Seq(S) /\ c[2] \in Seq(S)
    /\ \E a, b : Sorts(c[1], c[2], a, b, k, s)

(* What it makes of the lots of a run are its lots, sorted.                *)
LEMMA EarlyAndLateIs ==
    ASSUME NEW S, \A l \in S : Keyed(l), NEW run, NEW s \in Seq(S), s = run.lots
    PROVE  PartsOk(EarlyAndLate(run), Len(s), s, S)
<1>1. PICK n \in Nat : n = Len(s) /\ DOMAIN s = 1..n /\ \A i \in 1..n : s[i] \in S
    BY ElementOfSeq
<1>2. PICK c : c = PartsUpTo(run)
    OBVIOUS
<1>none. PICK z : z = <<<<>>, <<>>>>
    OBVIOUS
<1>v. PICK V : V = Seq(S) \X Seq(S)
    OBVIOUS
<1>3. \A p \in SUBSET (1..n) :
        c[p] = IF p = {} THEN z ELSE Sorting(run, c[p \ {Max(p)}], s[Max(p)])
  <2>1. PartsEquation(c, run)
    BY <1>2, PartsExist
  <2>2. QED
    BY <1>1, <1>none, <2>1, Zenon DEF PartsEquation
<1> DEFINE P == {k \in Nat : k <= n => c[1..k] \in V /\ PartsOk(c[1..k], k, s, S)}
<1>4. 0 \in P
  <2>1. 1..0 = {} /\ {} \in SUBSET (1..n)
    OBVIOUS
  <2>2. c[1..0] = z
    BY <1>3, <2>1
  <2>3. z[1] = <<>> /\ z[2] = <<>> /\ z \in V
    <3>1. PICK nil \in Seq(S) : nil = <<>>
      BY EmptySeq
    <3>2. z = <<nil, nil>>
      BY <1>none, <3>1, Zenon
    <3>3. z[1] = nil /\ z[2] = nil /\ z \in V
      BY <1>v, <3>2
    <3>4. QED
      BY <3>1, <3>3
  <2>4. Sorts(<<>>, <<>>, <<>>, <<>>, 0, s)
    BY PicksNone DEF Sorts
  <2>5. PartsOk(z, 0, s, S)
    BY <2>3, <2>4 DEF PartsOk
  <2>6. QED
    BY <2>2, <2>3, <2>5
<1>5. ASSUME NEW k \in P PROVE k + 1 \in P
  <2>1. SUFFICES ASSUME k \in Nat, k + 1 <= n
                 PROVE  c[1..(k + 1)] \in V /\ PartsOk(c[1..(k + 1)], k + 1, s, S)
    OBVIOUS
  <2>2. k \in 0..(n - 1) /\ c[1..k] \in V /\ PartsOk(c[1..k], k, s, S)
    BY <2>1
  <2>3. PICK p : p = 1..(k + 1)
    OBVIOUS
  <2>4. p \in SUBSET (1..n) /\ p # {} /\ Max(p) = k + 1 /\ p \ {k + 1} = 1..k
    BY <2>2, <2>3, PrefixIs
  <2>5. PICK d \in V : d = c[1..k]
    BY <2>2
  <2>6. PICK l \in S : l = s[k + 1]
    <3>1. k + 1 \in 1..n
      BY <2>1
    <3>2. QED
      BY <1>1, <3>1
  <2>7. c[p] = Sorting(run, d, l)
    BY <1>3, <2>4, <2>5, <2>6
  <2>8. PICK e \in Seq(S), h \in Seq(S) : d[1] = e /\ d[2] = h
    BY <1>v
  <2>9. PICK a, b : Sorts(e, h, a, b, k, s)
    BY <2>2, <2>5, <2>8, Zenon DEF PartsOk
  <2>10. PICK new : new = Sorting(run, d, l)
    OBVIOUS
  <2>11. /\ new \in V
         /\ \/ Fits(run, e, l) /\ new[1] = Append(e, l) /\ new[2] = h
            \/ new[1] = e /\ new[2] = Append(h, l)
    <3>1. Append(e, l) \in Seq(S) /\ Append(h, l) \in Seq(S)
      OBVIOUS
    <3>2. PICK e1 \in Seq(S), h1 \in Seq(S) : e1 = Append(e, l) /\ h1 = Append(h, l)
      BY <3>1
    <3>3. CASE Fits(run, e, l)
      <4>1. new = <<e1, h>>
        BY <2>8, <2>10, <3>2, <3>3 DEF Sorting
      <4>2. new[1] = e1 /\ new[2] = h /\ new \in Seq(S) \X Seq(S)
        BY <4>1
      <4>3. QED
        BY <1>v, <3>2, <3>3, <4>2, Zenon
    <3>4. CASE ~Fits(run, e, l)
      <4>1. new = <<e, h1>>
        BY <2>8, <2>10, <3>2, <3>4 DEF Sorting
      <4>2. new[1] = e /\ new[2] = h1 /\ new \in Seq(S) \X Seq(S)
        BY <4>1
      <4>3. QED
        BY <1>v, <3>2, <4>2, Zenon
    <3>5. QED
      BY <3>3, <3>4
  <2>12. /\ \E x : Sorts(e, Append(h, l), a, x, k + 1, s)
         /\ l.edd <= s[1].edd => \E x : Sorts(Append(e, l), h, x, b, k + 1, s)
    <3>1. k + 1 <= Len(s)
      BY <1>1, <2>1
    <3>2. QED
      BY <2>1, <2>6, <2>9, <3>1, SortingJoins
  <2>13. Append(e, l) \in Seq(S) /\ Append(h, l) \in Seq(S)
    OBVIOUS
  <2>14. PartsOk(new, k + 1, s, S)
    <3>1. CASE Fits(run, e, l) /\ new[1] = Append(e, l) /\ new[2] = h
      <4>1. l.edd <= s[1].edd
        BY <3>1 DEF Fits
      <4>2. PICK x : Sorts(Append(e, l), h, x, b, k + 1, s)
        BY <2>12, <4>1
      <4>3. QED
        BY <2>13, <3>1, <4>2, Zenon DEF PartsOk
    <3>2. CASE new[1] = e /\ new[2] = Append(h, l)
      <4>1. PICK x : Sorts(e, Append(h, l), a, x, k + 1, s)
        BY <2>12
      <4>2. QED
        BY <2>13, <3>2, <4>1, Zenon DEF PartsOk
    <3>3. QED
      BY <2>11, <3>1, <3>2
  <2>15. QED
    BY <2>3, <2>7, <2>10, <2>11, <2>14
<1>6. P = Nat
  <2>1. P \subseteq Nat
    OBVIOUS
  <2> HIDE DEF P
  <2>2. QED
    BY <2>1, <1>4, <1>5, NatInd
<1>7. PartsOk(c[1..n], n, s, S)
    BY <1>6
<1>8. QED
    BY <1>1, <1>2, <1>7, PartsAreSorted

(* A run made of another, with some of its lots.                           *)
IsPiece(p, run, part, t) == p = [run EXCEPT !.part = part, !.lots = t]

(* It is a run, known by its part, of lots of the other.                   *)
PieceOk(p, run, part, t) ==
    /\ RunOk(p) /\ Once(p.lots) /\ LotsOf(p.lots) \subseteq LotsOf(run.lots)
    /\ p.tool = run.tool /\ p.index = run.index /\ p.part = part
    /\ p.lots = t

(* This is so when its lots are picked from the other and close by.        *)
LEMMA PartIsRun ==
    ASSUME LotsKeyed(lots), NEW run, RunOk(run), Once(run.lots), NEW t \in Seq(lots), t # <<>>,
           NEW a, Picks(a, t, run.lots), CloseBy(t),
           NEW part, NEW p, IsPiece(p, run, part, t)
    PROVE  PieceOk(p, run, part, t)
<1>1. PICK s : s = run.lots
    OBVIOUS
<1>2. /\ s \in Seq(lots) /\ Together(s) /\ OneFamily(s) /\ Once(s) /\ Picks(a, t, s)
      /\ \A m \in 1..Len(s) : s[m].tool = run.tool
    BY <1>1 DEF RunOk
<1>3. \A l \in lots : Keyed(l)
    BY DEF LotsKeyed
<1>4. Together(t) /\ OneFamily(t)
    BY <1>2, <1>3, SubRun
<1>5. Once(t) /\ LotsOf(t) \subseteq LotsOf(s)
    BY <1>2, PicksOnce
<1>6. p = [tool |-> run.tool, index |-> run.index, part |-> part, lots |-> t]
  <2>1. run = [tool |-> run.tool, index |-> run.index, part |-> run.part, lots |-> run.lots]
    BY DEF RunOk
  <2>2. PICK tl, ix, pt : tl = run.tool /\ ix = run.index /\ pt = run.part
    OBVIOUS
  <2>3. run = [tool |-> tl, index |-> ix, part |-> pt, lots |-> s]
    BY <1>1, <2>1, <2>2
  <2>4. p = [tool |-> tl, index |-> ix, part |-> part, lots |-> t]
    BY <2>3 DEF IsPiece
  <2>5. QED
    BY <2>2, <2>4
<1>7. p.tool = run.tool /\ p.index = run.index /\ p.part = part /\ p.lots = t
    BY <1>6
<1>8. \A m \in 1..Len(t) : t[m].tool = run.tool
  <2>1. SUFFICES ASSUME NEW m \in 1..Len(t) PROVE t[m].tool = run.tool
    OBVIOUS
  <2>2. a[m] \in 1..Len(s) /\ t[m] = s[a[m]]
    BY <1>2 DEF Picks
  <2>3. QED
    BY <1>2, <2>2
<1>9. RunOk(p)
  <2>1. p = [tool |-> p.tool, index |-> p.index, part |-> p.part, lots |-> p.lots]
    BY <1>6, <1>7
  <2>2. QED
    BY <1>4, <1>7, <1>8, <2>1 DEF RunOk
<1>10. QED
    BY <1>1, <1>5, <1>7, <1>9 DEF PieceOk

(* The runs into which an infeasible run is split divide its lots.         *)
LEMMA DividedIs ==
    ASSUME LotsKeyed(lots), NEW run, RunOk(run), Once(run.lots), run.part = <<>>,
           NEW D, D = Divided(run)
    PROVE  /\ Divides(D, LotsOf(run.lots))
           /\ \A p \in D : /\ RunOk(p) /\ p.tool = run.tool /\ p.index = run.index
                           /\ p.part \in PartNames
           /\ \A p, q \in D : p.part \in {<<>>, q.part} => p = q
<1>1. PICK s \in Seq(lots) : s = run.lots
    BY DEF RunOk
<1>2. PICK c : c = EarlyAndLate(run)
    OBVIOUS
<1>3. \A l \in lots : Keyed(l)
    BY DEF LotsKeyed
<1>4. CASE D = {run}
  <2>1. Divides(D, LotsOf(run.lots))
    BY <1>4, DividesItself
  <2>2. QED
    BY <1>4, <2>1 DEF PartNames
<1>5. CASE D # {run}
  <2>1. /\ <<>> \notin {c[1], c[2]}
        /\ D = {Part(run, "early", c[1]), Part(run, "late", c[2])}
    BY <1>2, <1>5 DEF Divided
  <2>2. PartsOk(c, Len(s), s, lots)
    BY <1>1, <1>2, <1>3, EarlyAndLateIs
  <2>3. PICK e \in Seq(lots), l \in Seq(lots) : e = c[1] /\ l = c[2] /\ e # <<>> /\ l # <<>>
    BY <2>1, <2>2 DEF PartsOk
  <2>4. PICK a, b : Sorts(e, l, a, b, Len(s), s)
    BY <2>2, <2>3, Zenon DEF PartsOk
  <2>5. Together(s)
    BY <1>1 DEF RunOk
  <2>6. CloseBy(e) /\ CloseBy(l)
    BY <1>3, <2>4, <2>5, SortsGaps
  <2>7. /\ Picks(a, e, s) /\ Picks(b, l, s)
        /\ \A x \in 1..Len(s) : (\E i \in 1..Len(e) : a[i] = x) \/ (\E i \in 1..Len(l) : b[i] = x)
        /\ \A i \in 1..Len(e), j \in 1..Len(l) : a[i] # b[j]
    BY <2>4, Zenon DEF Sorts
  <2>8. PICK p, q : p = Part(run, "early", e) /\ q = Part(run, "late", l)
    OBVIOUS
  <2>9. /\ RunOk(p) /\ Once(p.lots) /\ LotsOf(p.lots) \subseteq LotsOf(s)
        /\ p.tool = run.tool /\ p.index = run.index /\ p.part = <<"early">>
        /\ p.lots = e
    <3>1. PICK part : part = <<"early">>
      OBVIOUS
    <3>2. IsPiece(p, run, part, e) /\ Picks(a, e, run.lots)
      BY <1>1, <2>7, <2>8, <3>1 DEF Part, IsPiece
    <3>3. /\ RunOk(p) /\ Once(p.lots) /\ LotsOf(p.lots) \subseteq LotsOf(run.lots)
          /\ p.tool = run.tool /\ p.index = run.index /\ p.part = part
          /\ p.lots = e
      <4>1. PieceOk(p, run, part, e)
        BY <2>3, <2>6, <3>2, PartIsRun
      <4>2. QED
        BY <4>1, Zenon DEF PieceOk
    <3>4. QED
      BY <1>1, <3>1, <3>3
  <2>10. /\ RunOk(q) /\ Once(q.lots) /\ LotsOf(q.lots) \subseteq LotsOf(s)
         /\ q.tool = run.tool /\ q.index = run.index /\ q.part = <<"late">>
         /\ q.lots = l
    <3>1. PICK part : part = <<"late">>
      OBVIOUS
    <3>2. IsPiece(q, run, part, l) /\ Picks(b, l, run.lots)
      BY <1>1, <2>7, <2>8, <3>1 DEF Part, IsPiece
    <3>3. /\ RunOk(q) /\ Once(q.lots) /\ LotsOf(q.lots) \subseteq LotsOf(run.lots)
          /\ q.tool = run.tool /\ q.index = run.index /\ q.part = part
          /\ q.lots = l
      <4>1. PieceOk(q, run, part, l)
        BY <2>3, <2>6, <3>2, PartIsRun
      <4>2. QED
        BY <4>1, Zenon DEF PieceOk
    <3>4. QED
      BY <1>1, <3>1, <3>3
  <2>11. p.part = <<"early">> /\ q.part = <<"late">> /\ D = {p, q}
    BY <2>1, <2>3, <2>8, <2>9, <2>10
  <2>12. p.part # <<>> /\ q.part # <<>> /\ p.part # q.part
    BY <2>11
  <2>13. \A x \in LotsOf(s) : x \in LotsOf(e) \/ x \in LotsOf(l)
    <3>1. SUFFICES ASSUME NEW x \in LotsOf(s) PROVE x \in LotsOf(e) \/ x \in LotsOf(l)
      OBVIOUS
    <3>2. PICK i \in 1..Len(s) : x = s[i]
      BY DEF LotsOf
    <3>3. CASE \E j \in 1..Len(e) : a[j] = i
      BY <2>7, <3>2, <3>3 DEF Picks, LotsOf
    <3>4. CASE \E j \in 1..Len(l) : b[j] = i
      BY <2>7, <3>2, <3>4 DEF Picks, LotsOf
    <3>5. QED
      BY <2>7, <3>3, <3>4
  <2>14. \A x \in LotsOf(s) : ~(x \in LotsOf(e) /\ x \in LotsOf(l))
    <3>1. SUFFICES ASSUME NEW x, x \in LotsOf(e), x \in LotsOf(l) PROVE FALSE
      OBVIOUS
    <3>2. PICK i \in 1..Len(e) : x = e[i]
      BY <3>1 DEF LotsOf
    <3>3. PICK j \in 1..Len(l) : x = l[j]
      BY <3>1 DEF LotsOf
    <3>4. a[i] \in 1..Len(s) /\ b[j] \in 1..Len(s) /\ s[a[i]] = s[b[j]]
      BY <2>7, <3>2, <3>3 DEF Picks
    <3>5. a[i] = b[j]
      BY <1>1, <3>4 DEF Once
    <3>6. QED
      BY <2>7, <3>5
  <2>15. Divides(D, LotsOf(s))
    <3>1. \A r \in D : Once(r.lots) /\ LotsOf(r.lots) \subseteq LotsOf(s)
      BY <2>9, <2>10, <2>11
    <3>2. \A x \in LotsOf(s) : \E r \in D : x \in LotsOf(r.lots)
      BY <2>9, <2>10, <2>11, <2>13
    <3>3. \A r, o \in D, x \in LotsOf(s) : x \in LotsOf(r.lots) /\ x \in LotsOf(o.lots) => r = o
      BY <2>9, <2>10, <2>11, <2>14
    <3>4. QED
      BY <3>1, <3>2, <3>3, Zenon DEF Divides
  <2>16. \A r \in D : /\ RunOk(r) /\ r.tool = run.tool /\ r.index = run.index
                      /\ r.part \in PartNames
    BY <2>9, <2>10, <2>11 DEF PartNames
  <2>17. \A r, o \in D : r.part \in {<<>>, o.part} => r = o
    BY <2>11, <2>12
  <2>18. QED
    BY <1>1, <2>15, <2>16, <2>17
<1>6. QED
    BY <1>4, <1>5

-----------------------------------------------------------------------------
(* The cuts that the optimizer asks for.                                   *)

(* The lots from one position of a run to another.                         *)
IsStretch(t, s, f, g) == t = SubSeq(s, f, g)

(* They are picked from it, and no two neighbours are far apart.           *)
LEMMA StretchIs ==
    ASSUME NEW S, \A l \in S : Keyed(l), NEW s \in Seq(S), Together(s),
           NEW f \in 1..Len(s), NEW g \in 1..Len(s), f <= g, NEW t, IsStretch(t, s, f, g)
    PROVE  /\ t \in Seq(S) /\ t # <<>> /\ CloseBy(t) /\ \E a : Picks(a, t, s)
           /\ LotsOf(t) = {s[c] : c \in f..g}
<1>1. PICK n \in Nat, m \in Nat : n = Len(s) /\ m = (g - f) + 1 /\ m >= 1
    OBVIOUS
<1>2. \A i \in f..g : i \in 1..Len(s) /\ s[i] \in S
    BY ElementOfSeq
<1>3. t \in Seq(S) /\ Len(t) = m /\ \A i \in 1..m : t[i] = s[f + i - 1]
  <2>1. /\ SubSeq(s, f, g) \in Seq(S)
        /\ Len(SubSeq(s, f, g)) = IF f <= g THEN g - f + 1 ELSE 0
        /\ \A i \in 1..(g - f + 1) : SubSeq(s, f, g)[i] = s[f + i - 1]
    <3>1. f \in Int /\ g \in Int
      OBVIOUS
    <3>2. QED
      BY <1>2, <3>1, SubSeqProperties
  <2>2. QED
    BY <1>1, <2>1 DEF IsStretch
<1> DEFINE a == [i \in 1..m |-> f + i - 1]
<1>4. \A i \in 1..m : a[i] \in 1..n /\ a[i] \in f..g /\ t[i] = s[a[i]] /\ a[i] = f + i - 1
    BY <1>1, <1>3
<1>5. a \in [1..m -> 1..n]
    BY <1>4
<1>6. \A i, j \in 1..m : i < j => a[i] < a[j]
    OBVIOUS
<1>7. Picks(a, t, s)
    BY <1>1, <1>3, <1>4, <1>5, <1>6 DEF Picks
<1>8. \A i \in 2..m : t[i].edd - t[i - 1].edd <= MaxGap
  <2>1. SUFFICES ASSUME NEW i \in 2..m PROVE t[i].edd - t[i - 1].edd <= MaxGap
    OBVIOUS
  <2>2. PICK c \in 2..n : c = f + i - 1
    BY <1>1
  <2>3. t[i] = s[c] /\ t[i - 1] = s[c - 1]
    <3>1. i \in 1..m /\ i - 1 \in 1..m /\ f + (i - 1) - 1 = c - 1
      BY <2>2
    <3>2. QED
      BY <1>3, <2>2, <3>1
  <2>4. s[c].edd - s[c - 1].edd <= MaxGap
    BY <1>1 DEF Together
  <2>5. QED
    BY <2>3, <2>4
<1>9. LotsOf(t) = {s[c] : c \in f..g}
  <2>1. \A i \in 1..m : t[i] \in {s[c] : c \in f..g}
    BY <1>4
  <2>2. \A c \in f..g : \E i \in 1..m : s[c] = t[i]
    <3>1. SUFFICES ASSUME NEW c \in f..g PROVE \E i \in 1..m : s[c] = t[i]
      OBVIOUS
    <3>2. PICK i \in 1..m : i = (c - f) + 1 /\ f + i - 1 = c
      BY <1>1
    <3>3. QED
      BY <1>3, <3>2
  <2>3. QED
    <3>1. LotsOf(t) = {t[i] : i \in 1..m}
      BY <1>3 DEF LotsOf
    <3>2. QED
      BY <2>1, <2>2, <3>1
<1>10. CloseBy(t)
    BY <1>3, <1>8 DEF CloseBy
<1>11. QED
    BY <1>1, <1>3, <1>7, <1>9, <1>10

(* The ends of the parts of a run of n lots, and where each begins.        *)
EndsAt(w, n) ==
    /\ w \in Seq(1..n) /\ w # <<>> /\ w[Len(w)] = n
    /\ \A i, j \in 1..Len(w) : i < j => w[i] < w[j]
BeginsAt(w, i) == IF i = 1 THEN 1 ELSE w[i - 1] + 1

(* The cuts and the end of the run are such ends,                          *)
LEMMA EndsAre ==
    ASSUME NEW n \in Nat, n >= 1, NEW cuts, cuts \in SUBSET (1..(n - 1))
    PROVE  EndsAt(Ascending(cuts \cup {n}), n)
<1>w. PICK w : w = Ascending(cuts \cup {n})
    OBVIOUS
<1>1. PICK E : E = cuts \cup {n}
    OBVIOUS
<1>2. E \subseteq Int /\ E \subseteq 1..n /\ n \in E
    BY <1>1
<1>3. IsFiniteSet(E)
  <2>1. IsFiniteSet(1..n)
    BY FS_Interval
  <2>2. E \in SUBSET (1..n)
    BY <1>2
  <2>3. QED
    BY <2>1, <2>2, FS_Subset
<1>4. /\ w \in Seq(E)
      /\ \A i, j \in 1..Len(w) : i < j => w[i] < w[j]
      /\ Covers(w, E)
    BY <1>w, <1>1, <1>2, <1>3, AscendingIs
<1>5. PICK m \in Nat : m = Len(w) /\ \A i \in 1..m : w[i] \in E
    BY <1>4, ElementOfSeq
<1>6. PICK j \in 1..m : w[j] = n
    BY <1>2, <1>4, <1>5 DEF Covers
<1>7. j = m
  <2>1. SUFFICES ASSUME j < m PROVE FALSE
    OBVIOUS
  <2>2. m \in 1..m /\ w[m] \in 1..n
    <3>1. m \in 1..m
      BY <1>5, <1>6
    <3>2. QED
      BY <1>2, <1>5, <3>1
  <2>3. w[j] < w[m]
    BY <1>4, <1>5, <2>1, <2>2
  <2>4. QED
    BY <1>6, <2>2, <2>3
<1>8. w \in Seq(1..n)
    BY <1>2, <1>4, SeqMonotonic
<1>9. w # <<>>
    BY <1>4, <1>5, <1>6
<1>10. QED
    BY <1>4, <1>5, <1>6, <1>7, <1>8, <1>9, <1>w DEF EndsAt

(* and each position is between one beginning and its end.                 *)
LEMMA StretchesCover ==
    ASSUME NEW n \in Nat, NEW w, EndsAt(w, n)
    PROVE  /\ \A i \in 1..Len(w) : BeginsAt(w, i) \in 1..n /\ w[i] \in 1..n /\ BeginsAt(w, i) <= w[i]
           /\ \A c \in 1..n : \E i \in 1..Len(w) : c \in BeginsAt(w, i)..w[i]
           /\ \A i, j \in 1..Len(w) : \A c \in 1..n :
                c \in BeginsAt(w, i)..w[i] /\ c \in BeginsAt(w, j)..w[j] => i = j
<1>1. PICK m \in Nat : m = Len(w) /\ m >= 1 /\ \A i \in 1..m : w[i] \in 1..n
    BY ElementOfSeq DEF EndsAt
<1>2. w[m] = n /\ \A i, j \in 1..m : i < j => w[i] < w[j]
    BY <1>1, Zenon DEF EndsAt
<1>3. ASSUME NEW i \in 1..m
      PROVE  /\ BeginsAt(w, i) \in 1..n /\ BeginsAt(w, i) <= w[i]
             /\ i # 1 => i - 1 \in 1..m /\ BeginsAt(w, i) = w[i - 1] + 1
  <2>1. CASE i = 1
    BY <1>1, <2>1 DEF BeginsAt
  <2>2. CASE i # 1
    <3>1. i - 1 \in 1..m /\ i - 1 < i
      BY <2>2
    <3>2. w[i - 1] < w[i] /\ w[i] \in 1..n /\ w[i - 1] \in 1..n
      BY <1>1, <1>2, <3>1
    <3>3. BeginsAt(w, i) = w[i - 1] + 1
      BY <2>2 DEF BeginsAt
    <3>4. QED
      BY <3>1, <3>2, <3>3
  <2>3. QED
    BY <2>1, <2>2
<1>4. ASSUME NEW c \in 1..n PROVE \E i \in 1..m : c \in BeginsAt(w, i)..w[i]
  <2> DEFINE T == {i \in 1..m : c <= w[i]}
  <2>1. IsFiniteSet(T) /\ T \subseteq Int /\ m \in T
    <3>1. IsFiniteSet(1..m)
      BY FS_Interval
    <3>2. T \in SUBSET (1..m)
      OBVIOUS
    <3>3. m \in T
      BY <1>1, <1>2
    <3>4. QED
      BY <3>1, <3>2, <3>3, FS_Subset
  <2>2. PICK i \in T : \A j \in T : i <= j
    <3> HIDE DEF T
    <3>1. QED
      BY <2>1, FiniteSetHasMin
  <2>3. i \in 1..m /\ c <= w[i]
    OBVIOUS
  <2>4. BeginsAt(w, i) <= c
    <3>1. CASE i = 1
      BY <3>1 DEF BeginsAt
    <3>2. CASE i # 1
      <4>1. i - 1 \in 1..m /\ BeginsAt(w, i) = w[i - 1] + 1
        BY <1>3, <2>3, <3>2
      <4>2. i - 1 \notin T
        BY <2>2, <2>3
      <4>3. ~(c <= w[i - 1]) /\ w[i - 1] \in 1..n
        BY <1>1, <4>1, <4>2
      <4>4. QED
        BY <4>1, <4>3
    <3>3. QED
      BY <3>1, <3>2
  <2>5. QED
    <3>1. BeginsAt(w, i) \in 1..n /\ w[i] \in 1..n
      BY <1>1, <1>3, <2>3
    <3>2. QED
      BY <2>3, <2>4, <3>1
<1>5. \A i, j \in 1..m : \A c \in 1..n :
        c \in BeginsAt(w, i)..w[i] /\ c \in BeginsAt(w, j)..w[j] => ~(i < j)
  <2>1. SUFFICES ASSUME NEW i \in 1..m, NEW j \in 1..m, NEW c \in 1..n, i < j,
                        c \in BeginsAt(w, i)..w[i], c \in BeginsAt(w, j)..w[j]
                 PROVE  FALSE
    OBVIOUS
  <2>2. j # 1 /\ j - 1 \in 1..m /\ BeginsAt(w, j) = w[j - 1] + 1
    <3>1. j # 1
      BY <2>1
    <3>2. QED
      BY <1>3, <3>1
  <2>3. w[i] <= w[j - 1]
    <3>1. CASE i = j - 1
      BY <1>1, <3>1
    <3>2. CASE i < j - 1
      <4>1. w[i] < w[j - 1]
        BY <1>2, <2>2, <3>2
      <4>2. PICK x \in 1..n, y \in 1..n : x = w[i] /\ y = w[j - 1]
        BY <1>1, <2>2
      <4>3. x <= y
        BY <4>1, <4>2
      <4>4. QED
        BY <4>2, <4>3
    <3>3. QED
      BY <2>1, <3>1, <3>2
  <2>4. w[i] \in 1..n /\ w[j - 1] \in 1..n /\ BeginsAt(w, i) \in 1..n /\ w[j] \in 1..n
    BY <1>1, <1>3, <2>2
  <2>5. c <= w[i] /\ w[j - 1] + 1 <= c
    BY <2>1, <2>2, <2>4
  <2>6. QED
    BY <2>3, <2>4, <2>5
<1>6. \A i, j \in 1..m : \A c \in 1..n :
        c \in BeginsAt(w, i)..w[i] /\ c \in BeginsAt(w, j)..w[j] => i = j
  <2>1. SUFFICES ASSUME NEW i \in 1..m, NEW j \in 1..m, NEW c \in 1..n,
                        c \in BeginsAt(w, i)..w[i], c \in BeginsAt(w, j)..w[j]
                 PROVE  i = j
    OBVIOUS
  <2>2. ~(i < j) /\ ~(j < i)
    BY <1>5, <2>1
  <2>3. QED
    BY <2>2
<1>7. QED
    BY <1>1, <1>3, <1>4, <1>6

(* The parts of a run are runs, are told apart by what they are called,    *)
(* and have each lot of it in one place.                                   *)
CutOk(C, run) ==
    /\ Divides(C, LotsOf(run.lots))
    /\ \A p \in C : RunOk(p) /\ p.tool = run.tool /\ p.index = run.index
    /\ \A p \in C : p = run \/ \E i \in Nat : p.part = Append(run.part, i)
    /\ \A p, q \in C : p.part = q.part => p = q

(* A part of a part has a name of its own.                                 *)
LEMMA PartNamesAre ==
    /\ \A x \in PartNames : Len(x) \in Nat /\ Len(x) <= 1 /\ (Len(x) = 0 <=> x = <<>>)
    /\ \A x \in PartNames, i, j \in Nat :
         Len(Append(x, i)) = Len(x) + 1 /\ (Append(x, i) = Append(x, j) => i = j)
<1> DEFINE U == {"early", "late"} \cup Nat
<1>1. PICK early \in U, late \in U : early = "early" /\ late = "late"
    OBVIOUS
<1>2. \A i \in Nat : i \in U
    OBVIOUS
<1> HIDE DEF U
<1>3. PICK e \in Seq(U), l \in Seq(U) : e = <<early>> /\ l = <<late>> /\ Len(e) = 1 /\ Len(l) = 1
  <2>1. <<early>> \in Seq(U) /\ <<late>> \in Seq(U) /\ Len(<<early>>) = 1 /\ Len(<<late>>) = 1
    OBVIOUS
  <2>2. QED
    BY <2>1
<1>4. PICK nil \in Seq(U) : nil = <<>> /\ Len(nil) = 0
    BY EmptySeq
<1>5. \A x \in PartNames : x = nil \/ x = e \/ x = l
    BY <1>1, <1>3, <1>4 DEF PartNames
<1>6. \A x \in PartNames : x \in Seq(U) /\ Len(x) \in Nat /\ Len(x) <= 1 /\ (Len(x) = 0 <=> x = <<>>)
  <2>1. SUFFICES ASSUME NEW x \in PartNames
                 PROVE  x \in Seq(U) /\ Len(x) \in Nat /\ Len(x) <= 1 /\ (Len(x) = 0 <=> x = <<>>)
    OBVIOUS
  <2>2. CASE x = nil
    BY <1>4, <2>2
  <2>3. CASE x = e
    BY <1>3, <2>3
  <2>4. CASE x = l
    BY <1>3, <2>4
  <2>5. QED
    BY <1>5, <2>2, <2>3, <2>4
<1>7. ASSUME NEW x \in PartNames, NEW i \in Nat
      PROVE  Len(Append(x, i)) = Len(x) + 1 /\ Append(x, i)[Len(x) + 1] = i
  <2>1. PICK y \in Seq(U), u \in U : y = x /\ u = i
    BY <1>2, <1>6
  <2>2. Len(Append(y, u)) = Len(y) + 1 /\ Append(y, u)[Len(y) + 1] = u
    BY AppendProperties
  <2>3. QED
    BY <2>1, <2>2
<1>8. ASSUME NEW x \in PartNames, NEW i \in Nat, NEW j \in Nat, Append(x, i) = Append(x, j) PROVE i = j
  <2>1. Append(x, i)[Len(x) + 1] = i
    BY <1>7
  <2>2. Append(x, j)[Len(x) + 1] = j
    BY <1>7
  <2>3. QED
    BY <1>8, <2>1, <2>2, Zenon
<1>9. QED
    BY <1>6, <1>7, <1>8

(* This holds of the runs that the cuts make of one.                       *)
LEMMA CutAtIs ==
    ASSUME LotsKeyed(lots), NEW run, RunOk(run), Once(run.lots), run.part \in PartNames,
           NEW cuts, cuts \in SUBSET (1..(Len(run.lots) - 1))
    PROVE  CutOk(CutAt(run, cuts), run)
<1>1. PICK s \in Seq(lots) : s = run.lots /\ s # <<>> /\ Together(s) /\ Once(s)
    BY DEF RunOk
<1>2. PICK n \in Nat : n = Len(s) /\ n >= 1
    BY <1>1
<1>3. \A l \in lots : Keyed(l)
    BY DEF LotsKeyed
<1>4. PICK C : C = CutAt(run, cuts)
    OBVIOUS
<1>5. CASE cuts = {}
  <2>1. C = {run}
    BY <1>4, <1>5 DEF CutAt
  <2>2. Divides(C, LotsOf(run.lots))
    BY <2>1, DividesItself
  <2>3. QED
    BY <1>4, <2>1, <2>2 DEF CutOk
<1>6. CASE cuts # {}
  <2>1. PICK w : w = Ascending(cuts \cup {n})
    OBVIOUS
  <2>2. EndsAt(w, n)
    <3>1. cuts \in SUBSET (1..(n - 1))
      BY <1>1, <1>2
    <3>2. QED
      BY <1>2, <2>1, <3>1, EndsAre
  <2>3. PICK m \in Nat : m = Len(w) /\ DOMAIN w = 1..m
    BY <2>2 DEF EndsAt
  <2>4. /\ \A i \in 1..m : BeginsAt(w, i) \in 1..n /\ w[i] \in 1..n /\ BeginsAt(w, i) <= w[i]
        /\ \A c \in 1..n : \E i \in 1..m : c \in BeginsAt(w, i)..w[i]
        /\ \A i, j \in 1..m : \A c \in 1..n :
             c \in BeginsAt(w, i)..w[i] /\ c \in BeginsAt(w, j)..w[j] => i = j
    BY <2>2, <2>3, StretchesCover
  <2> DEFINE t(i) == SubSeq(s, BeginsAt(w, i), w[i])
             piece(i) == Part(run, i, t(i))
  <2>5. C = {piece(i) : i \in 1..m}
    <3>1. w = InSequence(cuts \cup {Len(run.lots)}, <)
      <4>1. w = Ascending(cuts \cup {Len(run.lots)})
        BY <1>1, <1>2, <2>1
      <4>2. QED
        BY <4>1, Zenon DEF InSequence, Ascending
    <3>2. CutAt(run, cuts)
          = {Part(run, i, SubSeq(run.lots, IF i = 1 THEN 1 ELSE w[i - 1] + 1, w[i])) : i \in DOMAIN w}
      BY <1>6, <3>1, Zenon DEF CutAt
    <3>3. \A i : Part(run, i, SubSeq(run.lots, IF i = 1 THEN 1 ELSE w[i - 1] + 1, w[i])) = piece(i)
      BY <1>1, Zenon DEF BeginsAt
    <3>4. QED
      BY <1>4, <2>3, <3>2, <3>3
  <2>6. ASSUME NEW i \in 1..m
        PROVE  /\ PieceOk(piece(i), run, Append(run.part, i), t(i))
               /\ LotsOf(t(i)) = {s[c] : c \in BeginsAt(w, i)..w[i]}
    <3>1. PICK f \in 1..n, g \in 1..n : f = BeginsAt(w, i) /\ g = w[i] /\ f <= g
      BY <2>4
    <3>2. PICK u : u = t(i)
      OBVIOUS
    <3>3. /\ u \in Seq(lots) /\ u # <<>> /\ CloseBy(u) /\ \E a : Picks(a, u, s)
          /\ LotsOf(u) = {s[c] : c \in f..g}
      <4>1. IsStretch(u, s, f, g)
        BY <3>1, <3>2 DEF IsStretch
      <4>2. QED
        BY <1>1, <1>2, <1>3, <3>1, <4>1, StretchIs
    <3>4. PICK a : Picks(a, u, run.lots)
      BY <1>1, <3>3
    <3>5. PICK p, part : p = piece(i) /\ part = Append(run.part, i)
      OBVIOUS
    <3>6. IsPiece(p, run, part, u)
      BY <3>2, <3>5, Zenon DEF Part, IsPiece
    <3>7. PieceOk(p, run, part, u)
      BY <3>3, <3>4, <3>6, PartIsRun
    <3>8. QED
      BY <3>1, <3>2, <3>3, <3>5, <3>7, Zenon
  <2> HIDE DEF t, piece
  <2>7. \A i \in 1..m : LET p == piece(i) IN
          /\ RunOk(p) /\ Once(p.lots) /\ LotsOf(p.lots) \subseteq LotsOf(s)
          /\ p.tool = run.tool /\ p.index = run.index /\ p.part = Append(run.part, i)
          /\ LotsOf(p.lots) = {s[c] : c \in BeginsAt(w, i)..w[i]}
    BY <1>1, <2>6, Zenon DEF PieceOk
  <2>8. \A i \in 1..m : i \in Nat
    OBVIOUS
  <2>9. \A p \in C : p = run \/ \E i \in Nat : p.part = Append(run.part, i)
    BY <2>5, <2>7, <2>8
  <2>10. \A p, q \in C : p.part = q.part => p = q
    <3>1. SUFFICES ASSUME NEW i \in 1..m, NEW j \in 1..m, piece(i).part = piece(j).part
                   PROVE  i = j
      BY <2>5
    <3>2. Append(run.part, i) = Append(run.part, j)
      BY <2>7, <3>1
    <3>3. QED
      BY <2>8, <3>2, PartNamesAre
  <2>11. Divides(C, LotsOf(s))
    <3>1. \A p \in C : Once(p.lots) /\ LotsOf(p.lots) \subseteq LotsOf(s)
      BY <2>5, <2>7
    <3>2. \A l \in LotsOf(s) : \E c \in 1..n : l = s[c]
      BY <1>2 DEF LotsOf
    <3>3. \A l \in LotsOf(s) : \E p \in C : l \in LotsOf(p.lots)
      <4>1. SUFFICES ASSUME NEW l \in LotsOf(s) PROVE \E p \in C : l \in LotsOf(p.lots)
        OBVIOUS
      <4>2. PICK c \in 1..n : l = s[c]
        BY <3>2
      <4>3. PICK i \in 1..m : c \in BeginsAt(w, i)..w[i]
        BY <2>4
      <4>4. l \in LotsOf(piece(i).lots)
        BY <2>7, <4>2, <4>3
      <4>5. QED
        BY <2>5, <4>4
    <3>4. \A p, q \in C, l \in LotsOf(s) : l \in LotsOf(p.lots) /\ l \in LotsOf(q.lots) => p = q
      <4>1. SUFFICES ASSUME NEW i \in 1..m, NEW j \in 1..m, NEW l \in LotsOf(s),
                            l \in LotsOf(piece(i).lots), l \in LotsOf(piece(j).lots)
                     PROVE  i = j
        BY <2>5
      <4>2. PICK c \in BeginsAt(w, i)..w[i] : l = s[c]
        BY <2>7, <4>1
      <4>3. PICK d \in BeginsAt(w, j)..w[j] : l = s[d]
        BY <2>7, <4>1
      <4>4. c \in 1..n /\ d \in 1..n
        <5>1. BeginsAt(w, i) \in 1..n /\ w[i] \in 1..n /\ BeginsAt(w, j) \in 1..n /\ w[j] \in 1..n
          BY <2>4
        <5>2. QED
          BY <5>1
      <4>5. c = d
        BY <1>1, <1>2, <4>2, <4>3, <4>4 DEF Once
      <4>6. QED
        BY <2>4, <4>4, <4>5
    <3>5. QED
      BY <3>1, <3>3, <3>4, Zenon DEF Divides
  <2>12. \A p \in C : RunOk(p) /\ p.tool = run.tool /\ p.index = run.index
    BY <2>5, <2>7
  <2>13. QED
    BY <1>1, <1>4, <2>9, <2>10, <2>11, <2>12 DEF CutOk
<1>7. QED
    BY <1>5, <1>6

-----------------------------------------------------------------------------
(* The splits.                                                             *)

(* The runs divide the lots after the split of the infeasible ones         *)
(* (_split_infeasible_runs),                                               *)
LEMMA SplitInfeasibleIs ==
    ASSUME LotsKeyed(lots), Grouping(runs), Undivided(runs), SplitInfeasible
    PROVE  Grouping(runs') /\ Whole(runs') /\ UNCHANGED lots
<1>1. PICK R, N : R = runs /\ N = runs'
    OBVIOUS
<1>2. Grouping(R) /\ Undivided(R)
    BY <1>1
<1>3. N = UNION {Divided(run) : run \in R} /\ UNCHANGED lots
    BY <1>1 DEF SplitInfeasible, sizingVars
<1> DEFINE D == [run \in R |-> Divided(run)]
<1>4. \A r \in R : RunOk(r) /\ Once(r.lots) /\ r.part = <<>>
    BY <1>2 DEF Grouping, Divides, Undivided
<1>5. ASSUME NEW r \in R
      PROVE  /\ Divides(D[r], LotsOf(r.lots))
             /\ \A p \in D[r] : /\ RunOk(p) /\ p.tool = r.tool /\ p.index = r.index
                                /\ p.part \in PartNames
             /\ \A p, q \in D[r] : p.part \in {<<>>, q.part} => p = q
  <2>1. PICK d : d = Divided(r)
    OBVIOUS
  <2>2. /\ Divides(d, LotsOf(r.lots))
        /\ \A p \in d : /\ RunOk(p) /\ p.tool = r.tool /\ p.index = r.index
                        /\ p.part \in PartNames
        /\ \A p, q \in d : p.part \in {<<>>, q.part} => p = q
    BY <1>4, <2>1, DividedIs
  <2>3. D[r] = d
    BY <2>1
  <2>4. QED
    BY <2>2, <2>3, Zenon
<1>6. N = UNION {D[r] : r \in R}
    BY <1>3
<1> HIDE DEF D
<1>7. \A p \in N : \E r \in R : p \in D[r]
    BY <1>6
<1>8. Divides(N, lots)
  <2>1. Divides(R, lots)
    BY <1>2 DEF Grouping
  <2>2. \A r \in R : Divides(D[r], LotsOf(r.lots))
    BY <1>5
  <2>3. QED
    BY <1>6, <2>1, <2>2, DividedAgain
<1>9. \A p, q \in N : p.tool = q.tool /\ p.index = q.index /\ p.part \in {<<>>, q.part} => p = q
  <2>1. SUFFICES ASSUME NEW p \in N, NEW q \in N, p.tool = q.tool, p.index = q.index,
                        p.part \in {<<>>, q.part}
                 PROVE  p = q
    OBVIOUS
  <2>2. PICK r \in R : p \in D[r]
    BY <1>7
  <2>3. PICK o \in R : q \in D[o]
    BY <1>7
  <2>4. r.tool = o.tool /\ r.index = o.index /\ r.part = o.part
    <3>1. p.tool = r.tool /\ p.index = r.index
      BY <1>5, <2>2
    <3>2. q.tool = o.tool /\ q.index = o.index
      BY <1>5, <2>3
    <3>3. QED
      BY <1>4, <2>1, <3>1, <3>2
  <2>5. Name(r) = Name(o)
    BY <2>4 DEF Name
  <2>6. r = o
    BY <1>2, <2>5 DEF Grouping, Named
  <2>7. QED
    BY <1>5, <2>1, <2>2, <2>3, <2>6
<1>10. Named(N)
  <2>1. SUFFICES ASSUME NEW p \in N, NEW q \in N, Name(p) = Name(q) PROVE p = q
    BY DEF Named
  <2>2. p.tool = q.tool /\ p.index = q.index /\ p.part = q.part
    BY <2>1 DEF Name
  <2>3. QED
    BY <1>9, <2>2
<1>11. \A p \in N : RunOk(p) /\ p.part \in PartNames
    BY <1>5, <1>7
<1>12. Grouping(N)
    BY <1>8, <1>10, <1>11 DEF Grouping
<1>13. Whole(N)
    BY <1>9, <1>11 DEF Whole
<1>14. QED
    BY <1>1, <1>3, <1>12, <1>13

(* and after the cuts that the optimizer asks for (_split_forced_runs).    *)
LEMMA SplitForcedIs ==
    ASSUME LotsKeyed(lots), Grouping(runs), Whole(runs), SplitForced
    PROVE  Grouping(runs') /\ UNCHANGED lots
<1>1. PICK R, N : R = runs /\ N = runs'
    OBVIOUS
<1>2. Grouping(R) /\ Whole(R)
    BY <1>1
<1>3. PICK run \in R : \E cuts \in SUBSET (1..(Len(run.lots) - 1)) : N = (R \ {run}) \cup CutAt(run, cuts)
    BY <1>1 DEF SplitForced
<1>4. PICK cuts \in SUBSET (1..(Len(run.lots) - 1)) : N = (R \ {run}) \cup CutAt(run, cuts)
    BY <1>3
<1>5. \A r \in R : RunOk(r) /\ Once(r.lots) /\ r.part \in PartNames
    BY <1>2 DEF Grouping, Divides, Whole
<1>6. PICK C : C = CutAt(run, cuts)
    OBVIOUS
<1>7. CutOk(C, run)
    BY <1>5, <1>6, CutAtIs
<1>8. /\ Divides(C, LotsOf(run.lots))
      /\ \A p \in C : RunOk(p) /\ p.tool = run.tool /\ p.index = run.index
      /\ \A p \in C : p = run \/ \E i \in Nat : p.part = Append(run.part, i)
      /\ \A p, q \in C : p.part = q.part => p = q
    BY <1>7, Zenon DEF CutOk
<1>9. N = (R \ {run}) \cup C
    BY <1>4, <1>6
<1> DEFINE D == [r \in R |-> IF r = run THEN C ELSE {r}]
<1>10. N = UNION {D[r] : r \in R}
    BY <1>9
<1>11. \A r \in R : Divides(D[r], LotsOf(r.lots))
  <2>1. SUFFICES ASSUME NEW r \in R PROVE Divides(D[r], LotsOf(r.lots))
    OBVIOUS
  <2>2. CASE r = run
    BY <1>8, <2>2
  <2>3. CASE r # run
    BY <1>5, <2>3, DividesItself
  <2>4. QED
    BY <2>2, <2>3
<1> HIDE DEF D
<1>12. Divides(N, lots)
  <2>1. Divides(R, lots)
    BY <1>2 DEF Grouping
  <2>2. QED
    BY <1>10, <1>11, <2>1, DividedAgain
<1>13. ASSUME NEW p \in C, NEW q \in R, q # run, Name(p) = Name(q) PROVE p = q
  <2>1. p.tool = q.tool /\ p.index = q.index /\ p.part = q.part
    BY <1>13 DEF Name
  <2>2. p.tool = run.tool /\ p.index = run.index
    BY <1>8
  <2>3. CASE p = run
    BY <1>2, <1>13, <2>3 DEF Grouping, Named
  <2>4. CASE p # run
    <3>1. PICK i \in Nat : p.part = Append(run.part, i)
      BY <1>8, <2>4
    <3>2. run.part # <<>>
      BY <1>2, <1>13, <2>1, <2>2 DEF Whole
    <3>3. Len(run.part) \in Nat /\ Len(run.part) <= 1 /\ Len(run.part) # 0
      BY <1>5, <3>2, PartNamesAre
    <3>4. Len(Append(run.part, i)) = Len(run.part) + 1
      BY <1>5, PartNamesAre
    <3>5. Len(q.part) \in Nat /\ Len(q.part) <= 1
      BY <1>5, PartNamesAre
    <3>6. Len(q.part) = Len(run.part) + 1
      BY <2>1, <3>1, <3>4, Zenon
    <3>7. QED
      BY <3>3, <3>5, <3>6
  <2>5. QED
    BY <2>3, <2>4
<1>14. Named(N)
  <2>1. SUFFICES ASSUME NEW p \in N, NEW q \in N, Name(p) = Name(q) PROVE p = q
    BY DEF Named
  <2>2. p.part = q.part
    BY <2>1 DEF Name
  <2>3. CASE p \in C /\ q \in C
    BY <1>8, <2>2, <2>3
  <2>4. CASE p \in C /\ q \in R /\ q # run
    BY <1>13, <2>1, <2>4
  <2>5. CASE q \in C /\ p \in R /\ p # run
    BY <1>13, <2>1, <2>5
  <2>6. CASE p \in R /\ q \in R
    BY <1>2, <2>1, <2>6 DEF Grouping, Named
  <2>7. QED
    BY <1>9, <2>3, <2>4, <2>5, <2>6
<1>15. \A p \in N : RunOk(p)
    BY <1>5, <1>8, <1>9
<1>16. Grouping(N)
    BY <1>12, <1>14, <1>15 DEF Grouping
<1>17. QED
    BY <1>1, <1>16 DEF SplitForced, sizingVars

-----------------------------------------------------------------------------
(* The runs are a schedule.                                                *)

(* The lots of the runs T, counted run by run.                             *)
LotsIn(T) == UNION {LotsOf(run.lots) : run \in T}
Counts(T) == [run \in T |-> Len(run.lots)]

(* The runs have as many lots as there are lots.                           *)
LEMMA RunLengths ==
    ASSUME LotsKeyed(lots), Grouping(runs), NEW R, R = runs
    PROVE  /\ IsFiniteSet(R)
           /\ SumOver(Counts(R), R) = Cardinality(lots)
<1>1. \A l \in lots : Keyed(l)
    BY DEF LotsKeyed
<1>2. IsFiniteSet(lots)
    BY DEF LotsKeyed
<1>3. ASSUME NEW r \in R
      PROVE  /\ r.lots \in Seq(lots) /\ r.lots # <<>> /\ Once(r.lots) /\ LotsOf(r.lots) \subseteq lots
             /\ IsFiniteSet(LotsOf(r.lots)) /\ Cardinality(LotsOf(r.lots)) = Len(r.lots)
             /\ Len(r.lots) \in Nat /\ r.lots[1] \in LotsOf(r.lots)
  <2>1. /\ r.lots \in Seq(lots) /\ r.lots # <<>> /\ Once(r.lots) /\ LotsOf(r.lots) \subseteq lots
    BY DEF Grouping, RunOk, Divides
  <2>2. IsFiniteSet(LotsOf(r.lots)) /\ Cardinality(LotsOf(r.lots)) = Len(r.lots)
    BY <1>1, <2>1, MinutesOfLots
  <2>3. 1 \in 1..Len(r.lots) /\ Len(r.lots) \in Nat
    BY <2>1
  <2>4. r.lots[1] \in LotsOf(r.lots)
    BY <2>3 DEF LotsOf
  <2>5. QED
    BY <2>1, <2>2, <2>3, <2>4
<1>4. /\ \A l \in lots : \E r \in R : l \in LotsOf(r.lots)
      /\ \A r, q \in R, l \in lots : l \in LotsOf(r.lots) /\ l \in LotsOf(q.lots) => r = q
    BY Zenon DEF Grouping, Divides
<1>5. IsFiniteSet(R)
  <2> DEFINE f == [r \in R |-> r.lots[1]]
  <2>1. f \in [R -> lots]
    BY <1>3
  <2>2. \A r, q \in R : f[r] = f[q] => r = q
    BY <1>3, <1>4
  <2>3. f \in Injection(R, lots)
    BY <2>1, <2>2 DEF Injection, IsInjective
  <2>4. QED
    BY <1>2, <2>3, FS_Injection
<1> DEFINE f == Counts(R)
           P == {T \in SUBSET R : IsFiniteSet(LotsIn(T)) /\ SumOver(f, T) = Cardinality(LotsIn(T))}
<1>6. \A r \in R : f[r] = Len(r.lots) /\ f[r] \in Int
    BY <1>3 DEF Counts
<1> HIDE DEF f
<1>7. {} \in P
    BY SumEmpty, FS_EmptySet DEF LotsIn
<1>8. ASSUME NEW T \in P, NEW r \in R, T \subseteq R, r \notin T PROVE T \cup {r} \in P
  <2>1. IsFiniteSet(LotsIn(T)) /\ SumOver(f, T) = Cardinality(LotsIn(T)) /\ Cardinality(LotsIn(T)) \in Nat
    BY FS_CardinalityType
  <2>2. LotsIn(T \cup {r}) = LotsIn(T) \cup LotsOf(r.lots)
    BY DEF LotsIn
  <2>3. LotsIn(T) \cap LotsOf(r.lots) = {}
    <3>1. SUFFICES ASSUME NEW l \in LotsIn(T), l \in LotsOf(r.lots) PROVE FALSE
      OBVIOUS
    <3>2. PICK q \in T : l \in LotsOf(q.lots)
      BY DEF LotsIn
    <3>3. q \in R /\ l \in lots
      BY <1>3, <1>8, <3>1
    <3>4. q = r
      BY <1>4, <3>1, <3>2, <3>3
    <3>5. QED
      BY <1>8, <3>4
  <2>4. /\ IsFiniteSet(LotsIn(T) \cup LotsOf(r.lots))
        /\ Cardinality(LotsIn(T) \cup LotsOf(r.lots)) = Cardinality(LotsIn(T)) + Len(r.lots)
    <3>1. IsFiniteSet(LotsOf(r.lots)) /\ Cardinality(LotsOf(r.lots)) = Len(r.lots) /\ Len(r.lots) \in Nat
      BY <1>3
    <3>2. /\ IsFiniteSet(LotsIn(T) \cup LotsOf(r.lots))
          /\ Cardinality(LotsIn(T) \cup LotsOf(r.lots))
             = Cardinality(LotsIn(T)) + Cardinality(LotsOf(r.lots)) - Cardinality(LotsIn(T) \cap LotsOf(r.lots))
      BY <2>1, <3>1, FS_Union
    <3>3. Cardinality(LotsIn(T) \cap LotsOf(r.lots)) = 0
      BY <2>3, FS_EmptySet
    <3>4. QED
      BY <2>1, <3>1, <3>2, <3>3
  <2>5. SumOver(f, T \cup {r}) = Len(r.lots) + SumOver(f, T)
    <3>1. IsFiniteSet(T) /\ \A x \in T \cup {r} : f[x] \in Int
      BY <1>5, <1>6, FS_Subset
    <3>2. SumOver(f, T \cup {r}) = f[r] + SumOver(f, T)
      BY <1>8, <3>1, SumAdd
    <3>3. QED
      BY <1>6, <3>2
  <2>6. PICK a, b \in Nat : a = Len(r.lots) /\ b = Cardinality(LotsIn(T))
    BY <1>3, <2>1
  <2>7. SumOver(f, T \cup {r}) = Cardinality(LotsIn(T \cup {r}))
    <3>1. SumOver(f, T \cup {r}) = a + b
      BY <2>1, <2>5, <2>6
    <3>2. Cardinality(LotsIn(T \cup {r})) = b + a
      BY <2>2, <2>4, <2>6
    <3>3. QED
      BY <2>6, <3>1, <3>2
  <2>8. QED
    BY <2>2, <2>4, <2>7
<1>9. R \in P
  <2> HIDE DEF P
  <2>1. \A T \in SUBSET R : T \in P
    BY <1>5, <1>7, <1>8, FiniteInduction
  <2>2. QED
    BY <2>1
<1>10. LotsIn(R) = lots
    BY <1>3, <1>4 DEF LotsIn
<1>11. QED
    BY <1>5, <1>9, <1>10 DEF f

(* Runs that divide the lots are a schedule of them.                       *)
LEMMA GroupingIsSound ==
    ASSUME LotsKeyed(lots), Grouping(runs)
    PROVE  RunsAreSound
<1>1. PICK R : R = runs
    OBVIOUS
<1>2. IsFiniteSet(R) /\ SumOver(Counts(R), R) = Cardinality(lots)
    BY <1>1, RunLengths
<1>3. SumOver([run \in runs |-> Len(run.lots)], runs) = Cardinality(lots)
    BY <1>1, <1>2 DEF Counts
<1>4. \A r \in R : /\ RunOk(r) /\ r.lots \in Seq(lots) /\ r.lots # <<>> /\ Together(r.lots) /\ OneFamily(r.lots)
                   /\ DOMAIN r.lots = 1..Len(r.lots)
    BY <1>1 DEF Grouping, RunOk
<1>5. ASSUME NEW l \in lots PROVE Cardinality(Holding(l)) = 1
  <2>1. PICK r \in R : l \in LotsOf(r.lots)
    BY <1>1 DEF Grouping, Divides
  <2>2. \A q \in R : l \in LotsOf(q.lots) => q = r
    BY <1>1, <2>1 DEF Grouping, Divides
  <2>3. \A q \in R : (\E i \in DOMAIN q.lots : q.lots[i] = l) <=> l \in LotsOf(q.lots)
    BY <1>4 DEF LotsOf
  <2>4. Holding(l) = {r}
    BY <1>1, <2>1, <2>2, <2>3 DEF Holding
  <2>5. QED
    BY <2>4, FS_Singleton
<1>6. Cardinality({Name(run) : run \in runs}) = Cardinality(runs)
  <2> DEFINE N == {Name(run) : run \in R}
             f == [run \in R |-> Name(run)]
  <2>1. f \in Surjection(R, N)
    BY DEF Surjection
  <2>2. f \in [R -> N] /\ \A r, q \in R : f[r] = f[q] => r = q
    BY <1>1 DEF Grouping, Named
  <2>3. f \in Injection(R, N)
    BY <2>2 DEF Injection, IsInjective
  <2>4. Cardinality(N) = Cardinality(R)
    BY <1>2, <2>1, <2>3, FS_Surjection
  <2>5. QED
    BY <1>1, <2>4
<1>7. ASSUME NEW run \in runs
      PROVE  LET its == run.lots IN
             /\ \A i \in DOMAIN its :
                  /\ its[i].tool = run.tool /\ its[i].family = its[1].family
                  /\ Floor(its[i]) = Floor(its[1])
                  /\ its[i].edd - its[1].edd <= MaxSpan
             /\ \A i \in 2..Len(its) : its[i].edd - its[i - 1].edd \in 0..MaxGap
             /\ Len(its) = 1 \/ RunMinutes(its) <= MaxRunMinutes
  <2>1. PICK its \in Seq(lots) : /\ its = run.lots /\ Together(its) /\ OneFamily(its)
                                 /\ DOMAIN its = 1..Len(its)
    BY <1>1, <1>4
  <2>2. \A i \in 1..Len(its) : /\ its[i].tool = run.tool /\ its[i].family = its[1].family
                               /\ Floor(its[i]) = Floor(its[1])
                               /\ its[i].edd - its[1].edd <= MaxSpan
    BY <1>1, <1>4, <2>1 DEF RunOk, Together, OneFamily
  <2>3. \A i \in 2..Len(its) : its[i].edd - its[i - 1].edd \in 0..MaxGap
    <3>1. SUFFICES ASSUME NEW i \in 2..Len(its) PROVE its[i].edd - its[i - 1].edd \in 0..MaxGap
      OBVIOUS
    <3>2. i - 1 \in 1..Len(its) /\ i \in 1..Len(its) /\ i - 1 <= i
      OBVIOUS
    <3>3. \A l \in lots : Keyed(l)
      BY DEF LotsKeyed
    <3>4. its[i].edd \in Int /\ its[i - 1].edd \in Int /\ its[i - 1].edd <= its[i].edd
      BY <2>1, <3>2, <3>3, DayOrder
    <3>5. its[i].edd - its[i - 1].edd <= MaxGap /\ MaxGap \in Nat
      BY <2>1, GroupingAssumption DEF Together
    <3>6. QED
      BY <3>4, <3>5
  <2>4. Len(its) = 1 \/ RunMinutes(its) <= MaxRunMinutes
    BY <2>1 DEF Together
  <2>5. QED
    BY <2>1, <2>2, <2>3, <2>4
<1>8. QED
    BY <1>3, <1>5, <1>6, <1>7 DEF RunsAreSound

(* The invariant of the grouping: a lot is known by its number from the    *)
(* time it is sized; the runs divide the lots, and no part of a run has    *)
(* the name of another run.                                                *)
GroupingInv ==
    /\ stage \in {"sizing", "sized", "chained", "feasible", "grouped"} => LotsKeyed(lots)
    /\ stage \in {"chained", "feasible", "grouped"} => Grouping(runs)
    /\ stage = "chained" => Undivided(runs)
    /\ stage = "feasible" => Whole(runs)

(* A step that comes after the grouping and keeps what it made.            *)
Dispatched ==
    stage' \notin {"orders", "sizing", "sized", "chained", "feasible", "grouped"}

(* Every step of the grouping keeps the invariant, and so does what comes  *)
(* after it.                                                               *)
LEMMA GroupingStep ==
    ASSUME SizingInv, GroupingInv, GroupingNext \/ Dispatched \/ UNCHANGED <<stage, groupingVars>>
    PROVE  GroupingInv'
<1>1. CASE SizingNext /\ UNCHANGED runs
  <2>1. stage' \in {"sizing", "sized", "failed"}
    BY <1>1 DEF SizingNext, OffsetSupply, TwinCycle, TwinCycleFails, SoloDemand, Sized
  <2>2. stage = "sizing" => LotsKeyed(lots)
    BY DEF GroupingInv
  <2>3. stage' \in {"sizing", "sized"} => LotsKeyed(lots')
    BY <1>1, <2>2, LotsStayKeyed
  <2>4. QED
    BY <2>1, <2>3 DEF GroupingInv, LotsKeyed
<1>2. CASE GroupLots
  <2>1. stage = "sized" /\ stage' = "chained"
    BY <1>2 DEF GroupLots
  <2>2. LotsKeyed(lots)
    BY <2>1 DEF GroupingInv
  <2>3. Grouping(runs') /\ Undivided(runs') /\ UNCHANGED lots
    BY <1>2, <2>2, GroupLotsIs
  <2>4. QED
    BY <2>1, <2>2, <2>3 DEF GroupingInv, Grouping, LotsKeyed, RunOk
<1>3. CASE SplitInfeasible
  <2>1. stage = "chained" /\ stage' = "feasible"
    BY <1>3 DEF SplitInfeasible
  <2>2. LotsKeyed(lots) /\ Grouping(runs) /\ Undivided(runs)
    BY <2>1 DEF GroupingInv
  <2>3. Grouping(runs') /\ Whole(runs') /\ UNCHANGED lots
    BY <1>3, <2>2, SplitInfeasibleIs
  <2>4. QED
    BY <2>1, <2>2, <2>3 DEF GroupingInv, Grouping, LotsKeyed, RunOk
<1>4. CASE SplitForced
  <2>1. stage = "feasible" /\ stage' = "grouped"
    BY <1>4 DEF SplitForced
  <2>2. LotsKeyed(lots) /\ Grouping(runs) /\ Whole(runs)
    BY <2>1 DEF GroupingInv
  <2>3. Grouping(runs') /\ UNCHANGED lots
    BY <1>4, <2>2, SplitForcedIs
  <2>4. QED
    BY <2>1, <2>2, <2>3 DEF GroupingInv, Grouping, LotsKeyed, RunOk
<1>5. CASE Dispatched
  BY <1>5 DEF Dispatched, GroupingInv
<1>6. CASE UNCHANGED <<stage, groupingVars>>
  <2>1. UNCHANGED stage /\ UNCHANGED lots /\ UNCHANGED runs
    BY <1>6 DEF groupingVars, sizingVars
  <2>2. QED
    BY <2>1 DEF GroupingInv, Grouping, LotsKeyed, RunOk, Undivided, Whole
<1>7. QED
  BY <1>1, <1>2, <1>3, <1>4, <1>5, <1>6 DEF GroupingNext

(* The grouping is sound from its first step to its last.                  *)
LEMMA GroupingMeansSound == ASSUME GroupingInv PROVE RunsAreSound
<1>1. CASE stage \in {"chained", "feasible", "grouped"}
  <2>1. LotsKeyed(lots) /\ Grouping(runs)
    BY <1>1 DEF GroupingInv
  <2>2. QED
    BY <2>1, GroupingIsSound
<1>2. CASE stage \notin {"chained", "feasible", "grouped"}
  BY <1>2 DEF RunsAreSound
<1>3. QED
  BY <1>1, <1>2

-----------------------------------------------------------------------------
(* The validator (scheduler/validation.py): what it compares, pairs of     *)
(* neighbours, starts and ends, is enough for what happens in between.     *)

(* The blocks of a plan are in a total order.                              *)
LEMMA BlocksAreOrdered ==
    ASSUME NEW plans, Workable(plans)
    PROVE  /\ IsFiniteSet(DOMAIN plans) /\ DOMAIN plans \subseteq Nat
           /\ \A i \in DOMAIN plans :
                /\ plans[i].from \in Nat /\ plans[i].setup \in Nat /\ plans[i].to \in Nat
                /\ plans[i].from + plans[i].setup < plans[i].to /\ plans[i].from < plans[i].to
<1>1. DOMAIN plans = 1..Len(plans) /\ Len(plans) \in Nat
    BY DEF Workable
<1>2. IsFiniteSet(DOMAIN plans) /\ DOMAIN plans \subseteq Nat
    BY <1>1, FS_Interval
<1>3. ASSUME NEW i \in DOMAIN plans
      PROVE  /\ plans[i].from \in Nat /\ plans[i].setup \in Nat /\ plans[i].to \in Nat
             /\ plans[i].from + plans[i].setup < plans[i].to /\ plans[i].from < plans[i].to
  <2>1. PICK f \in Nat, s \in Nat, t \in Nat :
          f = plans[i].from /\ s = plans[i].setup /\ t = plans[i].to /\ f + s < t
    BY DEF Workable
  <2>2. f < t
    BY <2>1
  <2>3. QED
    BY <2>1, <2>2
<1>4. QED
    BY <1>2, <1>3

(* The order of the blocks, by their starts and positions,                 *)
LEMMA AheadIs ==
    ASSUME NEW plans, Workable(plans), NEW i \in DOMAIN plans, NEW j \in DOMAIN plans
    PROVE  Ahead(plans, i, j) <=> \/ plans[i].from < plans[j].from
                                  \/ plans[i].from = plans[j].from /\ i < j
BY DEF Ahead

(* is total, transitive and goes with the starts.                          *)
LEMMA AheadIsTotal ==
    ASSUME NEW plans, Workable(plans), NEW i \in DOMAIN plans, NEW j \in DOMAIN plans
    PROVE  /\ i # j => Ahead(plans, i, j) \/ Ahead(plans, j, i)
           /\ ~(Ahead(plans, i, j) /\ Ahead(plans, j, i)) /\ ~Ahead(plans, i, i)
           /\ Ahead(plans, i, j) => plans[i].from <= plans[j].from
           /\ plans[i].from < plans[j].from => Ahead(plans, i, j)
           /\ \A k \in DOMAIN plans : Ahead(plans, i, j) /\ Ahead(plans, j, k) => Ahead(plans, i, k)
<1>1. i \in Nat /\ j \in Nat /\ plans[i].from \in Nat /\ plans[j].from \in Nat
    BY BlocksAreOrdered
<1>2. Ahead(plans, i, j) <=> plans[i].from < plans[j].from \/ (plans[i].from = plans[j].from /\ i < j)
    BY AheadIs
<1>3. Ahead(plans, j, i) <=> plans[j].from < plans[i].from \/ (plans[j].from = plans[i].from /\ j < i)
    BY AheadIs
<1>4. Ahead(plans, i, i) <=> plans[i].from < plans[i].from \/ (plans[i].from = plans[i].from /\ i < i)
    BY AheadIs
<1>5. ASSUME NEW k \in DOMAIN plans, Ahead(plans, i, j), Ahead(plans, j, k) PROVE Ahead(plans, i, k)
  <2>1. k \in Nat /\ plans[k].from \in Nat
    BY BlocksAreOrdered
  <2>2. plans[j].from < plans[k].from \/ (plans[j].from = plans[k].from /\ j < k)
    BY <1>5, AheadIs
  <2>3. plans[i].from < plans[k].from \/ (plans[i].from = plans[k].from /\ i < k)
    BY <1>1, <1>2, <1>5, <2>1, <2>2
  <2>4. QED
    BY <2>3, AheadIs
<1>6. ~Ahead(plans, i, i)
    BY <1>1, <1>4
<1>7. ~(Ahead(plans, i, j) /\ Ahead(plans, j, i))
    BY <1>1, <1>2, <1>3
<1>8. i # j => Ahead(plans, i, j) \/ Ahead(plans, j, i)
    BY <1>1, <1>2, <1>3
<1>9. Ahead(plans, i, j) => plans[i].from <= plans[j].from
    BY <1>1, <1>2
<1>10. QED
    BY <1>2, <1>5, <1>6, <1>7, <1>8, <1>9

(* Some blocks of a plan have a first and a last one.                      *)
LEMMA SomeBlocksHaveEnds ==
    ASSUME NEW plans, Workable(plans), NEW T \in SUBSET DOMAIN plans, T # {}
    PROVE  /\ \E p \in T : \A k \in T : k # p => Ahead(plans, k, p)
           /\ \E p \in T : \A k \in T : k # p => Ahead(plans, p, k)
<1> DEFINE F == {plans[k].from : k \in T}
<1>1. IsFiniteSet(T) /\ T \subseteq Int /\ \A k \in T : plans[k].from \in Int /\ k \in Int
    BY BlocksAreOrdered, FS_Subset
<1>2. IsFiniteSet(F) /\ F # {} /\ F \subseteq Int
  <2>1. [k \in T |-> plans[k].from] \in Surjection(T, F)
    BY DEF Surjection
  <2>2. IsFiniteSet(F)
    BY <1>1, <2>1, FS_Surjection
  <2>3. QED
    BY <1>1, <2>2
<1>3. \A k \in T : plans[k].from \in F
    OBVIOUS
<1> HIDE DEF F
<1>4. \E p \in T : \A k \in T : k # p => Ahead(plans, k, p)
  <2>1. PICK m \in F : \A x \in F : x <= m
    BY <1>2, FiniteSetHasMax
  <2>2. PICK U : U = {k \in T : plans[k].from = m}
    OBVIOUS
  <2>3. U # {} /\ IsFiniteSet(U) /\ U \subseteq Int
    BY <1>1, <2>1, <2>2, FS_Subset DEF F
  <2>4. PICK p \in U : \A k \in U : k <= p
    BY <2>3, FiniteSetHasMax
  <2>5. ASSUME NEW k \in T, k # p PROVE Ahead(plans, k, p)
    <3>1. plans[k].from <= m /\ plans[p].from = m /\ m \in Int /\ p \in T /\ k \in Int /\ p \in Int
      BY <1>1, <1>2, <1>3, <2>1, <2>2, <2>4
    <3>2. plans[k].from < m \/ plans[k].from = m
      BY <1>1, <3>1
    <3>3. plans[k].from = m => k < p
      BY <2>2, <2>4, <2>5, <3>1
    <3>4. QED
      BY <3>1, <3>2, <3>3, AheadIs
  <2>6. QED
    BY <2>2, <2>4, <2>5
<1>5. \E p \in T : \A k \in T : k # p => Ahead(plans, p, k)
  <2>1. PICK m \in F : \A x \in F : m <= x
    BY <1>2, FiniteSetHasMin
  <2>2. PICK U : U = {k \in T : plans[k].from = m}
    OBVIOUS
  <2>3. U # {} /\ IsFiniteSet(U) /\ U \subseteq Int
    BY <1>1, <2>1, <2>2, FS_Subset DEF F
  <2>4. PICK p \in U : \A k \in U : p <= k
    BY <2>3, FiniteSetHasMin
  <2>5. ASSUME NEW k \in T, k # p PROVE Ahead(plans, p, k)
    <3>1. m <= plans[k].from /\ plans[p].from = m /\ m \in Int /\ p \in T /\ k \in Int /\ p \in Int
      BY <1>1, <1>2, <1>3, <2>1, <2>2, <2>4
    <3>2. m < plans[k].from \/ plans[k].from = m
      BY <1>1, <3>1
    <3>3. plans[k].from = m => p < k
      BY <2>2, <2>4, <2>5, <3>1
    <3>4. QED
      BY <3>1, <3>2, <3>3, AheadIs
  <2>6. QED
    BY <2>2, <2>4, <2>5
<1>6. QED
    BY <1>4, <1>5

(* Whoever has somebody ahead has a neighbour ahead.                       *)
LEMMA NeighbourAhead ==
    ASSUME NEW plans, Workable(plans), NEW S \in SUBSET DOMAIN plans, NEW i \in S, NEW j \in S,
           Ahead(plans, i, j)
    PROVE  \E p \in S : /\ <<p, j>> \in Neighbours(plans, S) /\ Ahead(plans, p, j)
                        /\ i = p \/ Ahead(plans, i, p)
<1>1. PICK T : T = {k \in S : Ahead(plans, k, j)}
    OBVIOUS
<1>2. T \in SUBSET DOMAIN plans /\ i \in T
    BY <1>1
<1>3. PICK p \in T : \A k \in T : k # p => Ahead(plans, k, p)
    BY <1>2, SomeBlocksHaveEnds
<1>4. p \in S /\ Ahead(plans, p, j) /\ p \in DOMAIN plans
    BY <1>1, <1>3
<1>5. ASSUME NEW k \in S, Ahead(plans, p, k), Ahead(plans, k, j) PROVE FALSE
  <2>1. k \in T /\ k \in DOMAIN plans
    BY <1>1, <1>5
  <2>2. k = p \/ Ahead(plans, k, p)
    BY <1>3, <2>1
  <2>3. QED
    BY <1>4, <1>5, <2>1, <2>2, AheadIsTotal
<1>6. PICK e : e = <<p, j>>
    OBVIOUS
<1>7. e \in S \X S /\ e[1] = p /\ e[2] = j
    BY <1>4, <1>6
<1>8. e \in Neighbours(plans, S)
    BY <1>4, <1>5, <1>7 DEF Neighbours
<1>9. QED
    BY <1>2, <1>3, <1>4, <1>6, <1>8

(* Blocks of a machine that do not overlap their neighbours overlap none.  *)
LEMMA MachineOnce ==
    ASSUME NEW plans, Workable(plans), MachineOverlaps(plans) = {},
           NEW i \in DOMAIN plans, NEW j \in DOMAIN plans,
           plans[i].machine = plans[j].machine, Ahead(plans, i, j)
    PROVE  plans[i].to <= plans[j].from
<1> DEFINE Late(k, n) == /\ plans[k].machine = plans[n].machine /\ Ahead(plans, k, n)
                         /\ ~(plans[k].to <= plans[n].from)
           Bad == {n \in DOMAIN plans : \E k \in DOMAIN plans : Late(k, n)}
<1>1. SUFFICES ASSUME ~(plans[i].to <= plans[j].from) PROVE FALSE
    OBVIOUS
<1>2. Bad \in SUBSET DOMAIN plans /\ Bad # {}
    BY <1>1
<1>3. PICK b \in Bad : \A k \in Bad : k # b => Ahead(plans, b, k)
    BY <1>2, SomeBlocksHaveEnds
<1>4. PICK a \in DOMAIN plans : b \in DOMAIN plans /\ Late(a, b)
    OBVIOUS
<1>5. PICK S : S = OnMachine(plans, plans[b].machine)
    OBVIOUS
<1>6. S \in SUBSET DOMAIN plans /\ a \in S /\ b \in S /\ \A k \in S : plans[k].machine = plans[b].machine
    BY <1>4, <1>5 DEF OnMachine
<1>7. PICK p \in S : <<p, b>> \in Neighbours(plans, S) /\ Ahead(plans, p, b) /\ (a = p \/ Ahead(plans, a, p))
    BY <1>4, <1>6, NeighbourAhead
<1>8. PICK e : e = <<p, b>>
    OBVIOUS
<1>8a. e[1] = p /\ e[2] = b
    BY <1>8
<1>9. ~Overlap(plans[p], plans[b])
  <2>1. SUFFICES ASSUME Overlap(plans[p], plans[b]) PROVE FALSE
    OBVIOUS
  <2>2. e \in {n \in Neighbours(plans, S) : Overlap(plans[n[1]], plans[n[2]])}
    BY <1>7, <1>8, <1>8a, <2>1
  <2>3. plans[b].machine \in MachinesOf(plans)
    BY <1>4 DEF MachinesOf
  <2>4. <<"machine_overlap", e[2], e[1]>> \in MachineOverlaps(plans)
    BY <1>5, <2>2, <2>3 DEF MachineOverlaps
  <2>5. QED
    BY <2>4
<1>10. p \in DOMAIN plans /\ plans[p].from <= plans[b].from
    BY <1>4, <1>6, <1>7, AheadIsTotal
<1>11. PICK pf \in Nat, pt \in Nat, bf \in Nat, bt \in Nat, af \in Nat, at \in Nat :
         /\ pf = plans[p].from /\ pt = plans[p].to /\ bf = plans[b].from /\ bt = plans[b].to
         /\ af = plans[a].from /\ at = plans[a].to /\ pf < pt /\ bf < bt /\ af < at
    BY <1>4, <1>10, BlocksAreOrdered
<1>12. pt <= bf
    BY <1>9, <1>10, <1>11 DEF Overlap
<1>13. CASE a = p
    BY <1>4, <1>11, <1>12, <1>13
<1>14. CASE a # p
  <2>1. Ahead(plans, a, p)
    BY <1>7, <1>14
  <2>2. p \notin Bad
    <3>1. p # b
      BY <1>4, <1>7, AheadIsTotal
    <3>2. ~Ahead(plans, b, p)
      BY <1>4, <1>7, <1>10, AheadIsTotal
    <3>3. QED
      BY <1>3, <3>1, <3>2
  <2>3. plans[a].machine = plans[p].machine
    BY <1>6
  <2>4. at <= pf
    BY <1>4, <1>10, <1>11, <2>1, <2>2, <2>3
  <2>5. at <= bf
    BY <1>11, <1>12, <2>4
  <2>6. QED
    BY <1>4, <1>11, <2>5
<1>15. QED
    BY <1>13, <1>14

(* Blocks with one tool do not overlap.                                    *)
LEMMA ToolOnceOnly ==
    ASSUME NEW plans, Workable(plans), MachineOverlaps(plans) = {}, ToolConflicts(plans) = {},
           NEW i \in DOMAIN plans, NEW j \in DOMAIN plans,
           plans[i].tool = plans[j].tool, Ahead(plans, i, j)
    PROVE  plans[i].to <= plans[j].from
<1>1. CASE plans[i].machine = plans[j].machine
    BY <1>1, MachineOnce
<1>2. CASE plans[i].machine # plans[j].machine
  <2>1. PICK e : e = <<i, j>>
    OBVIOUS
  <2>1a. e[1] = i /\ e[2] = j /\ e \in (DOMAIN plans) \X (DOMAIN plans)
    BY <2>1
  <2>2. ~(plans[j].from < plans[i].to)
    BY <1>2, <2>1a DEF ToolConflicts
  <2>3. plans[j].from \in Nat /\ plans[i].to \in Nat
    BY BlocksAreOrdered
  <2>4. QED
    BY <2>2, <2>3
<1>3. QED
    BY <1>1, <1>2

(* Products and quotients.                                                 *)
LEMMA SmallerFactor ==
    ASSUME NEW a \in Int, NEW b \in Int, NEW n \in Nat \ {0}, a * n < b * n
    PROVE  a < b
<1>1. SUFFICES ASSUME a >= b PROVE FALSE
    OBVIOUS
<1>2. PICK c \in Nat : a = b + c
    BY <1>1
<1>3. a * n = b * n + c * n /\ c * n >= 0
    BY <1>2
<1>4. QED
    BY <1>3

(* A quotient is the only number between its bounds.                       *)
LEMMA QuotientIs ==
    ASSUME NEW x \in Int, NEW n \in Nat \ {0}
    PROVE  /\ x \div n \in Int /\ (x \div n) * n <= x /\ x < (x \div n) * n + n
           /\ \A q \in Int : q * n <= x /\ x < q * n + n => x \div n = q
<1>1. x \div n \in Int /\ (x \div n) * n <= x /\ x < (x \div n) * n + n
    OBVIOUS
<1>2. ASSUME NEW q \in Int, q * n <= x, x < q * n + n PROVE x \div n = q
  <2>1. PICK r \in Int : r = x \div n /\ r * n <= x /\ x < r * n + n
    BY <1>1
  <2>2. q * n \in Int /\ r * n \in Int /\ q * n + n = (q + 1) * n /\ r * n + n = (r + 1) * n
    OBVIOUS
  <2>3. q * n < (r + 1) * n /\ r * n < (q + 1) * n
    BY <1>2, <2>1, <2>2
  <2>4. q < r + 1 /\ r < q + 1
    BY <2>3, SmallerFactor
  <2>5. QED
    BY <2>1, <2>4
<1>3. QED
    BY <1>1, <1>2

(* A shift lies within a day.                                              *)
LEMMA ShiftWithinDay ==
    ASSUME NEW from \in Nat, NEW t \in Nat, from <= t, t < Boundary(from)
    PROVE  DayOf(t) = DayOf(from)
<1>1. PICK s \in Nat \ {0}, d \in Nat \ {0} : s = ShiftMinutes /\ d = DayCap
    BY DispatchAssumption
<1>2. PICK k \in Int : d = s * k
  <2>1. d % s = 0
    BY <1>1, DispatchAssumption
  <2>2. /\ d \div s \in Int /\ d % s \in 0..(s - 1)
        /\ d = s * (d \div s) + (d % s)
    BY SMT
  <2>3. QED
    BY <2>1, <2>2
<1>3. PICK q \in Int : q = from \div s /\ q * s <= from /\ t < (q + 1) * s
  <2>1. from \div s \in Int /\ (from \div s) * s <= from
    BY QuotientIs
  <2>2. t < (from \div s + 1) * s
    BY <1>1 DEF Boundary
  <2>3. QED
    BY <2>1, <2>2
<1>4. PICK r \in Int : r = t \div d /\ r * d <= t /\ t < r * d + d
    BY QuotientIs
<1>5. PICK p \in Int : p = r * k
    OBVIOUS
<1>6. r * d = p * s
    BY <1>2, <1>5
<1>7. p * s < (q + 1) * s
    BY <1>3, <1>4, <1>6
<1>8. p < q + 1
    BY <1>7, SmallerFactor
<1>9. p * s <= q * s
  <2>1. PICK c \in Nat : q = p + c
    BY <1>8
  <2>2. q * s = p * s + c * s /\ c * s >= 0
    BY <2>1
  <2>3. QED
    BY <2>2
<1>10. r * d <= from /\ from < r * d + d
    BY <1>3, <1>4, <1>6, <1>9
<1>11. from \div d = r
    BY <1>10, QuotientIs
<1>12. QED
    BY <1>1, <1>4, <1>11 DEF DayOf

(* The parts of a validation that finds nothing.                           *)
LEMMA NothingFound ==
    ASSUME NEW plans, Violations(plans) = {}
    PROVE  /\ OutsideShift(plans) = {} /\ DownTime(plans) = {} /\ MachineOverlaps(plans) = {}
           /\ MachineChanges(plans) = {} /\ ToolMoves(plans) = {} /\ ToolConflicts(plans) = {}
           /\ CrewOverlaps(plans) = {}
<1>1. OutsideShift(plans) = {} /\ DownTime(plans) = {} /\ MachineOverlaps(plans) = {}
      /\ MachineChanges(plans) = {} /\ ToolMoves(plans) = {}
    BY DEF Violations
<1>2. {<<"tool_conflict", p>> : p \in ToolConflicts(plans)} = {}
      /\ {<<"setup_crew_overlap", i>> : i \in CrewOverlaps(plans)} = {}
    BY DEF Violations
<1>3. ToolConflicts(plans) = {} /\ CrewOverlaps(plans) = {}
    BY <1>2
<1>4. QED
    BY <1>1, <1>3

(* A block ends with its shift, on the day it begins.                      *)
LEMMA OneDay ==
    ASSUME NEW plans, Workable(plans), OutsideShift(plans) = {}, NEW i \in DOMAIN plans,
           NEW t \in Nat, Working(plans[i], t)
    PROVE  DayOf(t) = DayOf(plans[i].from)
<1>1. ~(plans[i].to > Boundary(plans[i].from))
    BY DEF OutsideShift
<1>2. PICK f \in Nat, e \in Nat : f = plans[i].from /\ e = plans[i].to /\ f <= t /\ t < e
    BY BlocksAreOrdered DEF Working
<1>3. Boundary(f) \in Int
  <2>1. PICK s \in Nat \ {0} : s = ShiftMinutes
    BY DispatchAssumption
  <2>2. f \div s \in Int
    BY QuotientIs
  <2>3. PICK q \in Int : q = f \div s
    BY <2>2
  <2>4. (q + 1) * s \in Int
    OBVIOUS
  <2>5. QED
    BY <2>1, <2>3, <2>4 DEF Boundary
<1>4. t < Boundary(f)
    BY <1>1, <1>2, <1>3
<1>5. QED
    BY <1>2, <1>4, ShiftWithinDay

(* Its machine and its tool are there, and not stopped.                    *)
LEMMA NotDown ==
    ASSUME NEW plans, Workable(plans), DownTime(plans) = {}, NEW i \in DOMAIN plans,
           NEW t \in Nat, Working(plans[i], t)
    PROVE  /\ DayOf(plans[i].from) \notin MachineBlocked[plans[i].machine]
                                      \union ToolBlocked[plans[i].tool]
           /\ \A s \in MachineStops[plans[i].machine] \union ToolStops[plans[i].tool] :
                t < s[1] \/ s[2] <= t
<1>1. PICK f \in Nat, e \in Nat : f = plans[i].from /\ e = plans[i].to /\ f <= t /\ t < e
    BY BlocksAreOrdered DEF Working
<1>2. ASSUME NEW kind, NEW used, NEW blocked, NEW stops,
             stops[used[i]] \subseteq Nat \X Nat,
             Unavailable(plans, kind, used, blocked, stops) = {}
      PROVE  /\ DayOf(plans[i].from) \notin blocked[used[i]]
             /\ \A s \in stops[used[i]] : t < s[1] \/ s[2] <= t
  <2>1. (IF DayOf(plans[i].from) \in blocked[used[i]] THEN {<<kind, i>>}
         ELSE {<<kind, i, stop>> : stop \in {s \in stops[used[i]] : Stops(s, plans[i])}}) = {}
    BY <1>2 DEF Unavailable
  <2>2. DayOf(plans[i].from) \notin blocked[used[i]]
    BY <2>1
  <2>3. {<<kind, i, stop>> : stop \in {s \in stops[used[i]] : Stops(s, plans[i])}} = {}
    BY <2>1, <2>2
  <2>4. ASSUME NEW s \in stops[used[i]] PROVE t < s[1] \/ s[2] <= t
    <3>1. ~Stops(s, plans[i])
      BY <2>3
    <3>2. s[1] \in Nat /\ s[2] \in Nat
      BY <1>2
    <3>3. QED
      BY <1>1, <3>1, <3>2 DEF Stops
  <2>5. QED
    BY <2>2, <2>4
<1>3. plans[i].machine \in Machines /\ plans[i].tool \in DOMAIN Primary
    BY DEF Workable
<1>4. PICK used : used = [k \in DOMAIN plans |-> plans[k].machine]
    OBVIOUS
<1>5. /\ DayOf(plans[i].from) \notin MachineBlocked[plans[i].machine]
      /\ \A s \in MachineStops[plans[i].machine] : t < s[1] \/ s[2] <= t
  <2>1. used[i] = plans[i].machine
    BY <1>4
  <2>2. MachineStops[used[i]] \subseteq Nat \X Nat
    BY <1>3, <2>1, StopsAssumption
  <2>3. Unavailable(plans, "machine_down", used, MachineBlocked, MachineStops) = {}
    BY <1>4 DEF DownTime
  <2>4. QED
    BY <1>2, <2>1, <2>2, <2>3
<1>6. PICK held : held = [k \in DOMAIN plans |-> plans[k].tool]
    OBVIOUS
<1>7. /\ DayOf(plans[i].from) \notin ToolBlocked[plans[i].tool]
      /\ \A s \in ToolStops[plans[i].tool] : t < s[1] \/ s[2] <= t
  <2>1. held[i] = plans[i].tool
    BY <1>6
  <2>2. ToolStops[held[i]] \subseteq Nat \X Nat
    BY <1>3, <2>1, StopsAssumption
  <2>3. Unavailable(plans, "tool_down", held, ToolBlocked, ToolStops) = {}
    BY <1>6 DEF DownTime
  <2>4. QED
    BY <1>2, <2>1, <2>2, <2>3
<1>8. QED
    BY <1>5, <1>7

(* A crew makes one setup at a time.                                       *)
LEMMA CrewsAreFree ==
    ASSUME NEW plans, Workable(plans), CrewOverlaps(plans) = {},
           NEW i \in DOMAIN plans, NEW j \in DOMAIN plans, Ahead(plans, j, i),
           NEW t \in Nat, SettingUp(plans[i], t), SettingUp(plans[j], t)
    PROVE  Group[plans[i].machine] # Group[plans[j].machine]
<1>1. PICK f \in Nat, s \in Nat : f = plans[i].from /\ s = plans[i].setup /\ f <= t /\ t < f + s
    BY BlocksAreOrdered DEF SettingUp, SetupEnd
<1>2. PICK g \in Nat, u \in Nat : g = plans[j].from /\ u = plans[j].setup /\ g <= t /\ t < g + u
    BY BlocksAreOrdered DEF SettingUp, SetupEnd
<1>3. s > 0 /\ u > 0 /\ f < g + u
    BY <1>1, <1>2
<1>4. i \in SetupsOf(plans) /\ j \in SetupsOf(plans)
    BY <1>1, <1>2, <1>3 DEF SetupsOf
<1>5. i # j
    BY AheadIsTotal
<1>6. plans[i].from < SetupEnd(plans[j])
    BY <1>1, <1>2, <1>3 DEF SetupEnd
<1>7. QED
    BY <1>4, <1>5, <1>6 DEF CrewOverlaps

(* Two neighbours on a machine have the setup that is due in between.      *)
LEMMA ChangesAreSetUp ==
    ASSUME NEW plans, Workable(plans), MachineChanges(plans) = {},
           NEW p \in DOMAIN plans, NEW j \in DOMAIN plans, plans[p].machine = plans[j].machine,
           <<p, j>> \in Neighbours(plans, OnMachine(plans, plans[j].machine)),
           Mounts(plans[p]) # Mounts(plans[j])
    PROVE  plans[j].setup >= SetupMinutes[plans[j].tool]
<1>1. PICK s \in Nat, u \in Nat : s = plans[j].setup /\ u = SetupMinutes[plans[j].tool]
    BY BlocksAreOrdered, DispatchAssumption DEF Workable
<1>2. SUFFICES ASSUME Unprepared(plans[j]) PROVE FALSE
    BY <1>1 DEF Unprepared
<1>3. PICK e : e = <<p, j>>
    OBVIOUS
<1>4. e[1] = p /\ e[2] = j
    BY <1>3
<1>5. e \in {n \in Neighbours(plans, OnMachine(plans, plans[j].machine)) :
               Changes(plans[n[1]], plans[n[2]]) /\ Unprepared(plans[n[2]])}
    BY <1>2, <1>3, <1>4 DEF Changes
<1>6. plans[j].machine \in MachinesOf(plans)
    BY DEF MachinesOf
<1>7. <<"tool_change_setup", e[2]>> \in MachineChanges(plans)
    BY <1>5, <1>6 DEF MachineChanges
<1>8. QED
    BY <1>7

(* And two neighbours with a tool that it moved between.                   *)
LEMMA MovesAreSetUp ==
    ASSUME NEW plans, Workable(plans), ToolMoves(plans) = {},
           NEW p \in DOMAIN plans, NEW j \in DOMAIN plans,
           <<p, j>> \in Neighbours(plans, WithTool(plans, plans[j].tool)),
           plans[p].machine # plans[j].machine
    PROVE  plans[j].setup >= SetupMinutes[plans[j].tool]
<1>1. PICK s \in Nat, u \in Nat : s = plans[j].setup /\ u = SetupMinutes[plans[j].tool]
    BY BlocksAreOrdered, DispatchAssumption DEF Workable
<1>2. SUFFICES ASSUME Unprepared(plans[j]) PROVE FALSE
    BY <1>1 DEF Unprepared
<1>3. PICK e : e = <<p, j>>
    OBVIOUS
<1>4. e[1] = p /\ e[2] = j
    BY <1>3
<1>5. e \in {n \in Neighbours(plans, WithTool(plans, plans[j].tool)) :
               plans[n[1]].machine # plans[n[2]].machine /\ Unprepared(plans[n[2]])}
    BY <1>2, <1>3, <1>4
<1>6. plans[j].tool \in ToolsOf(plans)
    BY DEF ToolsOf
<1>7. <<"tool_change_setup", e[2]>> \in ToolMoves(plans)
    BY <1>5, <1>6 DEF ToolMoves
<1>8. QED
    BY <1>7

(* One adjustment is of one tool.                                          *)
LEMMA MountsAre ==
    ASSUME NEW b, NEW c, Mounts(b) = Mounts(c)
    PROVE  b.tool = c.tool
BY DEF Mounts

(* What produces is mounted: the first block of its adjustment since that  *)
(* was last broken made the setup.                                         *)
LEMMA ProducesMounted ==
    ASSUME NEW plans, Workable(plans),
           MachineOverlaps(plans) = {}, ToolConflicts(plans) = {},
           MachineChanges(plans) = {}, ToolMoves(plans) = {},
           NEW i \in DOMAIN plans, NEW t \in Nat, Producing(plans[i], t)
    PROVE  Mounted(plans, plans[i], t)
<1> DEFINE B == Unmounting(plans, plans[i], t)
           Ends == {plans[k].to : k \in B}
<1>1. PICK f \in Nat, s \in Nat, e \in Nat :
        /\ f = plans[i].from /\ s = plans[i].setup /\ e = plans[i].to
        /\ f + s < e /\ f + s <= t /\ t < e /\ f <= t
    BY BlocksAreOrdered DEF Producing, SetupEnd
<1>2. SUFFICES ASSUME B # {} PROVE Mounted(plans, plans[i], t)
    BY DEF Mounted
<1>3. B \in SUBSET DOMAIN plans /\ IsFiniteSet(B)
    BY BlocksAreOrdered, FS_Subset DEF Unmounting
<1>4. Ends # {} /\ Ends \subseteq Nat /\ Ends \subseteq Int /\ IsFiniteSet(Ends)
  <2>1. [k \in B |-> plans[k].to] \in Surjection(B, Ends)
    BY DEF Surjection
  <2>2. IsFiniteSet(Ends)
    BY <1>3, <2>1, FS_Surjection
  <2>3. \A k \in B : plans[k].to \in Nat
    BY <1>3, BlocksAreOrdered
  <2>4. QED
    BY <1>2, <2>2, <2>3
<1>5. PICK since \in Nat : since = Max(Ends) /\ since \in Ends /\ \A k \in B : plans[k].to <= since
  <2>1. Max(Ends) \in Ends /\ \A y \in Ends : Max(Ends) >= y
    BY <1>4, MaxIs
  <2>2. \A k \in B : plans[k].to \in Ends /\ plans[k].to \in Int
    BY <1>4
  <2>3. QED
    BY <1>4, <2>1, <2>2
<1>6. PICK q \in B : plans[q].to = since
    BY <1>5
<1>7. q \in DOMAIN plans /\ plans[q].from < t
      /\ \/ plans[q].machine = plans[i].machine /\ Mounts(plans[q]) # Mounts(plans[i])
         \/ plans[q].machine # plans[i].machine /\ plans[q].tool = plans[i].tool
    BY <1>6 DEF Unmounting
<1>8. since <= f
  <2>1. q # i
    BY <1>7
  <2>2. CASE Ahead(plans, q, i)
    <3>1. plans[q].to <= plans[i].from
      BY <1>7, <2>2, MachineOnce, ToolOnceOnly
    <3>2. QED
      BY <1>1, <1>6, <3>1
  <2>3. CASE Ahead(plans, i, q)
    <3>1. plans[i].to <= plans[q].from
      BY <1>7, <2>3, MachineOnce, ToolOnceOnly
    <3>2. plans[q].from \in Nat
      BY <1>7, BlocksAreOrdered
    <3>3. QED
      BY <1>1, <1>7, <3>1, <3>2
  <2>4. QED
    BY <1>7, <2>1, <2>2, <2>3, AheadIsTotal
<1> DEFINE C == {k \in DOMAIN plans : /\ plans[k].machine = plans[i].machine
                                      /\ Mounts(plans[k]) = Mounts(plans[i])
                                      /\ plans[k].from >= since}
<1>9. i \in C /\ C \in SUBSET DOMAIN plans
    BY <1>1, <1>5, <1>8
<1>10. PICK j \in C : \A k \in C : k # j => Ahead(plans, j, k)
    BY <1>9, SomeBlocksHaveEnds
<1>11. j \in DOMAIN plans /\ plans[j].machine = plans[i].machine
       /\ Mounts(plans[j]) = Mounts(plans[i]) /\ plans[j].from >= since
    OBVIOUS
<1>12. PICK jf \in Nat, js \in Nat, je \in Nat :
         jf = plans[j].from /\ js = plans[j].setup /\ je = plans[j].to /\ jf + js < je
    BY <1>11, BlocksAreOrdered
<1>13. jf <= t /\ SetupEnd(plans[j]) <= t
  <2>1. CASE i = j
    BY <1>1, <1>12, <2>1 DEF SetupEnd
  <2>2. CASE i # j
    <3>1. Ahead(plans, j, i)
      BY <1>9, <1>10, <2>2
    <3>2. plans[j].to <= plans[i].from
      BY <1>11, <3>1, MachineOnce
    <3>3. QED
      BY <1>1, <1>12, <3>2 DEF SetupEnd
  <2>3. QED
    BY <2>1, <2>2
<1>14. plans[j].tool = plans[i].tool
    BY <1>11, MountsAre
<1>15. Ahead(plans, q, j)
  <2>1. PICK qf \in Nat : qf = plans[q].from /\ qf < since
    BY <1>6, <1>7, BlocksAreOrdered
  <2>2. QED
    BY <1>5, <1>7, <1>11, <1>12, <2>1, AheadIsTotal
<1>16. \A p \in DOMAIN plans :
         /\ Ahead(plans, p, j)
         /\ plans[p].from >= since
         => ~(plans[p].machine = plans[i].machine /\ Mounts(plans[p]) = Mounts(plans[i]))
  <2>1. SUFFICES ASSUME NEW p \in DOMAIN plans, Ahead(plans, p, j), plans[p].from >= since,
                        plans[p].machine = plans[i].machine, Mounts(plans[p]) = Mounts(plans[i])
                 PROVE FALSE
    OBVIOUS
  <2>2. p \in C
    BY <2>1
  <2>3. p # j /\ ~Ahead(plans, j, p)
    BY <1>11, <2>1, AheadIsTotal
  <2>4. QED
    BY <1>10, <2>2, <2>3
<1>17. plans[j].setup >= SetupMinutes[plans[j].tool]
  <2>1. CASE plans[q].machine = plans[i].machine
    <3>1. PICK S : S = OnMachine(plans, plans[j].machine)
      OBVIOUS
    <3>2. S \in SUBSET DOMAIN plans /\ q \in S /\ j \in S
          /\ \A k \in S : plans[k].machine = plans[j].machine
      BY <1>7, <1>11, <2>1, <3>1 DEF OnMachine
    <3>3. PICK p \in S : <<p, j>> \in Neighbours(plans, S) /\ Ahead(plans, p, j)
                         /\ (q = p \/ Ahead(plans, q, p))
      BY <1>15, <3>2, NeighbourAhead
    <3>4. p \in DOMAIN plans /\ plans[p].machine = plans[i].machine
      BY <1>11, <3>2
    <3>5. Mounts(plans[p]) # Mounts(plans[j])
      <4>1. CASE q = p
        BY <1>7, <1>11, <2>1, <4>1
      <4>2. CASE Ahead(plans, q, p)
        <5>1. plans[q].to <= plans[p].from
          BY <1>7, <2>1, <3>4, <4>2, MachineOnce
        <5>2. plans[p].from >= since
          BY <1>5, <1>6, <3>4, <5>1, BlocksAreOrdered
        <5>3. QED
          BY <1>11, <1>16, <3>3, <3>4, <5>2
      <4>3. QED
        BY <3>3, <4>1, <4>2
    <3>6. QED
      BY <1>11, <3>1, <3>2, <3>3, <3>4, <3>5, ChangesAreSetUp
  <2>2. CASE plans[q].machine # plans[i].machine
    <3>1. PICK S : S = WithTool(plans, plans[j].tool)
      OBVIOUS
    <3>2. S \in SUBSET DOMAIN plans /\ q \in S /\ j \in S
          /\ \A k \in S : plans[k].tool = plans[j].tool
      BY <1>7, <1>11, <1>14, <2>2, <3>1 DEF WithTool
    <3>3. PICK p \in S : <<p, j>> \in Neighbours(plans, S) /\ Ahead(plans, p, j)
                         /\ (q = p \/ Ahead(plans, q, p))
      BY <1>15, <3>2, NeighbourAhead
    <3>4. p \in DOMAIN plans /\ plans[p].tool = plans[j].tool
      BY <3>2
    <3>5. plans[p].machine # plans[j].machine
      <4>1. SUFFICES ASSUME plans[p].machine = plans[j].machine PROVE FALSE
        OBVIOUS
      <4>2. q # p
        BY <1>11, <2>2, <4>1
      <4>3. plans[q].to <= plans[p].from
        BY <1>7, <1>14, <2>2, <3>3, <3>4, <4>2, ToolOnceOnly
      <4>4. PICK pf \in Nat, pe \in Nat : pf = plans[p].from /\ pe = plans[p].to /\ pf < pe
        BY <3>4, BlocksAreOrdered
      <4>5. pf >= since
        BY <1>5, <1>6, <4>3, <4>4
      <4>6. Mounts(plans[p]) # Mounts(plans[i])
        BY <1>11, <1>16, <3>3, <3>4, <4>1, <4>4, <4>5
      <4>7. plans[p].to <= plans[j].from
        BY <1>11, <3>3, <3>4, <4>1, MachineOnce
      <4>8. pf < t
        BY <1>12, <1>13, <4>4, <4>7
      <4>9. p \in B
        BY <1>11, <3>4, <4>1, <4>4, <4>6, <4>8 DEF Unmounting
      <4>10. pe <= since
        BY <1>5, <4>4, <4>9
      <4>11. QED
        BY <1>5, <4>4, <4>5, <4>10
    <3>6. QED
      BY <1>11, <3>1, <3>3, <3>4, <3>5, MovesAreSetUp
  <2>3. QED
    BY <2>1, <2>2
<1>18. QED
    BY <1>5, <1>11, <1>13, <1>14, <1>17 DEF Mounted

(* What the validation passes can be carried out.                          *)
LEMMA PassedCanBeCarriedOut ==
    ASSUME NEW plans, Workable(plans), Violations(plans) = {}
    PROVE  CanBeCarriedOut(plans)
<1>1. /\ OutsideShift(plans) = {} /\ DownTime(plans) = {} /\ MachineOverlaps(plans) = {}
      /\ MachineChanges(plans) = {} /\ ToolMoves(plans) = {} /\ ToolConflicts(plans) = {}
      /\ CrewOverlaps(plans) = {}
    BY NothingFound
<1>2. SUFFICES ASSUME NEW t \in UNION {plans[i].from..(plans[i].to - 1) : i \in DOMAIN plans}
               PROVE
      LET now == {i \in DOMAIN plans : Working(plans[i], t)}
      IN /\ \A i, j \in now : i # j => /\ plans[i].machine # plans[j].machine
                                       /\ plans[i].tool # plans[j].tool
         /\ \A i, j \in {k \in now : SettingUp(plans[k], t)} :
              i # j => Group[plans[i].machine] # Group[plans[j].machine]
         /\ \A i \in now :
              /\ DayOf(t) \notin Holidays \union MachineBlocked[plans[i].machine]
                                   \union ToolBlocked[plans[i].tool]
              /\ \A s \in MachineStops[plans[i].machine] \union ToolStops[plans[i].tool] :
                   t < s[1] \/ s[2] <= t
              /\ Producing(plans[i], t) => Mounted(plans, plans[i], t)
    BY DEF CanBeCarriedOut
<1>3. t \in Nat
  <2>1. PICK k \in DOMAIN plans : t \in plans[k].from..(plans[k].to - 1)
    BY <1>2
  <2>2. PICK f \in Nat, e \in Nat : f = plans[k].from /\ e = plans[k].to
    BY BlocksAreOrdered
  <2>3. t \in f..(e - 1)
    BY <2>1, <2>2
  <2>4. QED
    BY <2>2, <2>3
<1> DEFINE now == {i \in DOMAIN plans : Working(plans[i], t)}
<1>4. ASSUME NEW i \in now, NEW j \in now, Ahead(plans, i, j)
      PROVE  plans[i].machine # plans[j].machine /\ plans[i].tool # plans[j].tool
  <2>1. plans[i].from \in Nat /\ plans[i].to \in Nat /\ plans[j].from \in Nat /\ plans[j].to \in Nat
    BY BlocksAreOrdered
  <2>2. plans[j].from <= t /\ t < plans[i].to
    BY DEF Working
  <2>3. ~(plans[i].to <= plans[j].from)
    BY <1>3, <2>1, <2>2
  <2>4. QED
    BY <1>1, <1>4, <2>3, MachineOnce, ToolOnceOnly
<1>5. ASSUME NEW i \in now, NEW j \in now, i # j
      PROVE  /\ plans[i].machine # plans[j].machine /\ plans[i].tool # plans[j].tool
             /\ SettingUp(plans[i], t) /\ SettingUp(plans[j], t)
                => Group[plans[i].machine] # Group[plans[j].machine]
  <2>1. Ahead(plans, i, j) \/ Ahead(plans, j, i)
    BY <1>5, AheadIsTotal
  <2>2. CASE Ahead(plans, i, j)
    BY <1>1, <1>3, <1>4, <2>2, CrewsAreFree
  <2>3. CASE Ahead(plans, j, i)
    BY <1>1, <1>3, <1>4, <2>3, CrewsAreFree
  <2>4. QED
    BY <2>1, <2>2, <2>3
<1>6. ASSUME NEW i \in now
      PROVE  /\ DayOf(t) \notin Holidays \union MachineBlocked[plans[i].machine]
                                  \union ToolBlocked[plans[i].tool]
             /\ \A s \in MachineStops[plans[i].machine] \union ToolStops[plans[i].tool] :
                  t < s[1] \/ s[2] <= t
             /\ Producing(plans[i], t) => Mounted(plans, plans[i], t)
  <2>1. DayOf(t) = DayOf(plans[i].from)
    BY <1>1, <1>3, OneDay
  <2>2. DayOf(plans[i].from) \notin Holidays
    BY DEF Workable, DayOf
  <2>3. QED
    BY <1>1, <1>3, <2>1, <2>2, NotDown, ProducesMounted
<1>7. QED
    BY <1>5, <1>6

(* A plan the validator (scheduler/validation.py) finds nothing wrong with *)
(* can be carried out minute by minute: no machine, tool or crew is needed *)
(* twice, nothing works where it is closed or stopped, and each block      *)
(* produces with its own tool mounted and adjusted.  This holds of any     *)
(* plan whose blocks produce for some time, on workdays.                   *)
THEOREM ValidationSuffices ==
    ASSUME NEW p, Workable(p), Violations(p) = {}
    PROVE  CanBeCarriedOut(p)
BY PassedCanBeCarriedOut

(* So that it is sound in the pipeline wherever the repairs conserve the   *)
(* work, as they do in the checked instances.                              *)
THEOREM ValidPlansCanBeCarriedOut ==
    PlanningSpec /\ []WorkIsConserved => []ValidatorIsSound
<1>1. WorkIsConserved => ValidatorIsSound
    BY ValidationSuffices DEF WorkIsConserved, ValidatorIsSound
<1>2. QED
    BY <1>1, PTL

-----------------------------------------------------------------------------
(* The optimizer.                                                          *)

USE PlansAssumption, ToleranceAssumption

(* The phases before the optimizer leave its variables alone; with nothing *)
(* to plan the empty plan is returned at once.                             *)
Earlier ==
    /\ ~Optimizing /\ ~Optimizing'
    /\ outcome' \in {outcome, "returned"}
    /\ UNCHANGED <<clock, cycleVars, mode, improve, cancelled, draft, base, choiceVars, result>>

-----------------------------------------------------------------------------
(* The improvement cycle.                                                  *)

(* A plan no worse than the one the cycle started from: valid, or that     *)
(* plan, with no later delivery, no later order and no drift.              *)
Lossless(p) ==
    /\ p \in Plans
    /\ p = reference \/ p.valid
    /\ Delivery(p) <= Delivery(reference)
    /\ NoLoss(p, reference) /\ ~Drifts(p, reference)

(* What the cycle took and what it settled.                                *)
CycleSound ==
    cycle # "idle" => reference \in Plans /\ Lossless(current) /\ Lossless(settled)

(* The lateness of a plan is a sum of naturals.                            *)
LEMMA DeliveryIsNat ==
    ASSUME NEW p \in Plans
    PROVE  Delivery(p) \in Nat
<1>1. Delivery(p) = SumOver(p.late, DOMAIN p.late)
    BY DEF Delivery, SumOver
<1>2. QED
    BY <1>1, SumIsNat

(* A plan does not lose against itself.                                    *)
LEMMA LosslessFromItself ==
    ASSUME NEW p \in Plans
    PROVE  NoLoss(p, p) /\ ~Drifts(p, p)
<1>1. NoLoss(p, p)
    BY DEF NoLoss
<1>2. \A i \in DOMAIN p.start : ~(p.start[i] - p.start[i] >= Tolerance)
    OBVIOUS
<1>3. {i \in DOMAIN p.start : p.start[i] - p.start[i] >= Tolerance
                              \/ p.start[i] - p.start[i] >= Tolerance} = {}
    BY <1>2
<1>4. Compare(p, p) = 0
    BY <1>3 DEF Compare
<1>5. QED
    BY <1>1, <1>4 DEF Drifts

(* A better plan is not later.                                             *)
LEMMA BetterDelivers ==
    ASSUME NEW p \in Plans, NEW q \in Plans, Better(p, q)
    PROVE  Delivery(p) <= Delivery(q)
<1>1. Delivery(p) \in Nat /\ Delivery(q) \in Nat
    BY DeliveryIsNat
<1>2. Delivery(p) < Delivery(q) \/ Delivery(p) = Delivery(q)
    BY DEF Better
<1>3. QED
    BY <1>1, <1>2

(* What is admitted loses nothing against the reference.                   *)
LEMMA AdmissibleIsLossless ==
    ASSUME CycleSound, cycle # "idle", NEW p \in Plans, Admissible(p)
    PROVE  Lossless(p)
<1>1. reference \in Plans /\ current \in Plans /\ Delivery(current) <= Delivery(reference)
    BY DEF CycleSound, Lossless
<1>2. Delivery(p) <= Delivery(current)
    BY <1>1, BetterDelivers DEF Admissible
<1>3. Delivery(p) <= Delivery(reference)
    BY <1>1, <1>2, DeliveryIsNat
<1>4. QED
    BY <1>3 DEF Admissible, Lossless

(* A step of the cycle.                                                    *)
LEMMA CycleStep ==
    ASSUME CycleSound, CycleNext
    PROVE  CycleSound' /\ cycle' # "idle" /\ reference' = reference
<1>1. /\ cycle \in {"propose", "compact"} /\ cycle' \in {"propose", "compact", "ended"}
      /\ reference' = reference
    BY DEF CycleNext, ProposalAccepted, ProposalRejected, Compacted, CycleEnds
<1>2. reference \in Plans /\ Lossless(current) /\ Lossless(settled)
    BY <1>1 DEF CycleSound
<1>3. current' \in {current, settled} \/ (current' \in Plans /\ Admissible(current'))
    BY DEF CycleNext, ProposalAccepted, ProposalRejected, Compacted, CycleEnds
<1>4. settled' \in {settled, current'}
    BY DEF CycleNext, ProposalAccepted, ProposalRejected, Compacted, CycleEnds
<1>5. \A p : Lossless(p)' <=> Lossless(p)
    BY <1>1 DEF Lossless
<1>6. Lossless(current')
    BY <1>1, <1>2, <1>3, AdmissibleIsLossless
<1>7. Lossless(settled')
    BY <1>2, <1>4, <1>6
<1>8. QED
    BY <1>1, <1>2, <1>5, <1>6, <1>7 DEF CycleSound

-----------------------------------------------------------------------------
(* The trust loop.                                                         *)

(* A plan that may be returned.                                            *)
Trustworthy(p) == p \in Plans /\ p.valid /\ Delivery(p) <= Delivery(base)

(* Its stages: the search, what comes after, what comes before a baseline. *)
Searched == stage \in {"search", "polish", "normalize", "revert", "leave"}
HandedOver == stage \in {"handed", "improving"}
NotBuilt == ~Optimizing \/ stage \in {"alternative", "tail", "exchange", "audit"}

(* There is no baseline until it is audited.                               *)
Unbuilt == NotBuilt => base = NoPlan /\ (stage = "audit" => draft \in Plans)

(* In the search the baseline, the best plan and the observer's copy may   *)
(* be returned; what the normalizer leaves need not.                       *)
SearchSound ==
    stage = "decide" \/ Searched =>
        /\ Trustworthy(base) /\ Trustworthy(kept)
        /\ best \in Plans /\ trusted \in Plans \cup {NoPlan}
        /\ stage # "revert" => Trustworthy(best)

(* What was handed over may be returned; the cycle works from it.          *)
HandedSound ==
    HandedOver =>
        /\ Trustworthy(base) /\ Trustworthy(result)
        /\ stage = "improving" => cycle # "idle" /\ Trustworthy(reference)

(* What is returned was handed over.                                       *)
Returned == outcome = "returned" => ~Optimizing \/ stage = "handed"

(* A candidate is announced where the best plan may be returned.           *)
Announced == announcing => stage \in {"search", "normalize", "leave"}

(* The inductive invariant of the optimizer.                               *)
Optimized == Unbuilt /\ SearchSound /\ HandedSound /\ Returned /\ CycleSound /\ Announced

(* The stages of the optimizer, together.                                  *)
LEMMA Stages ==
    /\ Optimizing <=> \/ stage \in {"alternative", "tail", "exchange", "audit", "decide"}
                      \/ Searched \/ HandedOver
BY DEF Optimizing, Searched, HandedOver

(* It holds before the optimizer begins.                                   *)
LEMMA InitOptimized == OptimizerInit /\ ~Optimizing => Optimized
BY DEF OptimizerInit, CycleInit, Optimized, Unbuilt, SearchSound, HandedSound, Returned, Announced,
       CycleSound, Optimizing, Searched, HandedOver

(* What leaves the cycle alone keeps it sound.                             *)
LEMMA CycleRests ==
    ASSUME CycleSound, UNCHANGED cycleVars
    PROVE  CycleSound'
BY DEF CycleSound, Lossless, cycleVars

(* A valid plan that is no later than a trustworthy one is trustworthy.    *)
LEMMA TrustworthyFrom ==
    ASSUME NEW p \in Plans, NEW q, Trustworthy(q), base \in Plans, p.valid,
           Delivery(p) <= Delivery(q)
    PROVE  Trustworthy(p)
BY DeliveryIsNat DEF Trustworthy

(* Construction, the repairs and the audit.                                *)
LEMMA ConstructionStep ==
    ASSUME Optimized,
           Construct \/ (\E i \in 1..3 : Repair(i)) \/ Audited \/ Invalid \/ Earlier
    PROVE  Optimized'
<1>1. CASE Construct
    <2>1. /\ stage = "laid" /\ stage' = "alternative" /\ draft' \in Plans
          /\ UNCHANGED <<base, cycleVars, outcome, announcing>>
        BY <1>1 DEF Construct, Repairs, choiceVars
    <2>2. outcome # "returned"
        BY <1>1 DEF Construct, Live
    <2>3. QED
        BY <2>1, <2>2, CycleRests DEF Optimized, Unbuilt, SearchSound, HandedSound, Returned, Announced,
           NotBuilt, Optimizing, Searched, HandedOver
<1>2. ASSUME NEW i \in 1..3, Repair(i)
      PROVE  Optimized'
    <2>1. /\ stage \in {"alternative", "tail", "exchange"} /\ stage' \in {"tail", "exchange", "audit"}
          /\ draft' \in Plans /\ UNCHANGED <<base, cycleVars, outcome, announcing>> /\ outcome # "returned"
        BY <1>2 DEF Repair, Repairs, Live, choiceVars
    <2>2. QED
        BY <2>1, CycleRests DEF Optimized, Unbuilt, SearchSound, HandedSound, Returned, Announced,
           NotBuilt, Optimizing, Searched, HandedOver
<1>3. CASE Audited
    <2>1. /\ stage = "audit" /\ stage' = "decide" /\ draft.valid
          /\ base' = draft /\ best' = draft /\ kept' = draft /\ trusted' \in {draft, NoPlan}
          /\ UNCHANGED <<cycleVars, outcome, announcing>> /\ outcome # "returned"
        BY <1>3 DEF Audited, Live
    <2> PICK d : d = draft
        OBVIOUS
    <2>2. d \in Plans
        BY <2>1 DEF Optimized, Unbuilt, NotBuilt, Optimizing
    <2>3. Delivery(d) <= Delivery(d)
        BY <2>2, DeliveryIsNat
    <2>4. base' = d /\ Trustworthy(d)'
        BY <2>1, <2>2, <2>3 DEF Trustworthy
    <2>5. /\ Trustworthy(base)' /\ Trustworthy(kept)' /\ Trustworthy(best)'
          /\ best' \in Plans /\ trusted' \in Plans \cup {NoPlan}
        BY <2>1, <2>2, <2>4
    <2>6. QED
        BY <2>1, <2>5, CycleRests DEF Optimized, Unbuilt, SearchSound, HandedSound, Returned, Announced,
           NotBuilt, Optimizing, Searched, HandedOver
<1>4. CASE Invalid
    <2>1. /\ stage = "audit" /\ outcome' = "invalid" /\ UNCHANGED <<stage, base, draft, cycleVars, announcing>>
        BY <1>4 DEF Invalid, choiceVars
    <2>2. QED
        BY <2>1, CycleRests DEF Optimized, Unbuilt, SearchSound, HandedSound, Returned, Announced,
           NotBuilt, Optimizing, Searched, HandedOver
<1>5. CASE Earlier
    <2>1. ~Optimizing /\ ~Optimizing' /\ UNCHANGED <<base, draft, cycleVars, announcing>>
        BY <1>5 DEF Earlier, choiceVars
    <2>2. QED
        BY <2>1, CycleRests DEF Optimized, Unbuilt, SearchSound, HandedSound, Returned, Announced,
           NotBuilt, Optimizing, Searched, HandedOver
<1>6. QED
    BY <1>1, <1>2, <1>3, <1>4, <1>5

(* The plan that is handed over.                                           *)
LEMMA HandEffect ==
    ASSUME Optimized, stage = "decide" \/ Searched, outcome # "returned",
           NEW p, Trustworthy(p), Hand(p)
    PROVE  Optimized'
<1>1. /\ result' = p /\ stage' = "handed" /\ announcing' = FALSE
      /\ UNCHANGED <<base, draft, outcome, cycleVars>>
    BY DEF Hand
<1>2. Trustworthy(base)' /\ Trustworthy(result)'
    BY <1>1 DEF Optimized, SearchSound, Trustworthy
<1>3. QED
    BY <1>1, <1>2, CycleRests DEF Optimized, Unbuilt, SearchSound, HandedSound, Returned, Announced,
       NotBuilt, Optimizing, Searched, HandedOver

(* A step inside the search.                                               *)
LEMMA InSearch ==
    ASSUME Optimized, stage = "decide" \/ Searched, Searched', outcome' # "returned",
           UNCHANGED <<base, cycleVars>>, kept' \in {kept, best}, kept' = kept \/ Trustworthy(best),
           best' \in Plans, trusted' \in Plans \cup {NoPlan},
           stage' # "revert" => Trustworthy(best'), Announced'
    PROVE  Optimized'
<1>1. Trustworthy(base) /\ Trustworthy(kept)
    BY DEF Optimized, SearchSound
<1>2. Trustworthy(base)' /\ Trustworthy(kept)' /\ (stage' # "revert" => Trustworthy(best)')
    BY <1>1 DEF Trustworthy
<1>3. QED
    BY <1>2, CycleRests DEF Optimized, Unbuilt, SearchSound, HandedSound, Returned, Announced,
       NotBuilt, Optimizing, Searched, HandedOver

(* The chain of reverts ends at the baseline.                              *)
LEMMA RevertedDelivers ==
    ASSUME Optimized, stage = "revert"
    PROVE  Reverted \in Plans /\ Delivery(Reverted) <= Delivery(base)
<1>1. Trustworthy(base) /\ best \in Plans /\ trusted \in Plans \cup {NoPlan}
    BY DEF Optimized, SearchSound, Searched
<1>2. base \in Plans /\ Delivery(base) <= Delivery(base)
    BY <1>1, DeliveryIsNat DEF Trustworthy
<1>3. QED
    BY <1>1, <1>2 DEF Reverted, Preserves

(* A step of the search, up to the plan that is handed over.               *)
LEMMA SearchStep ==
    ASSUME Optimized,
           \/ SkipSearch \/ StartSearch \/ TryCandidate \/ Retain \/ EndSearch
           \/ Polish \/ Normalize \/ Revert \/ LeaveSearch \/ KeepComplete
    PROVE  Optimized'
<1> USE DEF Searched, Announced
<1>1. /\ stage = "decide" \/ Searched
      /\ outcome = "running"
    BY DEF Optimized, SkipSearch, StartSearch, TryCandidate, Retain, EndSearch, Polish, Normalize,
           Revert, LeaveSearch, KeepComplete, Live
<1>2. /\ Trustworthy(base) /\ Trustworthy(kept)
      /\ best \in Plans /\ trusted \in Plans \cup {NoPlan}
      /\ stage # "revert" => Trustworthy(best)
      /\ base \in Plans
    BY <1>1 DEF Optimized, SearchSound, Trustworthy
<1>3. CASE SkipSearch
    <2>1. Hand(IF mode = "quick" THEN base ELSE kept)
        BY <1>3 DEF SkipSearch
    <2> PICK p : p = IF mode = "quick" THEN base ELSE kept
        OBVIOUS
    <2>2. Hand(p) /\ Trustworthy(p)
        BY <1>2, <2>1
    <2>3. QED
        BY <1>1, <2>2, HandEffect
<1>4. CASE StartSearch
    <2>1. /\ stage = "decide" /\ stage' = "search"
          /\ UNCHANGED <<base, cycleVars, kept, best, trusted, outcome, announcing>>
        BY <1>4 DEF StartSearch, optimizerVars, choiceVars
    <2>2. QED
        BY <1>1, <1>2, <2>1, InSearch
<1>5. CASE TryCandidate
    <2>1. /\ stage = "search" /\ UNCHANGED <<stage, base, cycleVars, trusted, kept, outcome>>
          /\ \/ best' \in Plans /\ best'.valid /\ Preserves(best', base)
             \/ UNCHANGED best
        BY <1>5 DEF TryCandidate
    <2>2. Trustworthy(best')
        BY <1>2, <2>1 DEF Trustworthy, Preserves
    <2>3. best' \in Plans
        BY <2>2 DEF Trustworthy
    <2>4. QED
        BY <1>1, <1>2, <2>1, <2>2, <2>3, InSearch
<1>6. CASE Retain
    <2>1. /\ announcing /\ kept' \in {kept, best} /\ announcing' = FALSE
          /\ UNCHANGED <<stage, base, cycleVars, best, trusted, outcome>>
        BY <1>6 DEF Retain
    <2>2. Searched /\ stage # "revert"
        BY <2>1 DEF Optimized
    <2>3. QED
        BY <1>1, <1>2, <2>1, <2>2, InSearch
<1>7. CASE EndSearch
    <2>1. /\ stage = "search" /\ stage' = "polish" /\ trusted' \in {trusted, best} /\ ~announcing
          /\ UNCHANGED <<base, cycleVars, kept, best, outcome, announcing>>
        BY <1>7 DEF EndSearch
    <2>2. QED
        BY <1>1, <1>2, <2>1, InSearch
<1>8. CASE Polish
    <2>1. /\ stage = "polish" /\ stage' = "normalize"
          /\ UNCHANGED <<base, cycleVars, kept, outcome>>
          /\ \/ best' \in Plans /\ best'.valid /\ Preserves(best', best) /\ trusted' \in {trusted, best'}
             \/ UNCHANGED <<best, trusted>>
        BY <1>8 DEF Polish, BetterCandidate
    <2>2. Trustworthy(best')
        BY <1>2, <2>1, TrustworthyFrom DEF Preserves
    <2>3. best' \in Plans
        BY <2>2 DEF Trustworthy
    <2>4. QED
        BY <1>1, <1>2, <2>1, <2>2, <2>3, InSearch
<1>9. CASE Normalize
    <2>1. /\ stage = "normalize" /\ stage' = "revert" /\ ~announcing
          /\ best' \in Plans /\ trusted' \in {trusted, best'}
          /\ UNCHANGED <<base, cycleVars, kept, outcome, announcing>>
        BY <1>9 DEF Normalize
    <2>2. QED
        BY <1>1, <1>2, <2>1, InSearch
<1>10. CASE Revert
    <2>1. /\ stage = "revert" /\ best' = Reverted
          /\ UNCHANGED <<base, cycleVars, kept, trusted>>
          /\ \/ Reverted.valid /\ stage' = "leave" /\ outcome' = outcome
             \/ stage' = stage /\ outcome' = "invalid" /\ announcing' = announcing
        BY <1>10 DEF Revert
    <2>2. best' \in Plans /\ (stage' # "revert" => Trustworthy(best'))
        BY <2>1, RevertedDelivers DEF Trustworthy
    <2>3. Announced'
        BY <2>1 DEF Optimized
    <2>4. QED
        BY <1>1, <1>2, <2>1, <2>2, <2>3, InSearch
<1>11. CASE LeaveSearch
    <2>1. Hand(best) /\ Trustworthy(best)
        BY <1>2, <1>11 DEF LeaveSearch
    <2>2. QED
        BY <1>1, <2>1, HandEffect
<1>12. CASE KeepComplete
    <2>1. Hand(kept)
        BY <1>12 DEF KeepComplete
    <2>2. QED
        BY <1>1, <1>2, <2>1, HandEffect
<1>13. QED
    BY <1>3, <1>4, <1>5, <1>6, <1>7, <1>8, <1>9, <1>10, <1>11, <1>12

(* The improvement of what was handed over.                                *)
LEMMA ImprovementStep ==
    ASSUME Optimized, StartImprovement \/ ImproveStep \/ TakeImproved \/ Return
    PROVE  Optimized'
<1> USE DEF HandedOver
<1>1. CASE StartImprovement
    <2>1. /\ stage = "handed" /\ stage' = "improving" /\ cycle' = "propose"
          /\ reference' = result /\ current' = result /\ settled' = result
          /\ UNCHANGED <<base, draft, result, outcome, announcing>>
          /\ outcome = "running"
        BY <1>1 DEF StartImprovement, Improve, choiceVars, Live
    <2>2. Trustworthy(base) /\ Trustworthy(result)
        BY <2>1 DEF Optimized, HandedSound
    <2> PICK r : r = result
        OBVIOUS
    <2>3. r \in Plans /\ Delivery(r) <= Delivery(r)
        BY <2>2, DeliveryIsNat DEF Trustworthy
    <2>4. NoLoss(r, r) /\ ~Drifts(r, r)
        BY <2>3, LosslessFromItself
    <2>5. reference' = r /\ current' = r /\ settled' = r /\ Lossless(r)'
        BY <2>1, <2>3, <2>4 DEF Lossless
    <2>6. CycleSound'
        BY <2>3, <2>5 DEF CycleSound
    <2>7. Trustworthy(base)' /\ Trustworthy(result)' /\ Trustworthy(reference)'
        BY <2>1, <2>2 DEF Trustworthy
    <2>8. QED
        BY <2>1, <2>6, <2>7 DEF Optimized, Unbuilt, SearchSound, HandedSound, Returned, Announced,
           NotBuilt, Optimizing, Searched
<1>2. CASE ImproveStep
    <2>1. /\ stage = "improving" /\ CycleNext /\ outcome = "running"
          /\ UNCHANGED <<stage, base, draft, result, outcome, announcing>>
        BY <1>2 DEF ImproveStep, choiceVars
    <2>2. CycleSound' /\ cycle' # "idle" /\ reference' = reference
        BY <2>1, CycleStep DEF Optimized
    <2>3. Trustworthy(base) /\ Trustworthy(result) /\ Trustworthy(reference)
        BY <2>1 DEF Optimized, HandedSound
    <2>4. Trustworthy(base)' /\ Trustworthy(result)' /\ Trustworthy(reference)'
        BY <2>1, <2>2, <2>3 DEF Trustworthy
    <2>5. QED
        BY <2>1, <2>2, <2>4 DEF Optimized, Unbuilt, SearchSound, HandedSound, Returned, Announced,
           NotBuilt, Optimizing, Searched
<1>3. CASE TakeImproved
    <2>1. /\ stage = "improving" /\ stage' = "handed" /\ result' = current /\ outcome = "running"
          /\ UNCHANGED <<base, draft, cycleVars, outcome, announcing>>
        BY <1>3 DEF TakeImproved, choiceVars, Live
    <2>2. /\ Trustworthy(base) /\ Trustworthy(reference) /\ base \in Plans
          /\ Lossless(current)
        BY <2>1 DEF Optimized, HandedSound, CycleSound, Trustworthy
    <2>3. current \in Plans /\ current.valid /\ Delivery(current) <= Delivery(reference)
        BY <2>2 DEF Lossless, Trustworthy
    <2>4. Trustworthy(current)
        BY <2>2, <2>3, TrustworthyFrom
    <2>5. Trustworthy(base)' /\ Trustworthy(result)'
        BY <2>1, <2>2, <2>4 DEF Trustworthy
    <2>6. QED
        BY <2>1, <2>5, CycleRests DEF Optimized, Unbuilt, SearchSound, HandedSound, Returned,
           Announced, NotBuilt, Optimizing, Searched
<1>4. CASE Return
    <2>1. /\ stage = "handed" /\ UNCHANGED <<stage, base, draft, result, cycleVars, announcing>>
        BY <1>4 DEF Return, choiceVars
    <2>2. Trustworthy(base)' /\ Trustworthy(result)'
        BY <2>1 DEF Optimized, HandedSound, Trustworthy
    <2>3. QED
        BY <2>1, <2>2, CycleRests DEF Optimized, Unbuilt, SearchSound, HandedSound, Returned,
           Announced, NotBuilt, Optimizing, Searched
<1>5. QED
    BY <1>1, <1>2, <1>3, <1>4

(* The clock, a cancellation and the deadline end the run, or nothing.     *)
LEMMA RunStep ==
    ASSUME Optimized, Checkpoint \/ Tick \/ Cancel \/ UNCHANGED <<stage, optimizerVars>>
    PROVE  Optimized'
<1>1. /\ UNCHANGED <<stage, base, draft, best, trusted, kept, announcing, result, cycleVars>>
      /\ outcome' \in {outcome, "cancelled", "timeout"}
    BY DEF Checkpoint, Tick, Cancel, optimizerVars, choiceVars
<1>2. \A p : Trustworthy(p)' <=> Trustworthy(p)
    BY <1>1 DEF Trustworthy
<1>3. UNCHANGED <<cycle, reference>>
    BY <1>1 DEF cycleVars
<1>4. Unbuilt' /\ Returned' /\ Announced'
    BY <1>1 DEF Optimized, Unbuilt, NotBuilt, Optimizing, Returned, Announced
<1>5. SearchSound'
    BY <1>1, <1>2 DEF Optimized, SearchSound, Searched, Trustworthy
<1>6. HandedSound'
    BY <1>1, <1>3, <1>2 DEF Optimized, HandedSound, HandedOver, Trustworthy
<1>7. QED
    BY <1>1, <1>4, <1>5, <1>6, CycleRests DEF Optimized

(* Every step keeps the invariant.                                         *)
LEMMA StepOptimized ==
    ASSUME Optimized, [OptimizerNext \/ Earlier]_<<stage, optimizerVars>>
    PROVE  Optimized'
<1>1. CASE Construct \/ (\E i \in 1..3 : Repair(i)) \/ Audited \/ Invalid \/ Earlier
    BY <1>1, ConstructionStep
<1>2. CASE \/ SkipSearch \/ StartSearch \/ TryCandidate \/ Retain \/ EndSearch
           \/ Polish \/ Normalize \/ Revert \/ LeaveSearch \/ KeepComplete
    BY <1>2, SearchStep
<1>3. CASE StartImprovement \/ ImproveStep \/ TakeImproved \/ Return
    BY <1>3, ImprovementStep
<1>4. CASE Checkpoint \/ Tick \/ Cancel \/ UNCHANGED <<stage, optimizerVars>>
    BY <1>4, RunStep
<1>5. QED
    BY <1>1, <1>2, <1>3, <1>4 DEF OptimizerNext

-----------------------------------------------------------------------------
(* The pipeline.                                                           *)

(* The optimizer runs from the layout on, and does not leave its stages.   *)
LEMMA OptimizerStages ==
    ASSUME Announced, OptimizerNext PROVE (stage = "laid" \/ Optimizing) /\ Optimizing'
<1>1. CASE Construct \/ (\E i \in 1..3 : Repair(i)) \/ Audited \/ Invalid
  <2>1. CASE \E i \in 1..3 : Repair(i)
    BY <2>1 DEF Repair, Repairs, Optimizing
  <2>2. CASE Construct \/ Audited \/ Invalid
    BY <2>2 DEF Construct, Audited, Invalid, Repairs, Optimizing
  <2>3. QED
    BY <1>1, <2>1, <2>2
<1>2. CASE \/ SkipSearch \/ StartSearch \/ TryCandidate \/ Retain \/ EndSearch
           \/ Polish \/ Normalize \/ Revert \/ LeaveSearch \/ KeepComplete
  <2>1. CASE SkipSearch \/ LeaveSearch \/ KeepComplete
    BY <2>1 DEF SkipSearch, LeaveSearch, KeepComplete, Hand, Optimizing
  <2>2. CASE StartSearch \/ TryCandidate \/ EndSearch \/ Polish \/ Normalize
    BY <2>2 DEF StartSearch, TryCandidate, EndSearch, Polish, Normalize, Optimizing
  <2>3. CASE Revert
    BY <2>3 DEF Revert, Optimizing
  <2>4. CASE Retain
    BY <2>4 DEF Retain, Announced, Optimizing
  <2>5. QED
    BY <1>2, <2>1, <2>2, <2>3, <2>4
<1>3. CASE StartImprovement \/ ImproveStep \/ TakeImproved \/ Return
  BY <1>3 DEF StartImprovement, ImproveStep, TakeImproved, Return, Optimizing
<1>4. CASE Checkpoint \/ Tick \/ Cancel
  BY <1>4 DEF Checkpoint, Tick, Cancel, Optimizing
<1>5. QED
  BY <1>1, <1>2, <1>3, <1>4 DEF OptimizerNext

(* A step of the pipeline is a step of the sizing, or comes after it.      *)
LEMMA StepOfSizing ==
    ASSUME Announced, [PlanningNext]_vars PROVE [SizingNext \/ Later]_<<stage, sizingVars>>
<1>1. CASE Schedule
  <2>1. CASE GroupingNext /\ UNCHANGED <<queues, layoutVars>>
    BY <2>1 DEF GroupingNext, GroupLots, SplitInfeasible, SplitForced, Later, sizingVars
  <2>2. CASE Assign
    BY <2>2 DEF Assign, Later
  <2>3. CASE \E m \in Machines : AllocateRun(m)
    BY <2>3 DEF AllocateRun, groupingVars, sizingVars
  <2>4. CASE ReleaseFirst
    BY <2>4 DEF ReleaseFirst, Later
  <2>5. QED
    BY <1>1, <2>1, <2>2, <2>3, <2>4 DEF Schedule, DispatchNext
<1>2. CASE RepairLayout
  <2>1. stage \notin {"orders", "sizing"} /\ stage' \notin {"orders", "sizing", "sized"}
    BY <1>2 DEF RepairLayout, RepairNext, LayOut, SerializePass, ToolPass, ParallelPass, BoundsPass,
                HardPass, Becomes
  <2>2. QED
    BY <2>1 DEF Later
<1>3. CASE HandOver
  BY <1>3 DEF HandOver, Later
<1>4. CASE NothingToPlan
  BY <1>4 DEF NothingToPlan, Later
<1>5. CASE Optimize
  <2>1. UNCHANGED sizingVars
    BY <1>5 DEF Optimize, repairVars, dispatchVars, groupingVars
  <2>2. (stage = "laid" \/ Optimizing) /\ Optimizing'
    BY <1>5, OptimizerStages DEF Optimize
  <2>3. QED
    BY <2>1, <2>2 DEF Later, Optimizing
<1>6. CASE UNCHANGED vars
  BY <1>6 DEF vars, repairVars, dispatchVars, groupingVars
<1>7. QED
  BY <1>1, <1>2, <1>3, <1>4, <1>5, <1>6 DEF PlanningNext

(* A step of the pipeline is a step of the grouping, or comes after it.    *)
LEMMA StepOfGrouping ==
    ASSUME Announced, [PlanningNext]_vars
    PROVE  GroupingNext \/ Dispatched \/ UNCHANGED <<stage, groupingVars>>
<1>1. CASE Schedule
  <2>1. CASE Assign
    BY <2>1 DEF Assign, Dispatched
  <2>2. CASE \E m \in Machines : AllocateRun(m)
    BY <2>2 DEF AllocateRun
  <2>3. CASE ReleaseFirst
    BY <2>3 DEF ReleaseFirst, Dispatched
  <2>4. QED
    BY <1>1, <2>1, <2>2, <2>3 DEF Schedule, DispatchNext
<1>2. CASE RepairLayout
  BY <1>2 DEF RepairLayout, RepairNext, LayOut, SerializePass, ToolPass, ParallelPass, BoundsPass,
              HardPass, Becomes, Dispatched
<1>3. CASE HandOver
  BY <1>3 DEF HandOver, Dispatched
<1>4. CASE NothingToPlan
  BY <1>4 DEF NothingToPlan, Dispatched
<1>5. CASE Optimize
  <2>1. Optimizing'
    BY <1>5, OptimizerStages DEF Optimize
  <2>2. QED
    BY <2>1 DEF Dispatched, Optimizing
<1>6. CASE UNCHANGED vars
  BY <1>6 DEF vars, repairVars, dispatchVars
<1>7. QED
  BY <1>1, <1>2, <1>3, <1>4, <1>5, <1>6 DEF PlanningNext

(* A step of the pipeline is a step of the optimizer, or comes before it.  *)
LEMMA StepOfOptimizer ==
    ASSUME [PlanningNext]_vars PROVE [OptimizerNext \/ Earlier]_<<stage, optimizerVars>>
<1>1. CASE Schedule
  <2>1. UNCHANGED optimizerVars
    BY <1>1 DEF Schedule
  <2>2. (~Optimizing /\ ~Optimizing') \/ UNCHANGED stage
    <3>1. CASE GroupingNext
      BY <3>1 DEF GroupingNext, GroupLots, SplitInfeasible, SplitForced, SizingNext, OffsetSupply,
                  TwinCycle, TwinCycleFails, SoloDemand, Sized, Optimizing
    <3>2. CASE Assign \/ ReleaseFirst \/ \E m \in Machines : AllocateRun(m)
      BY <3>2 DEF Assign, ReleaseFirst, AllocateRun, Optimizing
    <3>3. QED
      BY <1>1, <3>1, <3>2 DEF Schedule, DispatchNext
  <2>3. QED
    BY <2>1, <2>2 DEF Earlier, optimizerVars
<1>2. CASE RepairLayout
  <2>1. ~Optimizing /\ ~Optimizing'
    BY <1>2 DEF RepairLayout, RepairNext, LayOut, SerializePass, ToolPass, ParallelPass, BoundsPass,
                HardPass, Becomes, Optimizing
  <2>2. UNCHANGED optimizerVars
    BY <1>2 DEF RepairLayout
  <2>3. QED
    BY <2>1, <2>2 DEF Earlier, optimizerVars
<1>3. CASE HandOver
  BY <1>3 DEF HandOver, Earlier, optimizerVars, Optimizing
<1>4. CASE NothingToPlan
  BY <1>4 DEF NothingToPlan, Earlier, Optimizing
<1>5. CASE Optimize
  BY <1>5 DEF Optimize
<1>6. CASE UNCHANGED vars
  BY <1>6 DEF vars
<1>7. QED
  BY <1>1, <1>2, <1>3, <1>4, <1>5, <1>6 DEF PlanningNext

(* The planner starts where the sizing and the optimizer do.               *)
LEMMA PlanningStarts ==
    ASSUME PlanningInit PROVE SizingInit /\ OptimizerInit /\ ~Optimizing
BY DEF PlanningInit, DispatchInit, GroupingInit, SizingInit, Optimizing

(* The invariant of the optimizer holds throughout the pipeline.           *)
THEOREM PlanningIsOptimized == PlanningSpec => []Optimized
<1>1. PlanningInit => Optimized
  BY PlanningStarts, InitOptimized
<1>2. Optimized /\ [PlanningNext]_vars => Optimized'
  BY StepOfOptimizer, StepOptimized
<1>3. QED
  BY <1>1, <1>2, PTL DEF PlanningSpec

(* The planner implements the sizing, whatever its later phases do.        *)
THEOREM PlanningSizes == PlanningSpec => SizingSpec
<1>1. PlanningInit => SizingInit
  BY PlanningStarts
<1>2. Optimized /\ [PlanningNext]_vars => [SizingNext \/ Later]_<<stage, sizingVars>>
  BY StepOfSizing DEF Optimized
<1>3. QED
  BY <1>1, <1>2, PlanningIsOptimized, PTL DEF PlanningSpec, SizingSpec

(* Whatever the construction, the candidates, the polish and the           *)
(* normalizer make of a plan, and wherever the time runs out, what         *)
(* optimize returns (cpo/optimizer.py) is valid and delivers no later      *)
(* than the baseline.                                                      *)
THEOREM ReturnedPlansAreTrusted == PlanningSpec => []NeverWorseThanBaseline
<1>1. ASSUME Optimized
      PROVE  NeverWorseThanBaseline
    <2>1. SUFFICES ASSUME outcome = "returned", base # NoPlan
                   PROVE  result.valid /\ Delivery(result) <= Delivery(base)
        BY DEF NeverWorseThanBaseline
    <2>2. stage = "handed"
        BY <1>1, <2>1 DEF Optimized, Returned, Unbuilt, NotBuilt
    <2>3. QED
        BY <1>1, <2>2 DEF Optimized, HandedSound, HandedOver, Trustworthy
<1>2. QED
    BY <1>1, PlanningIsOptimized, PTL

(* However many proposals the improvement cycle (scheduler/improvement.py) *)
(* accepts, each by a preference that is not transitive, and wherever it   *)
(* stops, no order is later in its outcome than in the plan it started     *)
(* from, and no lot has drifted.                                           *)
THEOREM CycleKeepsReference == PlanningSpec => []ImprovementKeepsReference
<1>1. ASSUME Optimized
      PROVE  ImprovementKeepsReference
    BY <1>1 DEF Optimized, CycleSound, Lossless, ImprovementKeepsReference
<1>2. QED
    BY <1>1, PlanningIsOptimized, PTL

(* For any orders, supplies and calendar: once the lots are sized          *)
(* (scheduler/lot_sizing.py), what comes in and what is made cover the     *)
(* demand of every operation up to every day, by the day its production    *)
(* is due.                                                                 *)
THEOREM EveryDemandIsMet == PlanningSpec => []DemandIsMet
BY PlanningSizes, DemandMet, PTL

(* And nothing is made that one more lot of economic size, campaign or     *)
(* twin cycle would not explain: no demand is covered twice.               *)
THEOREM NoLotIsMadeTwice == PlanningSpec => []NothingMadeTwice
BY PlanningSizes, NothingTwice, PTL

(* For any lots, families, calendar and limits of a run: what the grouping *)
(* and its two splits (scheduler/tool_grouping.py) make of the lots is a   *)
(* schedule of them, in which each is produced once.                       *)
THEOREM LotsAreGrouped == PlanningSpec => []RunsAreSound
<1>1. PlanningInit => GroupingInv
  BY PlanningStarts DEF SizingInit, GroupingInv
<1>2. SizingInv /\ Optimized /\ GroupingInv /\ [PlanningNext]_vars => GroupingInv'
  BY StepOfGrouping, GroupingStep DEF Optimized
<1>3. GroupingInv => RunsAreSound
  BY GroupingMeansSound
<1>4. PlanningSpec => []SizingInv
  BY PlanningSizes, SizingIsSafe, PTL
<1>5. QED
  BY <1>1, <1>2, <1>3, <1>4, PlanningIsOptimized, PTL DEF PlanningSpec
=============================================================================
