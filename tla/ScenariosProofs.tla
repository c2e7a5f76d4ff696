--------------------------- MODULE ScenariosProofs ---------------------------
(***************************************************************************)
(* Proofs about the what-if scenarios, for any imported orders, skus,      *)
(* calendars and lists of mutations, and any number of requests, promises, *)
(* reverts, edits and restarts: the demand of a sku is the imported one    *)
(* changed once by each scenario that was applied and not reverted, and    *)
(* the orders of its clients add up to it.                                 *)
(*                                                                         *)
(* Sums, largest remainders and folds come first: the model is built from  *)
(* them, and a fold is a recursive function whose existence has to be      *)
(* shown before anything can be said of it.  Then one mutation of one      *)
(* demand and its orders; then the steps that lay a plan out again; last   *)
(* the invariant.                                                          *)
(***************************************************************************)
EXTENDS Scenarios, FiniteSetTheorems, SequenceTheorems, WellFoundedInduction, TLAPS

-----------------------------------------------------------------------------
(* Induction.                                                              *)

(* Induction: a set of numbers that has 0 and all successors.              *)
LEMMA NatInd ==
  ASSUME NEW P, P \subseteq Nat, 0 \in P, \A n \in P : n+1 \in P
  PROVE P = Nat
<1> SUFFICES ASSUME Nat \ P # {} PROVE FALSE
  OBVIOUS
<1> DEFINE T == Nat \ P
<1>1. PICK x \in T : \A y \in T : ~(<<y, x>> \in OpToRel(<, Nat))
  BY NatLessThanWellFounded, WFMin
<1>2. \A y \in T : ~ (y < x)
  BY <1>1 DEF OpToRel
<1>3. QED
  BY <1>2

(* Induction over the subsets of a finite set, one element at a time.      *)
LEMMA FiniteInduction ==
    ASSUME NEW S, IsFiniteSet(S), NEW P, {} \in P,
           \A T \in P, x \in S : T \subseteq S /\ x \notin T => T \cup {x} \in P
    PROVE  \A T \in SUBSET S : T \in P
<1> DEFINE N == {n \in Nat : \A T \in SUBSET S : Cardinality(T) = n => T \in P}
<1>1. \A T \in SUBSET S : IsFiniteSet(T) /\ Cardinality(T) \in Nat
    BY FS_Subset, FS_CardinalityType
<1>2. 0 \in N
    BY <1>1, FS_EmptySet
<1>3. ASSUME NEW n \in N PROVE n + 1 \in N
  <2>1. ASSUME NEW T \in SUBSET S, Cardinality(T) = n + 1 PROVE T \in P
    <3>1. PICK x \in T : TRUE
      BY <1>1, <2>1, FS_EmptySet
    <3>2. Cardinality(T \ {x}) = n /\ T \ {x} \in SUBSET S
      BY <1>1, <2>1, FS_RemoveElement
    <3>3. T \ {x} \in P
      BY <3>2
    <3>4. T = (T \ {x}) \cup {x}
      OBVIOUS
    <3>5. QED
      BY <3>3, <3>4
  <2>2. QED
    BY <2>1
<1>4. N = Nat
  <2> HIDE DEF N
  <2>1. N \subseteq Nat
    BY DEF N
  <2>2. QED
    BY <1>2, <1>3, <2>1, NatInd
<1>5. QED
    BY <1>1, <1>4

-----------------------------------------------------------------------------
(* Sums.                                                                   *)

(* The sum of f over the subsets of S, as FoldSet builds it, which takes   *)
(* one element after the other.                                            *)
Pick(S) == CHOOSE x \in S : TRUE
Sums(f, S) == CHOOSE g : g = [s \in SUBSET S |-> IF s = {} THEN 0 ELSE f[Pick(s)] + g[s \ {Pick(s)}]]
Adds(g, f, s) == g[s] = IF s = {} THEN 0 ELSE f[Pick(s)] + g[s \ {Pick(s)}]

(* A sum is the value of that function,                                    *)
LEMMA SumIs == ASSUME NEW f, NEW S PROVE SumOver(f, S) = Sums(f, S)[S]
BY Zenon DEF SumOver, MapThenSumSet, MapThenFoldSet, Sums, Pick

(* which exists and satisfies its recursive equation,                      *)
LEMMA SumsExist ==
    ASSUME NEW f, NEW S, IsFiniteSet(S)
    PROVE  /\ Sums(f, S) = [s \in SUBSET S |-> Sums(f, S)[s]]
           /\ \A s \in SUBSET S : Adds(Sums(f, S), f, s)
<1> DEFINE Good(g, n) == \A s \in SUBSET S : Cardinality(s) <= n => Adds(g, f, s)
           F == {g \in {[s \in SUBSET S |-> 0]} : TRUE}
           N == {n \in Nat : \E g : g = [s \in SUBSET S |-> g[s]] /\ Good(g, n)}
<1>1. \A T \in SUBSET S : IsFiniteSet(T) /\ Cardinality(T) \in Nat
    BY FS_Subset, FS_CardinalityType
<1>2. 0 \in N
  <2> DEFINE g == [s \in SUBSET S |-> 0]
  <2>1. Good(g, 0)
    BY <1>1, FS_EmptySet DEF Adds
  <2>2. QED
    BY <2>1, Zenon
<1>3. ASSUME NEW n \in N PROVE n + 1 \in N
  <2>1. PICK g : g = [s \in SUBSET S |-> g[s]] /\ Good(g, n)
    OBVIOUS
  <2> DEFINE h == [s \in SUBSET S |-> IF s = {} THEN 0 ELSE f[Pick(s)] + g[s \ {Pick(s)}]]
  <2>2. ASSUME NEW s \in SUBSET S, Cardinality(s) <= n PROVE h[s] = g[s]
    BY <2>1, <2>2 DEF Adds
  <2>3. ASSUME NEW s \in SUBSET S, Cardinality(s) <= n + 1 PROVE Adds(h, f, s)
    <3>1. CASE s = {}
      BY <3>1 DEF Adds
    <3>2. CASE s # {}
      <4>1. Pick(s) \in s
        BY <3>2 DEF Pick
      <4>2. Cardinality(s \ {Pick(s)}) <= n /\ s \ {Pick(s)} \in SUBSET S
        BY <1>1, <2>3, <4>1, FS_RemoveElement
      <4>3. h[s \ {Pick(s)}] = g[s \ {Pick(s)}]
        BY <2>2, <4>2
      <4>4. QED
        BY <3>2, <4>3 DEF Adds
    <3>3. QED
      BY <3>1, <3>2
  <2>4. h = [s \in SUBSET S |-> h[s]]
    OBVIOUS
  <2>5. Good(h, n + 1)
    BY <2>3
  <2> HIDE DEF h, Good
  <2>6. \E k : k = [s \in SUBSET S |-> k[s]] /\ Good(k, n + 1)
    BY <2>4, <2>5, Zenon
  <2>7. QED
    BY <2>6
<1>4. N = Nat
  <2> HIDE DEF N
  <2>1. N \subseteq Nat
    BY DEF N
  <2>2. QED
    BY <1>2, <1>3, <2>1, NatInd
<1>5. Cardinality(S) \in N
    BY <1>1, <1>4
<1>6. PICK g : g = [s \in SUBSET S |-> g[s]] /\ Good(g, Cardinality(S))
    BY <1>5
<1>7. \A s \in SUBSET S : Adds(g, f, s)
    BY <1>6, FS_Subset
<1>8. g = [s \in SUBSET S |-> IF s = {} THEN 0 ELSE f[Pick(s)] + g[s \ {Pick(s)}]]
    BY <1>6, <1>7 DEF Adds
<1>9. Sums(f, S) = [s \in SUBSET S |-> IF s = {} THEN 0
                                        ELSE f[Pick(s)] + Sums(f, S)[s \ {Pick(s)}]]
    BY <1>8, Zenon DEF Sums
<1>10. QED
    BY <1>9 DEF Adds

(* and does not depend on the set it is defined over.                      *)
LEMMA SumsAgree ==
    ASSUME NEW f, NEW h, NEW S, IsFiniteSet(S), NEW T \in SUBSET S,
           \A x \in T : f[x] = h[x]
    PROVE  Sums(f, S)[T] = SumOver(h, T)
<1> DEFINE P == {U \in SUBSET T : Sums(f, S)[U] = Sums(h, T)[U]}
           N == {n \in Nat : \A U \in SUBSET T : Cardinality(U) = n => U \in P}
<1>0. IsFiniteSet(T) /\ T \subseteq S
    BY FS_Subset
<1>1. \A U \in SUBSET T : IsFiniteSet(U) /\ Cardinality(U) \in Nat
    BY <1>0, FS_Subset, FS_CardinalityType
<1>2. /\ \A s \in SUBSET T : Adds(Sums(f, S), f, s)
      /\ \A s \in SUBSET T : Adds(Sums(h, T), h, s)
    BY <1>0, SumsExist
<1>3. 0 \in N
    BY <1>1, <1>2, FS_EmptySet DEF Adds
<1>4. ASSUME NEW n \in N PROVE n + 1 \in N
  <2>1. ASSUME NEW U \in SUBSET T, Cardinality(U) = n + 1 PROVE U \in P
    <3>1. U # {}
      BY <1>1, <2>1, FS_EmptySet
    <3>2. Pick(U) \in U
      BY <3>1 DEF Pick
    <3>0. IsFiniteSet(U) /\ Cardinality(U) = n + 1 /\ n \in Nat
      BY <1>1, <2>1
    <3>3. Cardinality(U \ {Pick(U)}) = n /\ U \ {Pick(U)} \in SUBSET T
      <4>1. PICK x \in U : x = Pick(U)
        BY <3>2
      <4>2. Cardinality(U \ {x}) = Cardinality(U) - 1
        BY <3>0, FS_RemoveElement
      <4>3. QED
        BY <3>0, <4>1, <4>2
    <3>4. U \ {Pick(U)} \in P
      BY <3>3
    <3>5. f[Pick(U)] = h[Pick(U)]
      BY <3>2
    <3>6. QED
      BY <1>2, <3>1, <3>4, <3>5 DEF Adds
  <2>2. QED
    BY <2>1
<1>5. N = Nat
  <2> HIDE DEF N
  <2>1. N \subseteq Nat
    BY DEF N
  <2>2. QED
    BY <1>3, <1>4, <2>1, NatInd
<1>6. T \in P
    BY <1>1, <1>5
<1>7. QED
    BY <1>6, SumIs

(* How sums are computed: from nothing,                                    *)
LEMMA SumEmpty ==
    ASSUME NEW f PROVE SumOver(f, {}) = 0
<1>1. IsFiniteSet({})
    BY FS_EmptySet
<1>2. Adds(Sums(f, {}), f, {})
    BY <1>1, SumsExist
<1>3. QED
    BY <1>2, SumIs DEF Adds

(* from the values alone,                                                  *)
LEMMA SumSame ==
    ASSUME NEW f, NEW h, NEW S, IsFiniteSet(S), \A x \in S : f[x] = h[x]
    PROVE  SumOver(f, S) = SumOver(h, S)
<1>1. S \in SUBSET S
    OBVIOUS
<1>2. Sums(f, S)[S] = SumOver(h, S)
    BY <1>1, SumsAgree
<1>3. QED
    BY <1>2, SumIs

(* and from one element and the others.                                    *)
LEMMA SumPick ==
    ASSUME NEW f, NEW S, IsFiniteSet(S), S # {}
    PROVE  Pick(S) \in S /\ SumOver(f, S) = f[Pick(S)] + SumOver(f, S \ {Pick(S)})
<1>1. Pick(S) \in S
    BY DEF Pick
<1>2. Adds(Sums(f, S), f, S)
    BY SumsExist
<1>3. Sums(f, S)[S] = f[Pick(S)] + Sums(f, S)[S \ {Pick(S)}]
    BY <1>2 DEF Adds
<1>4. PICK T \in SUBSET S : T = S \ {Pick(S)}
    OBVIOUS
<1>5. Sums(f, S)[T] = SumOver(f, T)
    BY SumsAgree
<1>6. QED
    BY <1>1, <1>3, <1>4, <1>5, SumIs

(* A sum of integers is one.                                               *)
LEMMA SumType ==
    ASSUME NEW S, IsFiniteSet(S), NEW f, \A x \in S : f[x] \in Int
    PROVE  SumOver(f, S) \in Int
<1> DEFINE N == {n \in Nat : \A T \in SUBSET S : Cardinality(T) = n => SumOver(f, T) \in Int}
<1>1. \A T \in SUBSET S : IsFiniteSet(T) /\ Cardinality(T) \in Nat
    BY FS_Subset, FS_CardinalityType
<1>2. 0 \in N
    BY <1>1, FS_EmptySet, SumEmpty
<1>3. ASSUME NEW n \in N PROVE n + 1 \in N
  <2>1. ASSUME NEW T \in SUBSET S, Cardinality(T) = n + 1 PROVE SumOver(f, T) \in Int
    <3>1. IsFiniteSet(T) /\ T # {} /\ n \in Nat
      BY <1>1, <2>1, FS_EmptySet
    <3>2. PICK x : x = Pick(T)
      OBVIOUS
    <3>3. x \in T /\ SumOver(f, T) = f[x] + SumOver(f, T \ {x})
      BY <3>1, <3>2, SumPick
    <3>4. Cardinality(T \ {x}) = Cardinality(T) - 1
      BY <3>1, <3>3, FS_RemoveElement
    <3>5. T \ {x} \in SUBSET S /\ Cardinality(T \ {x}) = n
      BY <2>1, <3>1, <3>4
    <3>6. SumOver(f, T \ {x}) \in Int /\ f[x] \in Int
      BY <3>3, <3>5
    <3>7. QED
      BY <3>3, <3>6
  <2>2. QED
    BY <2>1
<1>4. N = Nat
  <2> HIDE DEF N
  <2>1. N \subseteq Nat
    BY DEF N
  <2>2. QED
    BY <1>2, <1>3, <2>1, NatInd
<1>5. QED
    BY <1>1, <1>4

(* The order in which a sum is taken does not matter.                      *)
LEMMA SumRemove ==
    ASSUME NEW S, IsFiniteSet(S), NEW f, \A x \in S : f[x] \in Int, NEW e \in S
    PROVE  SumOver(f, S) = f[e] + SumOver(f, S \ {e})
<1> DEFINE N == {n \in Nat : \A T \in SUBSET S : Cardinality(T) = n =>
                    \A x \in T : SumOver(f, T) = f[x] + SumOver(f, T \ {x})}
<1>1. \A T \in SUBSET S : IsFiniteSet(T) /\ Cardinality(T) \in Nat /\ SumOver(f, T) \in Int
    BY FS_Subset, FS_CardinalityType, SumType
<1>2. 0 \in N
    BY <1>1, FS_EmptySet
<1>3. ASSUME NEW n \in N PROVE n + 1 \in N
  <2>1. ASSUME NEW T \in SUBSET S, Cardinality(T) = n + 1, NEW x \in T
        PROVE  SumOver(f, T) = f[x] + SumOver(f, T \ {x})
    <3>1. IsFiniteSet(T) /\ T # {} /\ n \in Nat
      BY <1>1, <2>1
    <3>2. PICK y : y = Pick(T)
      OBVIOUS
    <3>3. y \in T /\ SumOver(f, T) = f[y] + SumOver(f, T \ {y})
      BY <3>1, <3>2, SumPick
    <3>4. \A z \in T : Cardinality(T \ {z}) = Cardinality(T) - 1
      BY <3>1, FS_RemoveElement
    <3>5. \A z \in T : T \ {z} \in SUBSET S /\ Cardinality(T \ {z}) = n
      BY <2>1, <3>1, <3>4
    <3>6. CASE x = y
      BY <3>3, <3>6
    <3>7. CASE x # y
      <4>1. SumOver(f, T \ {y}) = f[x] + SumOver(f, (T \ {y}) \ {x})
        BY <3>3, <3>5, <3>7
      <4>2. SumOver(f, T \ {x}) = f[y] + SumOver(f, (T \ {x}) \ {y})
        BY <3>3, <3>5, <3>7
      <4>3. (T \ {y}) \ {x} = (T \ {x}) \ {y} /\ (T \ {x}) \ {y} \in SUBSET S
        OBVIOUS
      <4>4. SumOver(f, (T \ {x}) \ {y}) \in Int /\ f[x] \in Int /\ f[y] \in Int
        BY <1>1, <3>3, <4>3
      <4>5. PICK r \in Int : r = SumOver(f, (T \ {x}) \ {y})
        BY <4>4
      <4>6. SumOver(f, T \ {y}) = f[x] + r /\ SumOver(f, T \ {x}) = f[y] + r
        BY <4>1, <4>2, <4>3, <4>5
      <4>7. QED
        BY <3>3, <4>4, <4>6
    <3>8. QED
      BY <3>6, <3>7
  <2>2. QED
    BY <2>1
<1>4. N = Nat
  <2> HIDE DEF N
  <2>1. N \subseteq Nat
    BY DEF N
  <2>2. QED
    BY <1>2, <1>3, <2>1, NatInd
<1>5. QED
    BY <1>1, <1>4

(* One more element, and two sets without a common one.                    *)
LEMMA SumAdd ==
    ASSUME NEW S, IsFiniteSet(S), NEW f, NEW e, e \notin S, \A x \in S \cup {e} : f[x] \in Int
    PROVE  SumOver(f, S \cup {e}) = f[e] + SumOver(f, S)
<1>1. PICK U : U = S \cup {e}
    OBVIOUS
<1>2. IsFiniteSet(U) /\ e \in U /\ (\A x \in U : f[x] \in Int) /\ U \ {e} = S
    BY <1>1, FS_AddElement
<1>3. SumOver(f, U) = f[e] + SumOver(f, U \ {e})
    BY <1>2, SumRemove
<1>4. QED
    BY <1>1, <1>2, <1>3

(* The sum over two sets that have nothing in common.                      *)
LEMMA SumUnion ==
    ASSUME NEW S, IsFiniteSet(S), NEW T, IsFiniteSet(T), S \cap T = {},
           NEW f, \A x \in S \cup T : f[x] \in Int
    PROVE  SumOver(f, S \cup T) = SumOver(f, S) + SumOver(f, T)
<1> DEFINE P == {U \in SUBSET T : SumOver(f, S \cup U) = SumOver(f, S) + SumOver(f, U)}
<1>1. {} \in P
  <2>1. SumOver(f, S) \in Int /\ S \cup {} = S
    BY SumType
  <2>2. QED
    BY <2>1, SumEmpty
<1>2. ASSUME NEW U \in P, NEW x \in T, U \subseteq T, x \notin U PROVE U \cup {x} \in P
  <2>1. IsFiniteSet(U) /\ U \subseteq T
    BY FS_Subset
  <2>2. IsFiniteSet(S \cup U)
    BY <2>1, FS_Union
  <2>3. SumOver(f, U \cup {x}) = f[x] + SumOver(f, U)
    BY <1>2, <2>1, SumAdd
  <2>4. PICK V : V = S \cup U
    OBVIOUS
  <2>5. SumOver(f, V \cup {x}) = f[x] + SumOver(f, V)
    <3>1. x \notin V /\ IsFiniteSet(V) /\ \A y \in V \cup {x} : f[y] \in Int
      BY <1>2, <2>1, <2>2, <2>4
    <3>2. QED
      BY <3>1, SumAdd
  <2>6. SumOver(f, S) \in Int /\ SumOver(f, U) \in Int /\ f[x] \in Int
    BY <1>2, <2>1, SumType
  <2>7. V \cup {x} = S \cup (U \cup {x}) /\ U \cup {x} \subseteq T
    BY <1>2, <2>4
  <2>8. SumOver(f, V) = SumOver(f, S) + SumOver(f, U)
    BY <2>4
  <2>9. SumOver(f, V \cup {x}) = SumOver(f, S) + SumOver(f, U \cup {x})
    BY <2>3, <2>5, <2>6, <2>8
  <2>10. QED
    BY <2>7, <2>9
<1>3. \A U \in SUBSET T : U \in P
  <2> HIDE DEF P
  <2>1. QED
    BY <1>1, <1>2, FiniteInduction
<1>4. QED
    BY <1>3

(* Sums grow with their summands, and with their sets.                     *)
LEMMA SumAtMost ==
    ASSUME NEW S, IsFiniteSet(S), NEW f, NEW h, \A x \in S : f[x] \in Int /\ h[x] \in Int /\ f[x] <= h[x]
    PROVE  SumOver(f, S) <= SumOver(h, S)
<1> DEFINE P == {U \in SUBSET S : SumOver(f, U) <= SumOver(h, U)}
<1>1. {} \in P
    BY SumEmpty
<1>2. ASSUME NEW U \in P, NEW x \in S, U \subseteq S, x \notin U PROVE U \cup {x} \in P
  <2>1. IsFiniteSet(U) /\ U \subseteq S
    BY FS_Subset
  <2>2. SumOver(f, U \cup {x}) = f[x] + SumOver(f, U) /\ SumOver(h, U \cup {x}) = h[x] + SumOver(h, U)
    BY <1>2, <2>1, SumAdd
  <2>3. SumOver(f, U) \in Int /\ SumOver(h, U) \in Int /\ f[x] \in Int /\ h[x] \in Int /\ f[x] <= h[x]
    BY <1>2, <2>1, SumType
  <2>4. QED
    BY <1>2, <2>2, <2>3
<1>3. \A U \in SUBSET S : U \in P
  <2> HIDE DEF P
  <2>1. QED
    BY <1>1, <1>2, FiniteInduction
<1>4. QED
    BY <1>3

(* A sum of natural numbers is one.                                        *)
LEMMA SumIsNat ==
    ASSUME NEW S, IsFiniteSet(S), NEW f, \A x \in S : f[x] \in Nat
    PROVE  SumOver(f, S) \in Nat
<1> DEFINE P == {U \in SUBSET S : SumOver(f, U) \in Nat}
<1>1. {} \in P
    BY SumEmpty
<1>2. ASSUME NEW U \in P, NEW x \in S, U \subseteq S, x \notin U PROVE U \cup {x} \in P
  <2>1. IsFiniteSet(U) /\ U \subseteq S
    BY FS_Subset
  <2>0. \A y \in U \cup {x} : f[y] \in Int
    BY <2>1
  <2>2. SumOver(f, U \cup {x}) = f[x] + SumOver(f, U)
    BY <1>2, <2>0, <2>1, SumAdd
  <2>3. QED
    BY <1>2, <2>2
<1>3. \A U \in SUBSET S : U \in P
  <2> HIDE DEF P
  <2>1. QED
    BY <1>1, <1>2, FiniteInduction
<1>4. QED
    BY <1>3

(* A part of a sum of natural numbers is no greater.                       *)
LEMMA SumOfPart ==
    ASSUME NEW S, IsFiniteSet(S), NEW T \in SUBSET S, NEW f, \A x \in S : f[x] \in Nat
    PROVE  SumOver(f, T) <= SumOver(f, S)
<1>1. IsFiniteSet(T) /\ IsFiniteSet(S \ T) /\ T \cap (S \ T) = {} /\ T \cup (S \ T) = S
    BY FS_Subset
<1>2. SumOver(f, S) = SumOver(f, T) + SumOver(f, S \ T)
    BY <1>1, SumUnion
<1>3. SumOver(f, T) \in Nat /\ SumOver(f, S \ T) \in Nat
    BY <1>1, SumIsNat
<1>4. QED
    BY <1>2, <1>3

(* A sum of zeros.                                                         *)
LEMMA SumZero ==
    ASSUME NEW S, IsFiniteSet(S), NEW f, \A x \in S : f[x] = 0
    PROVE  SumOver(f, S) = 0
<1> DEFINE P == {U \in SUBSET S : SumOver(f, U) = 0}
<1>1. {} \in P
    BY SumEmpty
<1>2. ASSUME NEW U \in P, NEW x \in S, U \subseteq S, x \notin U PROVE U \cup {x} \in P
  <2>1. IsFiniteSet(U) /\ U \subseteq S
    BY FS_Subset
  <2>0. \A y \in U \cup {x} : f[y] \in Int
    BY <2>1
  <2>2. SumOver(f, U \cup {x}) = f[x] + SumOver(f, U)
    BY <1>2, <2>0, <2>1, SumAdd
  <2>3. QED
    BY <1>2, <2>2
<1>3. \A U \in SUBSET S : U \in P
  <2> HIDE DEF P
  <2>1. QED
    BY <1>1, <1>2, FiniteInduction
<1>4. QED
    BY <1>3

-----------------------------------------------------------------------------

-----------------------------------------------------------------------------
(* Recursion, and extremes.                                                *)


(* Extremes.                                                               *)
LEMMA FiniteSetHasMax ==
    ASSUME NEW S, IsFiniteSet(S), S \subseteq Int, S # {}
    PROVE  \E x \in S : \A y \in S : x >= y
<1> DEFINE P == {T \in SUBSET S : T # {} => \E x \in T : \A y \in T : x >= y}
<1>1. {} \in P
    OBVIOUS
<1>2. ASSUME NEW T \in P, NEW x \in S, T \subseteq S, x \notin T PROVE T \cup {x} \in P
  <2>1. CASE T = {}
    BY <2>1
  <2>2. CASE T # {}
    <3>1. PICK m \in T : \A y \in T : m >= y
      BY <2>2
    <3>2. CASE m >= x
      <4>1. \A y \in T \cup {x} : m >= y
        BY <3>1, <3>2
      <4>2. QED
        BY <4>1
    <3>3. CASE ~(m >= x)
      <4>1. \A y \in T \cup {x} : x >= y
        BY <3>1, <3>3
      <4>2. QED
        BY <4>1
    <3>4. QED
      BY <3>2, <3>3
  <2>3. QED
    BY <2>1, <2>2
<1>3. \A T \in SUBSET S : T \in P
  <2> HIDE DEF P
  <2>1. QED
    BY <1>1, <1>2, FiniteInduction
<1>4. QED
    BY <1>3

(* and a least one.                                                        *)
LEMMA FiniteSetHasMin ==
    ASSUME NEW S, IsFiniteSet(S), S \subseteq Int, S # {}
    PROVE  \E x \in S : \A y \in S : x <= y
<1> DEFINE P == {T \in SUBSET S : T # {} => \E x \in T : \A y \in T : x <= y}
<1>1. {} \in P
    OBVIOUS
<1>2. ASSUME NEW T \in P, NEW x \in S, T \subseteq S, x \notin T PROVE T \cup {x} \in P
  <2>1. CASE T = {}
    BY <2>1
  <2>2. CASE T # {}
    <3>1. PICK m \in T : \A y \in T : m <= y
      BY <2>2
    <3>2. CASE m <= x
      <4>1. \A y \in T \cup {x} : m <= y
        BY <3>1, <3>2
      <4>2. QED
        BY <4>1
    <3>3. CASE ~(m <= x)
      <4>1. \A y \in T \cup {x} : x <= y
        BY <3>1, <3>3
      <4>2. QED
        BY <4>1
    <3>4. QED
      BY <3>2, <3>3
  <2>3. QED
    BY <2>1, <2>2
<1>3. \A T \in SUBSET S : T \in P
  <2> HIDE DEF P
  <2>1. QED
    BY <1>1, <1>2, FiniteInduction
<1>4. QED
    BY <1>3

(* Max is the greatest one,                                                *)
LEMMA MaxIs ==
    ASSUME NEW S, IsFiniteSet(S), S \subseteq Int, S # {}
    PROVE  Max(S) \in S /\ \A y \in S : Max(S) >= y
<1>1. \E x \in S : \A y \in S : x >= y
    BY FiniteSetHasMax
<1>2. QED
    BY <1>1 DEF Max

(* and Min the least one.                                                  *)
LEMMA MinIs ==
    ASSUME NEW S, IsFiniteSet(S), S \subseteq Int, S # {}
    PROVE  Min(S) \in S /\ \A y \in S : Min(S) <= y
<1>1. \E x \in S : \A y \in S : x <= y
    BY FiniteSetHasMin
<1>2. QED
    BY <1>1 DEF Min

-----------------------------------------------------------------------------
(* Sets in order, and folds over the positions of a sequence.              *)

(* The elements of a set by the number of elements before them.            *)
BeforeIn(S, R, x) == {y \in S : <<y, x>> \in R}
ByRank(S, R) == [i \in 1..Cardinality(S) |-> CHOOSE x \in S : Cardinality(BeforeIn(S, R, x)) = i - 1]

(* A strict total order of a set, as a set of pairs.                       *)
TotalOn(R, S) ==
    /\ \A x, y \in S : x # y => <<x, y>> \in R \/ <<y, x>> \in R
    /\ \A x \in S : <<x, x>> \notin R
    /\ \A x, y, z \in S : <<x, y>> \in R /\ <<y, z>> \in R => <<x, z>> \in R

(* The elements by rank are a sequence of the set in its order.            *)
LEMMA RanksAreOrder ==
    ASSUME NEW S, IsFiniteSet(S), NEW R, TotalOn(R, S), NEW s, s = ByRank(S, R)
    PROVE  /\ Cardinality(S) \in Nat
           /\ s \in [1..Cardinality(S) -> S]
           /\ \A i, j \in 1..Cardinality(S) : i < j => <<s[i], s[j]>> \in R
           /\ \A x \in S : \E i \in 1..Cardinality(S) : s[i] = x
           /\ \A i \in 1..Cardinality(S) : Cardinality(BeforeIn(S, R, s[i])) = i - 1
<1> DEFINE B(x) == BeforeIn(S, R, x)
<1> DEFINE f == [x \in S |-> Cardinality(B(x)) + 1]
<1>0. /\ \A x, y \in S : x # y => <<x, y>> \in R \/ <<y, x>> \in R
      /\ \A x \in S : <<x, x>> \notin R
      /\ \A x, y, z \in S : <<x, y>> \in R /\ <<y, z>> \in R => <<x, z>> \in R
    BY DEF TotalOn
<1>n. PICK n \in Nat : n = Cardinality(S)
    BY FS_CardinalityType
<1>1. ASSUME NEW x \in S
      PROVE  IsFiniteSet(B(x)) /\ Cardinality(B(x)) \in Nat /\ Cardinality(B(x)) < n
    <2>1. B(x) \in SUBSET S /\ x \notin B(x) /\ x \in S
        BY <1>0 DEF BeforeIn
    <2>2. IsFiniteSet(B(x)) /\ Cardinality(B(x)) \in Nat
        BY <2>1, FS_Subset, FS_CardinalityType
    <2>3. Cardinality(B(x) \cup {x}) = Cardinality(B(x)) + 1 /\ Cardinality(B(x) \cup {x}) <= n
        <3>1. B(x) \cup {x} \in SUBSET S
            BY <2>1
        <3>2. Cardinality(B(x) \cup {x}) <= Cardinality(S)
            BY <3>1, FS_Subset
        <3>3. Cardinality(B(x) \cup {x}) = Cardinality(B(x)) + 1
            BY <2>1, <2>2, FS_AddElement
        <3>4. QED
            BY <3>2, <3>3, <1>n
    <2>4. QED
        BY <2>2, <2>3
<1>2. ASSUME NEW x \in S, NEW y \in S, <<x, y>> \in R
      PROVE  Cardinality(B(x)) < Cardinality(B(y))
    <2>1. B(x) \cup {x} \in SUBSET B(y) /\ x \notin B(x)
        BY <1>0, <1>2 DEF BeforeIn
    <2>2. Cardinality(B(x) \cup {x}) = Cardinality(B(x)) + 1
        BY <2>1, <1>1, FS_AddElement
    <2>3. Cardinality(B(x) \cup {x}) <= Cardinality(B(y))
        BY <2>1, <1>1, FS_Subset
    <2>4. QED
        <3> HIDE DEF B
        <3>1. QED
            BY <2>2, <2>3, <1>1
<1> HIDE DEF B
<1>3. \A x, y \in S : x # y => f[x] # f[y]
    <2>1. \A x, y \in S : <<x, y>> \in R => f[x] # f[y]
        <3>1. SUFFICES ASSUME NEW x \in S, NEW y \in S, <<x, y>> \in R PROVE f[x] # f[y]
            OBVIOUS
        <3>2. Cardinality(B(x)) < Cardinality(B(y)) /\ Cardinality(B(x)) \in Nat /\ Cardinality(B(y)) \in Nat
            BY <3>1, <1>1, <1>2
        <3>3. f[x] = Cardinality(B(x)) + 1 /\ f[y] = Cardinality(B(y)) + 1
            BY Zenon
        <3>4. QED
            BY <3>2, <3>3
    <2>2. QED
        BY <1>0, <2>1
<1>4. \A x \in S : f[x] \in 1..n /\ f[x] = Cardinality(B(x)) + 1
    <2>1. SUFFICES ASSUME NEW x \in S PROVE f[x] \in 1..n /\ f[x] = Cardinality(B(x)) + 1
        OBVIOUS
    <2>2. f[x] = Cardinality(B(x)) + 1
        BY Zenon
    <2>3. QED
        BY <2>2, <1>1
<1>5. \A i \in 1..n : \E x \in S : f[x] = i
    <2>1. SUFFICES ASSUME NEW i \in 1..n, \A x \in S : f[x] # i PROVE FALSE
        OBVIOUS
    <2>2. IsFiniteSet(1..n) /\ Cardinality(1..n) = n
        BY FS_Interval
    <2>3. IsFiniteSet((1..n) \ {i}) /\ Cardinality((1..n) \ {i}) = n - 1
        BY <2>2, FS_RemoveElement
    <2>4. f \in [S -> (1..n) \ {i}]
        BY <2>1, <1>4
    <2>5. Cardinality((1..n) \ {i}) < Cardinality(S)
        BY <2>3, <1>n
    <2>6. \E x, y \in S : x # y /\ f[x] = f[y]
        <3> HIDE DEF f
        <3>1. QED
            BY <2>3, <2>4, <2>5, FS_PigeonHole
    <2>7. QED
        BY <2>6, <1>3
<1>6. \A i \in 1..n : s[i] \in S /\ Cardinality(B(s[i])) = i - 1
    <2>1. SUFFICES ASSUME NEW i \in 1..n PROVE s[i] \in S /\ Cardinality(B(s[i])) = i - 1
        OBVIOUS
    <2>2. PICK x \in S : f[x] = i
        BY <1>5
    <2>3. Cardinality(B(x)) = i - 1
        BY <2>2, <1>4, <1>1
    <2>4. s[i] = CHOOSE y \in S : Cardinality(B(y)) = i - 1
        BY <1>n DEF B, ByRank
    <2>5. \E y \in S : Cardinality(B(y)) = i - 1
        BY <2>3
    <2>6. QED
        BY <2>4, <2>5, Zenon
<1>7. \A i, j \in 1..n : i < j => <<s[i], s[j]>> \in R
    <2>1. SUFFICES ASSUME NEW i \in 1..n, NEW j \in 1..n, i < j, <<s[i], s[j]>> \notin R PROVE FALSE
        OBVIOUS
    <2>2. /\ s[i] \in S /\ s[j] \in S
          /\ Cardinality(B(s[i])) = i - 1 /\ Cardinality(B(s[j])) = j - 1
        BY <1>6
    <2>3. s[i] # s[j]
        <3>1. i - 1 # j - 1
            BY <2>1
        <3>2. QED
            BY <2>2, <3>1, Zenon
    <2>4. <<s[j], s[i]>> \in R
        BY <1>0, <2>1, <2>2, <2>3
    <2>5. Cardinality(B(s[j])) < Cardinality(B(s[i]))
        BY <2>4, <2>2, <1>2
    <2>6. QED
        BY <2>1, <2>2, <2>5
<1>8. \A x \in S : \E i \in 1..n : s[i] = x
    <2>1. SUFFICES ASSUME NEW x \in S PROVE \E i \in 1..n : s[i] = x
        OBVIOUS
    <2>2. PICK i \in 1..n : i = f[x]
        BY <1>4
    <2>3. s[i] \in S /\ Cardinality(B(s[i])) = i - 1
        BY <1>6
    <2>4. f[s[i]] = i
        BY <2>3, <1>4
    <2>5. QED
        BY <2>2, <2>3, <2>4, <1>3
<1>9. s \in [1..n -> S]
    <2>1. DOMAIN s = 1..n /\ s = [i \in 1..n |-> s[i]]
        BY <1>n DEF ByRank
    <2>2. QED
        BY <1>6, <2>1
<1>10. \A i \in 1..n : Cardinality(BeforeIn(S, R, s[i])) = i - 1
    <2>1. SUFFICES ASSUME NEW i \in 1..n PROVE Cardinality(BeforeIn(S, R, s[i])) = i - 1
        OBVIOUS
    <2>2. Cardinality(B(s[i])) = i - 1
        BY <1>6
    <2>3. B(s[i]) = BeforeIn(S, R, s[i])
        BY DEF B
    <2>4. QED
        BY <2>2, <2>3
<1>11. QED
    BY <1>n, <1>7, <1>8, <1>9, <1>10

(* A sum in which one summand changes.                                     *)
LEMMA SumWithout ==
    ASSUME NEW T, IsFiniteSet(T), NEW f, NEW g, NEW e \in T,
           \A x \in T : f[x] \in Int /\ g[x] \in Int, \A x \in T \ {e} : f[x] = g[x]
    PROVE  SumOver(g, T) = SumOver(f, T) - f[e] + g[e]
<1>1. PICK U : U = T \ {e}
    OBVIOUS
<1>2. IsFiniteSet(U) /\ \A x \in U : f[x] = g[x] /\ f[x] \in Int
    BY <1>1, FS_Subset
<1>3. SumOver(f, U) = SumOver(g, U) /\ SumOver(f, U) \in Int
    BY <1>2, SumSame, SumType
<1>4. SumOver(f, T) = f[e] + SumOver(f, T \ {e}) /\ SumOver(g, T) = g[e] + SumOver(g, T \ {e})
    BY SumRemove
<1>5. PICK a \in Int, b \in Int, c \in Int : a = f[e] /\ b = g[e] /\ c = SumOver(f, U)
    BY <1>3
<1>6. SumOver(f, T) = a + c /\ SumOver(g, T) = b + c
    BY <1>1, <1>3, <1>4, <1>5
<1>7. QED
    BY <1>5, <1>6

-----------------------------------------------------------------------------

(* The assumptions about one mutation.                                     *)
Demanding(m) ==
    /\ m.type \in DemandTypes
    /\ m.type = "rush_order" => m.day \in Int /\ m.qty \in Nat \ {0}
    /\ m.type = "demand_change" => m.factor[1] \in Nat /\ m.factor[2] \in Nat \ {0}
    /\ m.type = "cancel_order" => m.start \in Int /\ m.end \in Int
    /\ m.type \in {"advance_edd", "delay_edd"} => m.days \in Int

(* What its validation adds.                                               *)
Placeable(m) ==
    /\ m.type = "rush_order" => m.day \in Nat
    /\ m.type \in {"advance_edd", "delay_edd"} => m.days \in Nat

(* The demands of a number of days.                                        *)
Grid(n) == [0..(n - 1) -> Nat]

(* A demand reads 0 outside its days.                                      *)
LEMMA GridIs ==
    ASSUME NEW n \in Nat, NEW f \in Grid(n)
    PROVE  /\ DOMAIN f = 0..(n - 1) /\ IsFiniteSet(DOMAIN f) /\ Cardinality(DOMAIN f) = n
           /\ \A x \in Int : At(f, x) \in Nat
           /\ \A x \in Int : ~(0 <= x /\ x < n) => At(f, x) = 0
           /\ \A x \in 0..(n - 1) : At(f, x) = f[x] /\ f[x] \in Nat
<1>1. DOMAIN f = 0..(n - 1) /\ \A x \in 0..(n - 1) : f[x] \in Nat
  BY DEF Grid
<1>2. n - 1 \in Int /\ 0 \in Int
  OBVIOUS
<1>3. IsFiniteSet(0..(n - 1)) /\ Cardinality(0..(n - 1)) = IF 0 > n - 1 THEN 0 ELSE (n - 1) - 0 + 1
  BY <1>2, FS_Interval
<1>4. Cardinality(0..(n - 1)) = n
  BY <1>3
<1>5. QED
  BY <1>1, <1>3, <1>4 DEF At

(* Two demands are the same if they are on every day.                      *)
LEMMA GridSame ==
    ASSUME NEW n \in Nat, NEW f \in Grid(n), NEW g \in Grid(n), \A x \in 0..(n - 1) : At(f, x) = At(g, x)
    PROVE  f = g
<1>1. \A x \in 0..(n - 1) : f[x] = g[x]
  BY GridIs
<1>2. QED
  BY <1>1 DEF Grid

(* Days without demand may be added.                                       *)
LEMMA PaddedIs ==
    ASSUME NEW n \in Nat, NEW N \in Nat, n <= N, NEW f \in Grid(n)
    PROVE  Padded(f, N) \in Grid(N) /\ \A x \in Int : At(Padded(f, N), x) = At(f, x)
<1>1. Padded(f, N) \in Grid(N)
  <2>1. \A x \in 0..(N - 1) : At(f, x) \in Nat
    BY GridIs
  <2>2. QED
    BY <2>1 DEF Padded, Grid
<1>2. ASSUME NEW x \in Int PROVE At(Padded(f, N), x) = At(f, x)
  <2>1. CASE x \in 0..(N - 1)
    <3>1. Padded(f, N)[x] = At(f, x) /\ x \in DOMAIN Padded(f, N)
      BY <2>1 DEF Padded
    <3>2. QED
      BY <3>1 DEF At
  <2>2. CASE x \notin 0..(N - 1)
    <3>1. ~(0 <= x /\ x < N) /\ ~(0 <= x /\ x < n)
      BY <2>2
    <3>2. QED
      BY <1>1, <3>1, GridIs
  <2>3. QED
    BY <2>1, <2>2
<1>3. QED
  BY <1>1, <1>2

(* Padding keeps what is due on every day.                                 *)
LEMMA PaddedTo ==
    ASSUME NEW n \in Nat, NEW N \in Nat, n <= N, NEW f \in Grid(n), NEW g \in Grid(N),
           \A x \in 0..(N - 1) : At(g, x) = At(f, x)
    PROVE  g = Padded(f, N)
<1>1. PICK h \in Grid(N) : h = Padded(f, N)
  BY PaddedIs
<1>2. \A x \in 0..(N - 1) : At(h, x) = At(g, x)
  BY <1>1, PaddedIs
<1>3. QED
  BY <1>1, <1>2, GridSame

(* Padding in two steps is padding in one.                                 *)
LEMMA PaddedTwice ==
    ASSUME NEW n \in Nat, NEW N \in Nat, NEW M \in Nat, n <= N, N <= M, NEW f \in Grid(n)
    PROVE  Padded(Padded(f, N), M) = Padded(f, M)
<1>1. PICK g \in Grid(N) : g = Padded(f, N) /\ \A x \in Int : At(g, x) = At(f, x)
  BY PaddedIs
<1>2. PICK h \in Grid(M) : h = Padded(g, M) /\ \A x \in Int : At(h, x) = At(g, x)
  BY PaddedIs
<1>3. h = Padded(f, M)
  BY <1>1, <1>2, PaddedTo
<1>4. QED
  BY <1>1, <1>2, <1>3

(* The larger of two numbers.                                              *)
LEMMA MaxOfTwo ==
    ASSUME NEW a \in Int, NEW b \in Int
    PROVE  Max({a, b}) = IF a <= b THEN b ELSE a
<1>1. PICK S : S = {a, b}
  OBVIOUS
<1>2. IsFiniteSet(S)
  <2>1. IsFiniteSet({a} \cup {b})
    BY FS_Singleton, FS_AddElement
  <2>2. {a} \cup {b} = S
    BY <1>1
  <2>3. QED
    BY <2>1, <2>2
<1>3. Max(S) \in S /\ \A y \in S : Max(S) >= y
  BY <1>1, <1>2, MaxIs
<1>4. QED
  BY <1>1, <1>3

-----------------------------------------------------------------------------
(* The demand after a mutation, day by day.                                *)

Pulled(f, k, x) == {y \in DOMAIN f : Max({0, y - k}) = x}

AfterAt(f, m, x) ==
    CASE m.type = "rush_order" -> At(f, x) + (IF x = m.day THEN m.qty ELSE 0)
      [] m.type = "demand_change" -> Scaled(At(f, x), m.factor)
      [] m.type = "cancel_order" -> IF x \in m.start..m.end THEN 0 ELSE At(f, x)
      [] m.type = "advance_edd" -> SumOver(f, Pulled(f, m.days, x))
      [] m.type = "delay_edd" -> At(f, x - m.days)

AfterDays(n, m) ==
    CASE m.type = "rush_order" -> IF n <= m.day + 1 THEN m.day + 1 ELSE n
      [] m.type = "delay_edd" -> n + m.days
      [] OTHER -> n

DemandAfterIs(f, n, m) ==
    /\ AfterDays(n, m) \in Nat /\ n <= AfterDays(n, m)
    /\ DemandAfter(f, m) \in Grid(AfterDays(n, m))
    /\ \A x \in Nat : At(DemandAfter(f, m), x) = AfterAt(f, m, x)

(* Python's round of a product.                                            *)
LEMMA ScaledIs ==
    ASSUME NEW q \in Nat, NEW a \in Nat, NEW b \in Nat \ {0}, NEW factor, factor[1] = a, factor[2] = b
    PROVE  Scaled(q, factor) \in Nat /\ (q = 0 => Scaled(q, factor) = 0)
<1>1. PICK p \in Nat : p = q * a /\ (q = 0 => p = 0)
  OBVIOUS
<1>2. PICK d \in Nat, r \in Nat : d = p \div b /\ r = p % b /\ (p = 0 => d = 0 /\ r = 0)
  OBVIOUS
<1>3. Scaled(q, factor) = IF 2 * r > b \/ (2 * r = b /\ d % 2 = 1) THEN d + 1 ELSE d
  BY <1>1, <1>2 DEF Scaled
<1>4. QED
  BY <1>1, <1>2, <1>3

(* A rush order adds its quantity to its day, and days up to it.           *)
LEMMA RushIs ==
    ASSUME NEW n \in Nat, NEW f \in Grid(n), NEW m, Demanding(m), Placeable(m), m.type = "rush_order"
    PROVE  DemandAfterIs(f, n, m)
<1>1. PICK d \in Nat, q \in Nat : d = m.day /\ q = m.qty
  BY DEF Demanding, Placeable
<1>2. PICK N \in Nat : N = AfterDays(n, m) /\ n <= N /\ d < N /\ N = Max({n, d + 1})
  <2>1. AfterDays(n, m) = IF n <= d + 1 THEN d + 1 ELSE n
    BY <1>1 DEF AfterDays
  <2>2. Max({n, d + 1}) = IF n <= d + 1 THEN d + 1 ELSE n
    BY MaxOfTwo
  <2>3. QED
    BY <2>1, <2>2
<1>3. PICK g \in Grid(N) : g = Padded(f, N) /\ \A x \in Int : At(g, x) = At(f, x)
  BY <1>2, PaddedIs
<1>4. PICK h : h = DemandAfter(f, m)
  OBVIOUS
<1>5. h = [g EXCEPT ![d] = g[d] + q]
  BY <1>1, <1>2, <1>3, <1>4, GridIs DEF DemandAfter
<1>6. d \in 0..(N - 1) /\ DOMAIN g = 0..(N - 1) /\ \A x \in 0..(N - 1) : g[x] \in Nat /\ g[x] = At(f, x)
  <2>1. d \in 0..(N - 1) /\ DOMAIN g = 0..(N - 1)
    <3>1. DOMAIN g = 0..(N - 1)
      BY <1>3, GridIs
    <3>2. QED
      BY <1>2, <3>1
  <2>2. \A x \in 0..(N - 1) : At(g, x) = g[x] /\ g[x] \in Nat
    BY <1>3, GridIs
  <2>3. QED
    BY <1>3, <2>1, <2>2
<1>7. h \in Grid(N) /\ \A x \in 0..(N - 1) : h[x] = At(f, x) + (IF x = d THEN q ELSE 0)
  BY <1>5, <1>6 DEF Grid
<1>8. ASSUME NEW x \in Nat PROVE At(h, x) = AfterAt(f, m, x)
  <2>1. AfterAt(f, m, x) = At(f, x) + (IF x = d THEN q ELSE 0)
    BY <1>1 DEF AfterAt
  <2>2. CASE x < N
    <3>1. x \in 0..(N - 1)
      BY <2>2
    <3>2. QED
      BY <1>7, <2>1, <3>1, GridIs
  <2>3. CASE ~(x < N)
    <3>1. At(h, x) = 0 /\ At(f, x) = 0 /\ x # d
      BY <1>2, <1>7, <2>3, GridIs
    <3>2. QED
      BY <2>1, <3>1
  <2>4. QED
    BY <2>2, <2>3
<1>9. QED
  BY <1>2, <1>4, <1>7, <1>8 DEF DemandAfterIs

(* A change of demand rounds each day for itself.                          *)
LEMMA ChangeIs ==
    ASSUME NEW n \in Nat, NEW f \in Grid(n), NEW m, Demanding(m), m.type = "demand_change"
    PROVE  DemandAfterIs(f, n, m)
<1>1. PICK a \in Nat, b \in Nat \ {0} : a = m.factor[1] /\ b = m.factor[2]
  BY DEF Demanding
<1>2. AfterDays(n, m) = n
  BY DEF AfterDays
<1>3. PICK h : h = DemandAfter(f, m)
  OBVIOUS
<1>4. h = [x \in 0..(n - 1) |-> Scaled(f[x], m.factor)]
  BY <1>3, GridIs DEF DemandAfter
<1>5. \A q \in Nat : Scaled(q, m.factor) \in Nat /\ (q = 0 => Scaled(q, m.factor) = 0)
  BY <1>1, ScaledIs
<1>6. h \in Grid(n) /\ \A x \in 0..(n - 1) : h[x] = Scaled(At(f, x), m.factor)
  BY <1>4, <1>5, GridIs DEF Grid
<1>7. ASSUME NEW x \in Nat PROVE At(h, x) = AfterAt(f, m, x)
  <2>1. AfterAt(f, m, x) = Scaled(At(f, x), m.factor)
    BY DEF AfterAt
  <2>2. CASE x < n
    <3>1. x \in 0..(n - 1)
      BY <2>2
    <3>2. At(h, x) = h[x]
      BY <1>6, <3>1, GridIs
    <3>3. QED
      BY <1>6, <2>1, <3>1, <3>2
  <2>3. CASE ~(x < n)
    BY <1>5, <1>6, <2>1, <2>3, GridIs
  <2>4. QED
    BY <2>2, <2>3
<1>8. QED
  BY <1>2, <1>3, <1>6, <1>7 DEF DemandAfterIs

(* A cancellation empties the days of an interval.                         *)
LEMMA CancelIs ==
    ASSUME NEW n \in Nat, NEW f \in Grid(n), NEW m, Demanding(m), m.type = "cancel_order"
    PROVE  DemandAfterIs(f, n, m)
<1>2. AfterDays(n, m) = n
  BY DEF AfterDays
<1>3. PICK h : h = DemandAfter(f, m)
  OBVIOUS
<1>4. h = [x \in 0..(n - 1) |-> IF x \in m.start..m.end THEN 0 ELSE f[x]]
  BY <1>3, GridIs DEF DemandAfter
<1>6. h \in Grid(n) /\ \A x \in 0..(n - 1) : h[x] = IF x \in m.start..m.end THEN 0 ELSE At(f, x)
  BY <1>4, GridIs DEF Grid
<1>7. ASSUME NEW x \in Nat PROVE At(h, x) = AfterAt(f, m, x)
  <2>1. AfterAt(f, m, x) = IF x \in m.start..m.end THEN 0 ELSE At(f, x)
    BY DEF AfterAt
  <2>2. CASE x < n
    <3>1. x \in 0..(n - 1)
      BY <2>2
    <3>2. At(h, x) = h[x]
      BY <1>6, <3>1, GridIs
    <3>3. QED
      BY <1>6, <2>1, <3>1, <3>2
  <2>3. CASE ~(x < n)
    <3>1. At(f, x) = 0
      BY <2>3, GridIs
    <3>2. At(h, x) = 0
      BY <1>6, <2>3, GridIs
    <3>3. QED
      BY <2>1, <3>1, <3>2
  <2>4. QED
    BY <2>2, <2>3
<1>8. QED
  BY <1>2, <1>3, <1>6, <1>7 DEF DemandAfterIs

(* A delay moves every day, and adds as many.                              *)
LEMMA DelayIs ==
    ASSUME NEW n \in Nat, NEW f \in Grid(n), NEW m, Demanding(m), Placeable(m), m.type = "delay_edd"
    PROVE  DemandAfterIs(f, n, m)
<1>1. PICK k \in Nat : k = m.days
  BY DEF Placeable
<1>2. PICK N \in Nat : N = AfterDays(n, m) /\ N = n + k
  BY <1>1 DEF AfterDays
<1>3. PICK h : h = DemandAfter(f, m)
  OBVIOUS
<1>4. h = [x \in 0..(N - 1) |-> At(f, x - k)]
  BY <1>1, <1>2, <1>3, GridIs DEF DemandAfter
<1>5. \A x \in 0..(N - 1) : At(f, x - k) \in Nat
  <2>1. SUFFICES ASSUME NEW x \in 0..(N - 1) PROVE At(f, x - k) \in Nat
    OBVIOUS
  <2>2. x - k \in Int
    OBVIOUS
  <2>3. QED
    BY <2>2, GridIs
<1>6. h \in Grid(N) /\ \A x \in 0..(N - 1) : h[x] = At(f, x - k)
  BY <1>4, <1>5 DEF Grid
<1>7. ASSUME NEW x \in Nat PROVE At(h, x) = AfterAt(f, m, x)
  <2>1. AfterAt(f, m, x) = At(f, x - k)
    BY <1>1 DEF AfterAt
  <2>2. CASE x < N
    <3>1. x \in 0..(N - 1)
      BY <2>2
    <3>2. At(h, x) = h[x]
      BY <1>6, <3>1, GridIs
    <3>3. QED
      BY <1>6, <2>1, <3>1, <3>2
  <2>3. CASE ~(x < N)
    <3>1. ~(0 <= x - k /\ x - k < n) /\ x - k \in Int
      BY <1>2, <2>3
    <3>2. At(f, x - k) = 0
      BY <3>1, GridIs
    <3>3. QED
      BY <1>6, <2>1, <2>3, <3>2, GridIs
  <2>4. QED
    BY <2>2, <2>3
<1>8. QED
  BY <1>2, <1>3, <1>6, <1>7 DEF DemandAfterIs

(* An advance gathers what would come before the first day on it.          *)
LEMMA AdvanceIs ==
    ASSUME NEW n \in Nat, NEW f \in Grid(n), NEW m, Demanding(m), Placeable(m), m.type = "advance_edd"
    PROVE  DemandAfterIs(f, n, m)
<1>1. PICK k \in Nat : k = m.days
  BY DEF Placeable
<1>2. AfterDays(n, m) = n
  BY DEF AfterDays
<1>3. PICK h : h = DemandAfter(f, m)
  OBVIOUS
<1>4. h = [x \in 0..(n - 1) |-> SumOver(f, Pulled(f, k, x))]
  BY <1>1, <1>3, GridIs DEF DemandAfter, Pulled
<1>5. ASSUME NEW x PROVE SumOver(f, Pulled(f, k, x)) \in Nat
  <2>1. Pulled(f, k, x) \subseteq DOMAIN f
    BY DEF Pulled
  <2>2. IsFiniteSet(Pulled(f, k, x)) /\ \A y \in Pulled(f, k, x) : f[y] \in Nat
    BY <2>1, GridIs, FS_Subset
  <2>3. QED
    BY <2>2, SumIsNat
<1>6. h \in Grid(n) /\ \A x \in 0..(n - 1) : h[x] = SumOver(f, Pulled(f, k, x))
  BY <1>4, <1>5 DEF Grid
<1>7. ASSUME NEW x \in Nat PROVE At(h, x) = AfterAt(f, m, x)
  <2>1. AfterAt(f, m, x) = SumOver(f, Pulled(f, k, x))
    BY <1>1 DEF AfterAt
  <2>2. CASE x < n
    <3>1. x \in 0..(n - 1)
      BY <2>2
    <3>2. At(h, x) = h[x]
      BY <1>6, <3>1, GridIs
    <3>3. QED
      BY <1>6, <2>1, <3>1, <3>2
  <2>3. CASE ~(x < n)
    <3>1. ASSUME NEW y \in Pulled(f, k, x) PROVE FALSE
      <4>1. y \in 0..(n - 1) /\ Max({0, y - k}) = x
        BY <3>1, GridIs DEF Pulled
      <4>2. Max({0, y - k}) = IF 0 <= y - k THEN y - k ELSE 0
        BY <4>1, MaxOfTwo
      <4>3. QED
        BY <2>3, <4>1, <4>2
    <3>2. Pulled(f, k, x) = {}
      BY <3>1
    <3>3. SumOver(f, Pulled(f, k, x)) = 0
      BY <3>2, SumEmpty
    <3>4. QED
      BY <1>6, <2>1, <2>3, <3>3, GridIs
  <2>4. QED
    BY <2>2, <2>3
<1>8. QED
  BY <1>2, <1>3, <1>6, <1>7 DEF DemandAfterIs

(* So the demand after any mutation is known day by day.                   *)
LEMMA DemandAfterOk ==
    ASSUME NEW n \in Nat, NEW f \in Grid(n), NEW m, Demanding(m), Placeable(m)
    PROVE  DemandAfterIs(f, n, m)
BY RushIs, ChangeIs, CancelIs, DelayIs, AdvanceIs DEF Demanding, DemandTypes

(* A demand with days added gets the same.                                 *)
LEMMA AfterPadded ==
    ASSUME NEW n \in Nat, NEW N \in Nat, n <= N, NEW f \in Grid(n), NEW F \in Grid(N), F = Padded(f, N),
           NEW m, Demanding(m), Placeable(m)
    PROVE  /\ AfterDays(n, m) \in Nat /\ AfterDays(N, m) \in Nat
           /\ AfterDays(n, m) <= AfterDays(N, m) /\ N <= AfterDays(N, m)
           /\ DemandAfter(f, m) \in Grid(AfterDays(n, m))
           /\ DemandAfter(F, m) = Padded(DemandAfter(f, m), AfterDays(N, m))
<1>1. DemandAfterIs(f, n, m) /\ DemandAfterIs(F, N, m)
  BY DemandAfterOk
<1>2. PICK a \in Nat, b \in Nat : a = AfterDays(n, m) /\ b = AfterDays(N, m) /\ N <= b
  BY <1>1 DEF DemandAfterIs
<1>3. a <= b
  BY <1>2 DEF AfterDays, Demanding, DemandTypes, Placeable
<1>4. \A x \in Int : At(F, x) = At(f, x)
  BY PaddedIs
<1>5. ASSUME NEW x \in Nat PROVE AfterAt(F, m, x) = AfterAt(f, m, x)
  <2>1. CASE m.type # "advance_edd"
    <3>1. m.type = "delay_edd" => x - m.days \in Int
      BY DEF Placeable
    <3>2. At(F, x) = At(f, x)
      BY <1>4
    <3>3. m.type = "delay_edd" => At(F, x - m.days) = At(f, x - m.days)
      BY <1>4, <3>1
    <3>4. QED
      BY <2>1, <3>2, <3>3 DEF AfterAt, Demanding, DemandTypes
  <2>2. CASE m.type = "advance_edd"
    <3>1. PICK k \in Nat : k = m.days
      BY <2>2 DEF Placeable
    <3>2. PICK S, T : S = Pulled(f, k, x) /\ T = Pulled(F, k, x)
      OBVIOUS
    <3>3. DOMAIN f = 0..(n - 1) /\ DOMAIN F = 0..(N - 1) /\ IsFiniteSet(DOMAIN F)
          /\ (\A y \in DOMAIN f : f[y] \in Nat) /\ (\A y \in DOMAIN F : F[y] \in Nat)
      BY GridIs
    <3>4. S \subseteq T /\ T \subseteq DOMAIN F /\ T \ S = {y \in T : y \notin DOMAIN f} /\ S \subseteq DOMAIN f
      BY <3>2, <3>3 DEF Pulled
    <3>5. IsFiniteSet(S) /\ IsFiniteSet(T) /\ IsFiniteSet(T \ S)
      BY <3>3, <3>4, FS_Subset
    <3>6. \A y \in T \ S : F[y] = 0
      <4>1. SUFFICES ASSUME NEW y \in T \ S PROVE F[y] = 0
        OBVIOUS
      <4>2. y \in 0..(N - 1) /\ ~(0 <= y /\ y < n) /\ y \in Int
        BY <3>3, <3>4
      <4>3. F[y] = At(F, y) /\ At(f, y) = 0
        BY <4>2, GridIs
      <4>4. QED
        BY <1>4, <4>2, <4>3
    <3>7. \A y \in S : F[y] = f[y]
      <4>1. SUFFICES ASSUME NEW y \in S PROVE F[y] = f[y]
        OBVIOUS
      <4>2. y \in 0..(n - 1) /\ y \in 0..(N - 1) /\ y \in Int
        BY <3>3, <3>4
      <4>3. F[y] = At(F, y) /\ f[y] = At(f, y)
        BY <4>2, GridIs
      <4>4. QED
        BY <1>4, <4>2, <4>3
    <3>8. SumOver(F, T \ S) = 0
      BY <3>5, <3>6, SumZero
    <3>9. SumOver(F, S) = SumOver(f, S)
      BY <3>5, <3>7, SumSame
    <3>10. PICK U : U = T \ S
      OBVIOUS
    <3>11. SumOver(F, S \cup U) = SumOver(F, S) + SumOver(F, U)
      <4>1. S \cap U = {} /\ IsFiniteSet(U) /\ \A y \in S \cup U : F[y] \in Int
        BY <3>3, <3>4, <3>5, <3>10
      <4>2. QED
        BY <3>5, <4>1, SumUnion
    <3>12. S \cup U = T
      BY <3>4, <3>10
    <3>13. SumOver(F, S) \in Nat
      <4>1. \A y \in S : F[y] \in Nat
        BY <3>3, <3>4
      <4>2. QED
        BY <3>5, <4>1, SumIsNat
    <3>14. SumOver(F, T) = SumOver(f, S)
      <4>1. SumOver(F, T) = SumOver(F, S) + SumOver(F, U)
        BY <3>11, <3>12
      <4>2. SumOver(F, U) = 0
        BY <3>8, <3>10
      <4>3. SumOver(F, T) = SumOver(F, S)
        BY <3>13, <4>1, <4>2
      <4>4. QED
        BY <3>9, <4>3
    <3>15. QED
      BY <2>2, <3>1, <3>2, <3>14 DEF AfterAt
  <2>3. QED
    BY <2>1, <2>2
<1>6. PICK g \in Grid(a), h \in Grid(b) : g = DemandAfter(f, m) /\ h = DemandAfter(F, m)
  BY <1>1, <1>2 DEF DemandAfterIs
<1>7. \A x \in 0..(b - 1) : At(h, x) = At(g, x)
  <2>1. SUFFICES ASSUME NEW x \in 0..(b - 1) PROVE At(h, x) = At(g, x)
    OBVIOUS
  <2>2. x \in Nat
    OBVIOUS
  <2>3. At(h, x) = AfterAt(F, m, x) /\ At(g, x) = AfterAt(f, m, x)
    BY <1>1, <1>6, <2>2 DEF DemandAfterIs
  <2>4. QED
    BY <1>5, <2>2, <2>3
<1>8. h = Padded(g, b)
  BY <1>3, <1>7, PaddedTo
<1>9. QED
  BY <1>2, <1>3, <1>6, <1>8

(* Sums of sums, of multiples, and of ones.                                *)
LEMMA SumPlus ==
    ASSUME NEW S, IsFiniteSet(S), NEW f, NEW g, NEW h,
           \A x \in S : f[x] \in Int /\ g[x] \in Int /\ h[x] = f[x] + g[x]
    PROVE  SumOver(h, S) = SumOver(f, S) + SumOver(g, S)
<1> DEFINE P == {U \in SUBSET S : SumOver(h, U) = SumOver(f, U) + SumOver(g, U)}
<1>1. {} \in P
  BY SumEmpty
<1>2. ASSUME NEW U \in P, NEW x \in S, U \subseteq S, x \notin U PROVE U \cup {x} \in P
  <2>1. IsFiniteSet(U) /\ U \cup {x} \subseteq S
    BY <1>2, FS_Subset
  <2>2. \A y \in U \cup {x} : f[y] \in Int /\ g[y] \in Int /\ h[y] \in Int
    BY <2>1
  <2>3. SumOver(f, U \cup {x}) = f[x] + SumOver(f, U)
    BY <1>2, <2>1, <2>2, SumAdd
  <2>4. SumOver(g, U \cup {x}) = g[x] + SumOver(g, U)
    BY <1>2, <2>1, <2>2, SumAdd
  <2>5. SumOver(h, U \cup {x}) = h[x] + SumOver(h, U)
    BY <1>2, <2>1, <2>2, SumAdd
  <2>6. PICK a \in Int, b \in Int, c \in Int, d \in Int :
          a = f[x] /\ b = g[x] /\ c = SumOver(f, U) /\ d = SumOver(g, U)
    BY <2>1, <2>2, SumType
  <2>7. SumOver(h, U) = c + d /\ h[x] = a + b
    BY <2>6
  <2>8. QED
    BY <2>1, <2>3, <2>4, <2>5, <2>6, <2>7
<1>3. \A U \in SUBSET S : U \in P
  <2> HIDE DEF P
  <2>1. QED
    BY <1>1, <1>2, FiniteInduction
<1>4. QED
  BY <1>3

(* Multiplication distributes.                                             *)
LEMMA Distributes == ASSUME NEW c \in Int, NEW a \in Int, NEW b \in Int PROVE c * (a + b) = c * a + c * b
OBVIOUS

(* The sum of multiples,                                                   *)
LEMMA SumTimes ==
    ASSUME NEW S, IsFiniteSet(S), NEW f, NEW h, NEW c \in Int,
           \A x \in S : f[x] \in Int /\ h[x] = c * f[x]
    PROVE  SumOver(h, S) = c * SumOver(f, S)
<1> DEFINE P == {U \in SUBSET S : SumOver(h, U) = c * SumOver(f, U)}
<1>1. {} \in P
  BY SumEmpty
<1>2. ASSUME NEW U \in P, NEW x \in S, U \subseteq S, x \notin U PROVE U \cup {x} \in P
  <2>1. IsFiniteSet(U) /\ U \cup {x} \subseteq S
    BY <1>2, FS_Subset
  <2>2. \A y \in U \cup {x} : f[y] \in Int /\ h[y] \in Int
    BY <2>1
  <2>3. SumOver(f, U \cup {x}) = f[x] + SumOver(f, U)
    BY <1>2, <2>1, <2>2, SumAdd
  <2>5. SumOver(h, U \cup {x}) = h[x] + SumOver(h, U)
    BY <1>2, <2>1, <2>2, SumAdd
  <2>6. PICK a \in Int, b \in Int : a = f[x] /\ b = SumOver(f, U)
    BY <2>1, <2>2, SumType
  <2>7. SumOver(h, U) = c * b /\ h[x] = c * a
    BY <2>6
  <2>8. c * (a + b) = c * a + c * b
    BY Distributes
  <2>9. QED
    BY <2>1, <2>3, <2>5, <2>6, <2>7, <2>8
<1>3. \A U \in SUBSET S : U \in P
  <2> HIDE DEF P
  <2>1. QED
    BY <1>1, <1>2, FiniteInduction
<1>4. QED
  BY <1>3

(* and of ones.                                                            *)
LEMMA SumOfOnes ==
    ASSUME NEW S, IsFiniteSet(S), NEW G \in SUBSET S, NEW h, \A x \in S : h[x] = IF x \in G THEN 1 ELSE 0
    PROVE  SumOver(h, S) = Cardinality(G)
<1> DEFINE P == {U \in SUBSET S : SumOver(h, U) = Cardinality(U \cap G)}
<1>1. {} \in P
  <2>1. {} \cap G = {} /\ Cardinality({}) = 0
    BY FS_EmptySet
  <2>2. QED
    BY <2>1, SumEmpty
<1>2. ASSUME NEW U \in P, NEW x \in S, U \subseteq S, x \notin U PROVE U \cup {x} \in P
  <2>1. IsFiniteSet(U) /\ U \cup {x} \subseteq S
    BY <1>2, FS_Subset
  <2>2. \A y \in U \cup {x} : h[y] \in Int
    BY <2>1
  <2>3. SumOver(h, U \cup {x}) = h[x] + SumOver(h, U)
    BY <1>2, <2>1, <2>2, SumAdd
  <2>4. IsFiniteSet(U \cap G) /\ Cardinality(U \cap G) \in Nat
    BY <2>1, FS_Subset, FS_CardinalityType
  <2>5. CASE x \in G
    <3>1. (U \cup {x}) \cap G = (U \cap G) \cup {x} /\ x \notin U \cap G
      BY <1>2, <2>5
    <3>2. Cardinality((U \cap G) \cup {x}) = Cardinality(U \cap G) + 1
      BY <2>4, <3>1, FS_AddElement
    <3>3. QED
      BY <2>1, <2>3, <2>4, <2>5, <3>1, <3>2
  <2>6. CASE x \notin G
    <3>1. (U \cup {x}) \cap G = U \cap G
      BY <2>6
    <3>2. QED
      BY <2>1, <2>3, <2>4, <2>6, <3>1
  <2>7. QED
    BY <2>5, <2>6
<1>3. \A U \in SUBSET S : U \in P
  <2> HIDE DEF P
  <2>1. QED
    BY <1>1, <1>2, FiniteInduction
<1>4. S \in P /\ S \cap G = G
  BY <1>3
<1>5. QED
  BY <1>4

(* In an order, as many are among the first k as k says.                   *)
LEMMA FirstOnes ==
    ASSUME NEW S, IsFiniteSet(S), NEW R, TotalOn(R, S), NEW k \in Nat, k <= Cardinality(S)
    PROVE  Cardinality({x \in S : Cardinality(BeforeIn(S, R, x)) < k}) = k
<1>0. PICK n \in Nat : n = Cardinality(S)
  BY FS_CardinalityType
<1>1. PICK s : /\ n = Cardinality(S)
               /\ s \in [1..n -> S]
               /\ \A i, j \in 1..n : i < j => <<s[i], s[j]>> \in R
               /\ \A x \in S : \E i \in 1..n : s[i] = x
               /\ \A i \in 1..n : Cardinality(BeforeIn(S, R, s[i])) = i - 1
  BY <1>0, RanksAreOrder
<1> DEFINE T == {x \in S : Cardinality(BeforeIn(S, R, x)) < k}
<1> DEFINE t == [i \in 1..k |-> s[i]]
<1>2. \A x \in S : <<x, x>> \notin R
  BY DEF TotalOn
<1>3. 1..k \subseteq 1..n
  BY <1>1
<1>4. ASSUME NEW i \in 1..k PROVE t[i] \in T
  <2>1. i \in 1..n /\ s[i] \in S /\ Cardinality(BeforeIn(S, R, s[i])) = i - 1
    BY <1>1, <1>3
  <2>2. QED
    BY <2>1
<1>5. ASSUME NEW i \in 1..k, NEW j \in 1..k, t[i] = t[j] PROVE i = j
  <2>1. i \in 1..n /\ j \in 1..n /\ s[i] = s[j] /\ s[i] \in S
    BY <1>1, <1>3, <1>5
  <2>2. ~(i < j) /\ ~(j < i)
    BY <1>1, <1>2, <2>1
  <2>3. QED
    BY <2>2
<1>6. ASSUME NEW x \in T PROVE \E i \in 1..k : t[i] = x
  <2>1. PICK i \in 1..n : s[i] = x
    BY <1>1
  <2>2. Cardinality(BeforeIn(S, R, s[i])) = i - 1 /\ Cardinality(BeforeIn(S, R, x)) < k
    BY <1>1
  <2>3. i \in 1..k
    BY <2>1, <2>2
  <2>4. QED
    BY <2>1, <2>3
<1>7. t \in Bijection(1..k, T)
  <2>1. t \in [1..k -> T]
    BY <1>4
  <2>2. QED
    BY <1>5, <1>6, <2>1 DEF Bijection, Injection, IsInjective, Surjection
<1>8. ExistsBijection(1..k, T)
  BY <1>7 DEF ExistsBijection
<1>9. QED
  BY <1>8, FS_CountingElements

-----------------------------------------------------------------------------
(* The part of each in a new total.                                        *)

Whole(q, D, total, target) == [j \in D |-> (target * q[j]) \div total]
Rest(q, D, total, target) == [j \in D |-> (target * q[j]) % total]
AheadIn(rest, D) == {p \in D \X D : rest[p[1]] > rest[p[2]] \/ (rest[p[1]] = rest[p[2]] /\ p[1] < p[2])}

(* Remainders and, where they are equal, positions are a total order.      *)
LEMMA AheadIsTotal ==
    ASSUME NEW D, D \subseteq Int, NEW rest, \A j \in D : rest[j] \in Int
    PROVE  TotalOn(AheadIn(rest, D), D)
<1>1. \A x, y \in D : <<x, y>> \in AheadIn(rest, D) <=> rest[x] > rest[y] \/ (rest[x] = rest[y] /\ x < y)
  <2>1. SUFFICES ASSUME NEW x \in D, NEW y \in D
                 PROVE  <<x, y>> \in AheadIn(rest, D) <=> rest[x] > rest[y] \/ (rest[x] = rest[y] /\ x < y)
    OBVIOUS
  <2>2. PICK p : p = <<x, y>>
    OBVIOUS
  <2>3. p \in D \X D /\ p[1] = x /\ p[2] = y
    BY <2>2
  <2>4. QED
    BY <2>2, <2>3 DEF AheadIn
<1>2. QED
  BY <1>1 DEF TotalOn

(* Euclid.                                                                 *)
LEMMA Euclid ==
    ASSUME NEW p \in Nat, NEW t \in Nat \ {0}
    PROVE  p \div t \in Nat /\ p % t \in Nat /\ p % t < t /\ p = t * (p \div t) + (p % t)
<1>1. p \div t \in Int /\ p % t \in 0..(t - 1) /\ p = t * (p \div t) + (p % t)
  BY SMT
<1>2. PICK d \in Int, r \in Nat : d = p \div t /\ r = p % t /\ r < t /\ p = t * d + r
  BY <1>1
<1>3. ASSUME d < 0 PROVE FALSE
  <2>1. PICK k \in Nat : k = -d /\ k >= 1
    BY <1>3
  <2>2. t * (d + k) = t * d + t * k /\ d + k = 0
    BY <2>1, Distributes
  <2>3. t * k >= t
    BY <2>1
  <2>4. QED
    BY <1>2, <2>2, <2>3
<1>4. d \in Nat
  BY <1>3
<1>5. p \div t \in Nat /\ p % t \in Nat
  BY <1>2, <1>4, Zenon
<1>6. p % t < t
  BY <1>2, Zenon
<1>7. QED
  BY <1>1, <1>5, <1>6, Zenon

(* A quotient is less than a bound of which the dividend is less.          *)
LEMMA QuotientBounded ==
    ASSUME NEW l \in Int, NEW t \in Nat \ {0}, NEW n \in Nat, 0 <= t * l, t * l < t * n
    PROVE  0 <= l /\ l < n
<1>1. ASSUME l < 0 PROVE FALSE
  <2>1. PICK k \in Nat : k = -l /\ k >= 1
    BY <1>1
  <2>2. t * (l + k) = t * l + t * k /\ l + k = 0
    BY <2>1, Distributes
  <2>3. t * k >= t
    BY <2>1
  <2>4. QED
    BY <2>2, <2>3
<1>2. ASSUME l >= n PROVE FALSE
  <2>1. PICK k \in Nat : k = l - n
    BY <1>2
  <2>2. t * (n + k) = t * n + t * k /\ n + k = l
    BY <2>1, Distributes
  <2>3. t * k \in Nat /\ t * n \in Nat
    OBVIOUS
  <2>4. QED
    BY <2>2, <2>3
<1>3. QED
  BY <1>1, <1>2

(* What the largest remainders give to each of the entries of one day.      *)
Sharing(h, q, D, total, target) ==
    /\ IsFiniteSet(D) /\ D # {} /\ D \subseteq Int /\ \A j \in D : q[j] \in Nat \ {0}
    /\ target \in Nat /\ total = SumOver(q, D)
    /\ \A i \in D : h[i] = Portion(q, D, total, target, i)

(* The portions of a new total are natural numbers and add up to it.        *)
LEMMA PortionsAddUp ==
    ASSUME NEW D, NEW q, NEW target, NEW total, NEW h, Sharing(h, q, D, total, target)
    PROVE  (\A i \in D : h[i] \in Nat) /\ SumOver(h, D) = target
<1>0. /\ IsFiniteSet(D) /\ D # {} /\ D \subseteq Int /\ \A j \in D : q[j] \in Nat \ {0}
      /\ target \in Nat /\ total = SumOver(q, D)
      /\ \A i \in D : h[i] = Portion(q, D, total, target, i)
  BY DEF Sharing
<1> USE <1>0
<1>1. total \in Nat \ {0}
  <2>1. PICK e \in D : TRUE
    OBVIOUS
  <2>2. {e} \in SUBSET D /\ \A j \in D : q[j] \in Nat
    OBVIOUS
  <2>3. SumOver(q, {e}) <= SumOver(q, D)
    BY <2>2, SumOfPart
  <2>4. PICK E : E = {} /\ IsFiniteSet(E) /\ e \notin E /\ E \cup {e} = {e}
    BY FS_EmptySet
  <2>5. \A x \in E \cup {e} : q[x] \in Int
    BY <2>2, <2>4
  <2>6. SumOver(q, E \cup {e}) = q[e] + SumOver(q, E)
    BY <2>4, <2>5, SumAdd
  <2>9. SumOver(q, {e}) = q[e]
    BY <2>2, <2>4, <2>6, SumEmpty
  <2>7. SumOver(q, D) \in Nat
    BY <2>2, SumIsNat
  <2>8. QED
    BY <2>2, <2>3, <2>7, <2>9
<1>2. PICK w, r : w = Whole(q, D, total, target) /\ r = Rest(q, D, total, target)
  OBVIOUS
<1>3. \A j \in D : /\ w[j] \in Nat /\ r[j] \in Nat /\ r[j] < total
                   /\ target * q[j] = total * w[j] + r[j]
  <2>1. SUFFICES ASSUME NEW j \in D
                 PROVE  /\ w[j] \in Nat /\ r[j] \in Nat /\ r[j] < total
                        /\ target * q[j] = total * w[j] + r[j]
    OBVIOUS
  <2>2. PICK p \in Nat : p = target * q[j]
    OBVIOUS
  <2>3. w[j] = p \div total /\ r[j] = p % total
    BY <1>2, <2>2 DEF Whole, Rest
  <2>4. QED
    BY <1>1, <2>2, <2>3, Euclid
<1>4. PICK W \in Nat, X \in Nat : W = SumOver(w, D) /\ X = SumOver(r, D)
  <2>1. (\A j \in D : w[j] \in Nat) /\ \A j \in D : r[j] \in Nat
    BY <1>3
  <2>2. QED
    BY <2>1, SumIsNat
<1>5. target * total = total * W + X
  <2> DEFINE a == [j \in D |-> target * q[j]]
  <2> DEFINE b == [j \in D |-> total * w[j]]
  <2>1. \A j \in D : q[j] \in Int /\ w[j] \in Int /\ r[j] \in Int /\ a[j] = target * q[j]
                     /\ b[j] = total * w[j] /\ b[j] \in Int /\ a[j] = b[j] + r[j]
    <3>1. SUFFICES ASSUME NEW j \in D
                   PROVE  q[j] \in Int /\ w[j] \in Int /\ r[j] \in Int /\ a[j] = target * q[j]
                          /\ b[j] = total * w[j] /\ b[j] \in Int /\ a[j] = b[j] + r[j]
      OBVIOUS
    <3>2. a[j] = target * q[j] /\ b[j] = total * w[j]
      OBVIOUS
    <3>3. q[j] \in Int /\ w[j] \in Int /\ r[j] \in Int /\ total * w[j] \in Int
      BY <1>1, <1>3
    <3>4. QED
      BY <1>3, <3>2, <3>3
  <2> HIDE DEF a, b
  <2>2. SumOver(a, D) = target * SumOver(q, D)
    <3>1. \A x \in D : q[x] \in Int /\ a[x] = target * q[x]
      BY <2>1
    <3>2. target \in Int
      OBVIOUS
    <3>3. QED
      BY <3>1, <3>2, SumTimes
  <2>3. SumOver(b, D) = total * SumOver(w, D)
    <3>1. \A x \in D : w[x] \in Int /\ b[x] = total * w[x]
      BY <2>1
    <3>2. total \in Int
      BY <1>1
    <3>3. QED
      BY <3>1, <3>2, SumTimes
  <2>4. SumOver(a, D) = SumOver(b, D) + SumOver(r, D)
    BY <2>1, SumPlus
  <2>5. QED
    BY <1>4, <2>2, <2>3, <2>4
<1>6. PICK n \in Nat : n = Cardinality(D)
  BY FS_CardinalityType
<1>7. 0 <= X /\ X < total * n
  <2> DEFINE c == [j \in D |-> total - 1]
  <2> DEFINE o == [j \in D |-> 1]
  <2>1. \A j \in D : o[j] \in Int /\ c[j] \in Int /\ c[j] = (total - 1) * o[j] /\ r[j] \in Int /\ r[j] <= c[j]
    BY <1>1, <1>3
  <2>2. \A j \in D : o[j] = IF j \in D THEN 1 ELSE 0
    OBVIOUS
  <2> HIDE DEF c, o
  <2>3. SumOver(o, D) = n
    <3>1. D \in SUBSET D
      OBVIOUS
    <3>2. QED
      BY <1>6, <2>2, <3>1, SumOfOnes
  <2>4. SumOver(c, D) = (total - 1) * n
    <3>1. total - 1 \in Int
      BY <1>1
    <3>2. SumOver(c, D) = (total - 1) * SumOver(o, D)
      BY <2>1, <3>1, SumTimes
    <3>3. QED
      BY <2>3, <3>2
  <2>5. X <= (total - 1) * n
    <3>1. SumOver(r, D) <= SumOver(c, D)
      BY <2>1, SumAtMost
    <3>2. QED
      BY <1>4, <2>4, <3>1
  <2>6. n > 0
    BY <1>6, FS_EmptySet
  <2>7. (total - 1) * n = total * n - n
    BY <1>1
  <2>8. QED
    BY <1>1, <2>5, <2>6, <2>7
<1>8. PICK left \in Int : left = target - W /\ total * left = X
  <2>1. PICK left \in Int : left = target - W
    OBVIOUS
  <2>2. target = left + W
    BY <2>1
  <2>3. total * (left + W) = total * left + total * W
    BY <1>1, Distributes
  <2>4. target * total = total * (left + W)
    BY <1>1, <2>2
  <2>5. total * left \in Int /\ total * W \in Int
    BY <1>1
  <2>6. QED
    BY <1>5, <2>1, <2>3, <2>4, <2>5
<1>9. left \in Nat /\ left < n
  BY <1>1, <1>7, <1>8, QuotientBounded
<1>10. PICK R : R = AheadIn(r, D)
  OBVIOUS
<1>11. PICK G : G = {x \in D : Cardinality(BeforeIn(D, R, x)) < left}
  OBVIOUS
<1>12. G \subseteq D /\ Cardinality(G) = left
  <2>1. TotalOn(R, D)
    <3>1. \A j \in D : r[j] \in Int
      BY <1>3
    <3>2. QED
      BY <1>10, <3>1, AheadIsTotal
  <2>2. left <= Cardinality(D)
    BY <1>6, <1>9
  <2>3. QED
    BY <1>9, <1>11, <2>1, <2>2, FirstOnes
<1> DEFINE g == [i \in D |-> IF i \in G THEN 1 ELSE 0]
<1>13. ASSUME NEW i \in D PROVE h[i] = w[i] + g[i]
  <2>1. BeforeIn(D, R, i) = {j \in D : r[j] > r[i] \/ (r[j] = r[i] /\ j < i)}
    <3>1. ASSUME NEW j \in D PROVE <<j, i>> \in R <=> r[j] > r[i] \/ (r[j] = r[i] /\ j < i)
      <4>1. PICK p : p = <<j, i>>
        OBVIOUS
      <4>2. p \in D \X D /\ p[1] = j /\ p[2] = i
        BY <4>1
      <4>3. QED
        BY <1>10, <4>1, <4>2 DEF AheadIn
    <3>2. QED
      BY <3>1 DEF BeforeIn
  <2>2. h[i] = w[i] + (IF Cardinality(BeforeIn(D, R, i)) < target - SumOver(w, D) THEN 1 ELSE 0)
    BY <1>2, <2>1 DEF Portion, Whole, Rest
  <2>3. target - SumOver(w, D) = left
    BY <1>4, <1>8
  <2>4. QED
    BY <1>11, <2>2, <2>3
<1>14. \A i \in D : w[i] \in Nat /\ g[i] \in Nat /\ w[i] \in Int /\ g[i] \in Int
  BY <1>3
<1>15. SumOver(g, D) = left
  <2>1. \A i \in D : g[i] = IF i \in G THEN 1 ELSE 0
    OBVIOUS
  <2>2. G \in SUBSET D
    BY <1>12
  <2> HIDE DEF g
  <2>3. QED
    BY <1>12, <2>1, <2>2, SumOfOnes
<1> HIDE DEF g
<1>16. SumOver(h, D) = SumOver(w, D) + SumOver(g, D)
  BY <1>13, <1>14, SumPlus
<1>17. QED
  BY <1>4, <1>8, <1>13, <1>14, <1>15, <1>16

(* The positions up to one.                                                *)
LEMMA PrefixIs ==
    ASSUME NEW n \in Nat, NEW k \in 0..(n - 1)
    PROVE  /\ 1..(k + 1) \in SUBSET (1..n) /\ 1..(k + 1) # {} /\ Max(1..(k + 1)) = k + 1
           /\ (1..(k + 1)) \ {k + 1} = 1..k
<1>1. PICK s : s = 1..(k + 1)
    OBVIOUS
<1>2. k \in Int /\ k + 1 <= n /\ k + 1 >= 1
    OBVIOUS
<1>3. s \in SUBSET (1..n) /\ k + 1 \in s /\ s \subseteq Int /\ s # {}
    BY <1>1, <1>2
<1>4. IsFiniteSet(s)
  <2>1. IsFiniteSet(1..(k + 1))
    BY <1>2, FS_Interval
  <2>2. QED
    BY <1>1, <2>1
<1>5. Max(s) \in s /\ \A y \in s : Max(s) >= y
    BY <1>3, <1>4, MaxIs
<1>6. Max(s) = k + 1
    BY <1>1, <1>2, <1>3, <1>5
<1>7. QED
    BY <1>1, <1>2, <1>3, <1>6

(* The entries at some positions, one after the other.                     *)
Positions(entries) == [i \in DOMAIN entries |-> i]
KeptStep(entries, its, kept, i) == IF i \in its THEN Append(kept, entries[i]) ELSE kept
KeptFold(iter, entries, its) ==
    iter = [p \in SUBSET DOMAIN Positions(entries) |->
              IF p = {} THEN <<>> ELSE KeptStep(entries, its, iter[p \ {Max(p)}], Positions(entries)[Max(p)])]
KeptAt(iter, entries, its, p) ==
    iter[p] = IF p = {} THEN <<>> ELSE KeptStep(entries, its, iter[p \ {Max(p)}], Positions(entries)[Max(p)])

(* The fold of what is kept of the orders is a function of the position,   *)
LEMMA KeptIsFold ==
    ASSUME NEW entries, NEW its PROVE Kept(entries, its) = (CHOOSE iter : KeptFold(iter, entries, its))[DOMAIN Positions(entries)]
BY Zenon DEF Kept, FoldLeft, MapThenFoldSet, KeptFold, Positions, KeptStep

(* which exists,                                                           *)
LEMMA KeptExists ==
    ASSUME NEW entries, NEW its, NEW n \in Nat, DOMAIN Positions(entries) = 1..n
    PROVE  \E iter : KeptFold(iter, entries, its)
<1> DEFINE D == SUBSET (1..n)
           Good(g, k) == \A p \in D : Cardinality(p) <= k => KeptAt(g, entries, its, p)
           N == {k \in Nat : \E g : g = [p \in D |-> g[p]] /\ Good(g, k)}
<1>1. \A p \in D : IsFiniteSet(p) /\ Cardinality(p) \in Nat
  <2>1. IsFiniteSet(1..n)
    BY FS_Interval
  <2>2. QED
    BY <2>1, FS_Subset, FS_CardinalityType
<1>2. 0 \in N
  <2> DEFINE g == [p \in D |-> <<>>]
  <2>1. Good(g, 0)
    BY <1>1, FS_EmptySet DEF KeptAt
  <2>2. QED
    BY <2>1, Zenon
<1>3. ASSUME NEW k \in N PROVE k + 1 \in N
  <2>1. PICK g : g = [p \in D |-> g[p]] /\ Good(g, k)
    OBVIOUS
  <2> DEFINE h == [p \in D |-> IF p = {} THEN <<>>
                               ELSE KeptStep(entries, its, g[p \ {Max(p)}], Positions(entries)[Max(p)])]
  <2>2. ASSUME NEW p \in D, Cardinality(p) <= k PROVE h[p] = g[p]
    BY <2>1, <2>2 DEF KeptAt
  <2>3. ASSUME NEW p \in D, Cardinality(p) <= k + 1 PROVE KeptAt(h, entries, its, p)
    <3>1. CASE p = {}
      BY <3>1 DEF KeptAt
    <3>2. CASE p # {}
      <4>1. Max(p) \in p
        <5>1. p \subseteq Int /\ IsFiniteSet(p)
          BY <1>1
        <5>2. QED
          BY <3>2, <5>1, MaxIs
      <4>2. Cardinality(p \ {Max(p)}) <= k /\ p \ {Max(p)} \in D
        BY <1>1, <2>3, <4>1, FS_RemoveElement
      <4>3. h[p \ {Max(p)}] = g[p \ {Max(p)}]
        BY <2>2, <4>2
      <4>4. QED
        BY <3>2, <4>3 DEF KeptAt
    <3>3. QED
      BY <3>1, <3>2
  <2>4. h = [p \in D |-> h[p]]
    OBVIOUS
  <2>5. Good(h, k + 1)
    BY <2>3
  <2> HIDE DEF h, Good
  <2>6. \E f : f = [p \in D |-> f[p]] /\ Good(f, k + 1)
    BY <2>4, <2>5, Zenon
  <2>7. QED
    BY <2>6
<1>4. N = Nat
  <2> HIDE DEF N
  <2>1. N \subseteq Nat
    BY DEF N
  <2>2. QED
    BY <1>2, <1>3, <2>1, NatInd
<1>5. n \in N /\ \A p \in D : Cardinality(p) <= n
  <2>1. IsFiniteSet(1..n) /\ Cardinality(1..n) = n
    BY FS_Interval
  <2>2. ASSUME NEW p \in D PROVE Cardinality(p) <= n
    <3>1. Cardinality(p) <= Cardinality(1..n)
      BY <2>1, FS_Subset
    <3>2. QED
      BY <2>1, <3>1
  <2>3. QED
    BY <1>4, <2>2
<1>6. PICK g : g = [p \in D |-> g[p]] /\ Good(g, n)
  BY <1>5
<1>7. \A p \in D : KeptAt(g, entries, its, p)
  BY <1>5, <1>6
<1>8. g = [p \in D |-> IF p = {} THEN <<>> ELSE KeptStep(entries, its, g[p \ {Max(p)}], Positions(entries)[Max(p)])]
  BY <1>6, <1>7 DEF KeptAt
<1>9. KeptFold(g, entries, its)
  BY <1>8, Zenon DEF KeptFold
<1>10. QED
  BY <1>9

KeptRun(c, entries, its, n) ==
    /\ c[0] = <<>> /\ c[n] = Kept(entries, its)
    /\ \A k \in 0..(n - 1) : c[k + 1] = KeptStep(entries, its, c[k], Positions(entries)[k + 1])

(* and a sequence with one element more takes one step more.               *)
LEMMA KeptSteps ==
    ASSUME NEW entries, NEW its, NEW n \in Nat, DOMAIN Positions(entries) = 1..n
    PROVE  \E c : KeptRun(c, entries, its, n)
<1>1. PICK iter : iter = (CHOOSE f : KeptFold(f, entries, its)) /\ KeptFold(iter, entries, its)
  BY KeptExists, Zenon
<1>2. Kept(entries, its) = iter[1..n]
  BY <1>1, KeptIsFold, Zenon
<1>3. \A p \in SUBSET (1..n) :
        iter[p] = IF p = {} THEN <<>> ELSE KeptStep(entries, its, iter[p \ {Max(p)}], Positions(entries)[Max(p)])
  BY <1>1, Zenon DEF KeptFold
<1> DEFINE c == [k \in 0..n |-> iter[1..k]]
<1>4. c[0] = <<>>
  <2>1. 1..0 = {} /\ {} \in SUBSET (1..n) /\ 0 \in 0..n
    OBVIOUS
  <2>2. QED
    BY <1>3, <2>1
<1>5. ASSUME NEW k \in 0..(n - 1) PROVE c[k + 1] = KeptStep(entries, its, c[k], Positions(entries)[k + 1])
  <2>1. k \in 0..n /\ k + 1 \in 0..n
    OBVIOUS
  <2>2. PICK p : p = 1..(k + 1)
    OBVIOUS
  <2>3. p \in SUBSET (1..n) /\ p # {} /\ Max(p) = k + 1 /\ p \ {k + 1} = 1..k
    BY <2>2, PrefixIs
  <2>4. iter[p] = KeptStep(entries, its, iter[1..k], Positions(entries)[k + 1])
    BY <1>3, <2>3
  <2>5. QED
    BY <2>1, <2>2, <2>4
<1>6. c[n] = Kept(entries, its)
  BY <1>2
<1> HIDE DEF c
<1>7. QED
  BY <1>4, <1>5, <1>6 DEF KeptRun

(* The mutations that are not known yet, one after the other.              *)
UnknownStep(known, new, m) == IF Contains(known \o new, m) THEN new ELSE Append(new, m)
UnknownFold(iter, known, mutations) ==
    iter = [p \in SUBSET DOMAIN mutations |->
              IF p = {} THEN <<>> ELSE UnknownStep(known, iter[p \ {Max(p)}], mutations[Max(p)])]
UnknownAt(iter, known, mutations, p) ==
    iter[p] = IF p = {} THEN <<>> ELSE UnknownStep(known, iter[p \ {Max(p)}], mutations[Max(p)])

(* The fold of the mutations not known yet is a function of the position,  *)
LEMMA UnknownIsFold ==
    ASSUME NEW known, NEW mutations PROVE Unknown(known, mutations) = (CHOOSE iter : UnknownFold(iter, known, mutations))[DOMAIN mutations]
BY Zenon DEF Unknown, FoldLeft, MapThenFoldSet, UnknownFold, UnknownStep

(* which exists,                                                           *)
LEMMA UnknownExists ==
    ASSUME NEW known, NEW mutations, NEW n \in Nat, DOMAIN mutations = 1..n
    PROVE  \E iter : UnknownFold(iter, known, mutations)
<1> DEFINE D == SUBSET (1..n)
           Good(g, k) == \A p \in D : Cardinality(p) <= k => UnknownAt(g, known, mutations, p)
           N == {k \in Nat : \E g : g = [p \in D |-> g[p]] /\ Good(g, k)}
<1>1. \A p \in D : IsFiniteSet(p) /\ Cardinality(p) \in Nat
  <2>1. IsFiniteSet(1..n)
    BY FS_Interval
  <2>2. QED
    BY <2>1, FS_Subset, FS_CardinalityType
<1>2. 0 \in N
  <2> DEFINE g == [p \in D |-> <<>>]
  <2>1. Good(g, 0)
    BY <1>1, FS_EmptySet DEF UnknownAt
  <2>2. QED
    BY <2>1, Zenon
<1>3. ASSUME NEW k \in N PROVE k + 1 \in N
  <2>1. PICK g : g = [p \in D |-> g[p]] /\ Good(g, k)
    OBVIOUS
  <2> DEFINE h == [p \in D |-> IF p = {} THEN <<>>
                               ELSE UnknownStep(known, g[p \ {Max(p)}], mutations[Max(p)])]
  <2>2. ASSUME NEW p \in D, Cardinality(p) <= k PROVE h[p] = g[p]
    BY <2>1, <2>2 DEF UnknownAt
  <2>3. ASSUME NEW p \in D, Cardinality(p) <= k + 1 PROVE UnknownAt(h, known, mutations, p)
    <3>1. CASE p = {}
      BY <3>1 DEF UnknownAt
    <3>2. CASE p # {}
      <4>1. Max(p) \in p
        <5>1. p \subseteq Int /\ IsFiniteSet(p)
          BY <1>1
        <5>2. QED
          BY <3>2, <5>1, MaxIs
      <4>2. Cardinality(p \ {Max(p)}) <= k /\ p \ {Max(p)} \in D
        BY <1>1, <2>3, <4>1, FS_RemoveElement
      <4>3. h[p \ {Max(p)}] = g[p \ {Max(p)}]
        BY <2>2, <4>2
      <4>4. QED
        BY <3>2, <4>3 DEF UnknownAt
    <3>3. QED
      BY <3>1, <3>2
  <2>4. h = [p \in D |-> h[p]]
    OBVIOUS
  <2>5. Good(h, k + 1)
    BY <2>3
  <2> HIDE DEF h, Good
  <2>6. \E f : f = [p \in D |-> f[p]] /\ Good(f, k + 1)
    BY <2>4, <2>5, Zenon
  <2>7. QED
    BY <2>6
<1>4. N = Nat
  <2> HIDE DEF N
  <2>1. N \subseteq Nat
    BY DEF N
  <2>2. QED
    BY <1>2, <1>3, <2>1, NatInd
<1>5. n \in N /\ \A p \in D : Cardinality(p) <= n
  <2>1. IsFiniteSet(1..n) /\ Cardinality(1..n) = n
    BY FS_Interval
  <2>2. ASSUME NEW p \in D PROVE Cardinality(p) <= n
    <3>1. Cardinality(p) <= Cardinality(1..n)
      BY <2>1, FS_Subset
    <3>2. QED
      BY <2>1, <3>1
  <2>3. QED
    BY <1>4, <2>2
<1>6. PICK g : g = [p \in D |-> g[p]] /\ Good(g, n)
  BY <1>5
<1>7. \A p \in D : UnknownAt(g, known, mutations, p)
  BY <1>5, <1>6
<1>8. g = [p \in D |-> IF p = {} THEN <<>> ELSE UnknownStep(known, g[p \ {Max(p)}], mutations[Max(p)])]
  BY <1>6, <1>7 DEF UnknownAt
<1>9. UnknownFold(g, known, mutations)
  BY <1>8, Zenon DEF UnknownFold
<1>10. QED
  BY <1>9

UnknownRun(c, known, mutations, n) ==
    /\ c[0] = <<>> /\ c[n] = Unknown(known, mutations)
    /\ \A k \in 0..(n - 1) : c[k + 1] = UnknownStep(known, c[k], mutations[k + 1])

(* and a sequence with one element more takes one step more.               *)
LEMMA UnknownSteps ==
    ASSUME NEW known, NEW mutations, NEW n \in Nat, DOMAIN mutations = 1..n
    PROVE  \E c : UnknownRun(c, known, mutations, n)
<1>1. PICK iter : iter = (CHOOSE f : UnknownFold(f, known, mutations)) /\ UnknownFold(iter, known, mutations)
  BY UnknownExists, Zenon
<1>2. Unknown(known, mutations) = iter[1..n]
  BY <1>1, UnknownIsFold, Zenon
<1>3. \A p \in SUBSET (1..n) :
        iter[p] = IF p = {} THEN <<>> ELSE UnknownStep(known, iter[p \ {Max(p)}], mutations[Max(p)])
  BY <1>1, Zenon DEF UnknownFold
<1> DEFINE c == [k \in 0..n |-> iter[1..k]]
<1>4. c[0] = <<>>
  <2>1. 1..0 = {} /\ {} \in SUBSET (1..n) /\ 0 \in 0..n
    OBVIOUS
  <2>2. QED
    BY <1>3, <2>1
<1>5. ASSUME NEW k \in 0..(n - 1) PROVE c[k + 1] = UnknownStep(known, c[k], mutations[k + 1])
  <2>1. k \in 0..n /\ k + 1 \in 0..n
    OBVIOUS
  <2>2. PICK p : p = 1..(k + 1)
    OBVIOUS
  <2>3. p \in SUBSET (1..n) /\ p # {} /\ Max(p) = k + 1 /\ p \ {k + 1} = 1..k
    BY <2>2, PrefixIs
  <2>4. iter[p] = UnknownStep(known, iter[1..k], mutations[k + 1])
    BY <1>3, <2>3
  <2>5. QED
    BY <2>1, <2>2, <2>4
<1>6. c[n] = Unknown(known, mutations)
  BY <1>2
<1> HIDE DEF c
<1>7. QED
  BY <1>4, <1>5, <1>6 DEF UnknownRun

(* The replay of the mutations that lie over the calendars.                *)
ReappliedFold(iter, at, mutations) ==
    iter = [p \in SUBSET DOMAIN mutations |->
              IF p = {} THEN at ELSE Overlaid(iter[p \ {Max(p)}], mutations[Max(p)])]
ReappliedAt(iter, at, mutations, p) ==
    iter[p] = IF p = {} THEN at ELSE Overlaid(iter[p \ {Max(p)}], mutations[Max(p)])

(* The fold of the replay is a function of the position,                   *)
LEMMA ReappliedIsFold ==
    ASSUME NEW at, NEW mutations PROVE Reapplied(at, mutations) = (CHOOSE iter : ReappliedFold(iter, at, mutations))[DOMAIN mutations]
BY Zenon DEF Reapplied, FoldLeft, MapThenFoldSet, ReappliedFold

(* which exists,                                                           *)
LEMMA ReappliedExists ==
    ASSUME NEW at, NEW mutations, NEW n \in Nat, DOMAIN mutations = 1..n
    PROVE  \E iter : ReappliedFold(iter, at, mutations)
<1> DEFINE D == SUBSET (1..n)
           Good(g, k) == \A p \in D : Cardinality(p) <= k => ReappliedAt(g, at, mutations, p)
           N == {k \in Nat : \E g : g = [p \in D |-> g[p]] /\ Good(g, k)}
<1>1. \A p \in D : IsFiniteSet(p) /\ Cardinality(p) \in Nat
  <2>1. IsFiniteSet(1..n)
    BY FS_Interval
  <2>2. QED
    BY <2>1, FS_Subset, FS_CardinalityType
<1>2. 0 \in N
  <2> DEFINE g == [p \in D |-> at]
  <2>1. Good(g, 0)
    BY <1>1, FS_EmptySet DEF ReappliedAt
  <2>2. QED
    BY <2>1, Zenon
<1>3. ASSUME NEW k \in N PROVE k + 1 \in N
  <2>1. PICK g : g = [p \in D |-> g[p]] /\ Good(g, k)
    OBVIOUS
  <2> DEFINE h == [p \in D |-> IF p = {} THEN at
                               ELSE Overlaid(g[p \ {Max(p)}], mutations[Max(p)])]
  <2>2. ASSUME NEW p \in D, Cardinality(p) <= k PROVE h[p] = g[p]
    BY <2>1, <2>2 DEF ReappliedAt
  <2>3. ASSUME NEW p \in D, Cardinality(p) <= k + 1 PROVE ReappliedAt(h, at, mutations, p)
    <3>1. CASE p = {}
      BY <3>1 DEF ReappliedAt
    <3>2. CASE p # {}
      <4>1. Max(p) \in p
        <5>1. p \subseteq Int /\ IsFiniteSet(p)
          BY <1>1
        <5>2. QED
          BY <3>2, <5>1, MaxIs
      <4>2. Cardinality(p \ {Max(p)}) <= k /\ p \ {Max(p)} \in D
        BY <1>1, <2>3, <4>1, FS_RemoveElement
      <4>3. h[p \ {Max(p)}] = g[p \ {Max(p)}]
        BY <2>2, <4>2
      <4>4. QED
        BY <3>2, <4>3 DEF ReappliedAt
    <3>3. QED
      BY <3>1, <3>2
  <2>4. h = [p \in D |-> h[p]]
    OBVIOUS
  <2>5. Good(h, k + 1)
    BY <2>3
  <2> HIDE DEF h, Good
  <2>6. \E f : f = [p \in D |-> f[p]] /\ Good(f, k + 1)
    BY <2>4, <2>5, Zenon
  <2>7. QED
    BY <2>6
<1>4. N = Nat
  <2> HIDE DEF N
  <2>1. N \subseteq Nat
    BY DEF N
  <2>2. QED
    BY <1>2, <1>3, <2>1, NatInd
<1>5. n \in N /\ \A p \in D : Cardinality(p) <= n
  <2>1. IsFiniteSet(1..n) /\ Cardinality(1..n) = n
    BY FS_Interval
  <2>2. ASSUME NEW p \in D PROVE Cardinality(p) <= n
    <3>1. Cardinality(p) <= Cardinality(1..n)
      BY <2>1, FS_Subset
    <3>2. QED
      BY <2>1, <3>1
  <2>3. QED
    BY <1>4, <2>2
<1>6. PICK g : g = [p \in D |-> g[p]] /\ Good(g, n)
  BY <1>5
<1>7. \A p \in D : ReappliedAt(g, at, mutations, p)
  BY <1>5, <1>6
<1>8. g = [p \in D |-> IF p = {} THEN at ELSE Overlaid(g[p \ {Max(p)}], mutations[Max(p)])]
  BY <1>6, <1>7 DEF ReappliedAt
<1>9. ReappliedFold(g, at, mutations)
  BY <1>8, Zenon DEF ReappliedFold
<1>10. QED
  BY <1>9

ReappliedRun(c, at, mutations, n) ==
    /\ c[0] = at /\ c[n] = Reapplied(at, mutations)
    /\ \A k \in 0..(n - 1) : c[k + 1] = Overlaid(c[k], mutations[k + 1])

(* and a sequence with one element more takes one step more.               *)
LEMMA ReappliedSteps ==
    ASSUME NEW at, NEW mutations, NEW n \in Nat, DOMAIN mutations = 1..n
    PROVE  \E c : ReappliedRun(c, at, mutations, n)
<1>1. PICK iter : iter = (CHOOSE f : ReappliedFold(f, at, mutations)) /\ ReappliedFold(iter, at, mutations)
  BY ReappliedExists, Zenon
<1>2. Reapplied(at, mutations) = iter[1..n]
  BY <1>1, ReappliedIsFold, Zenon
<1>3. \A p \in SUBSET (1..n) :
        iter[p] = IF p = {} THEN at ELSE Overlaid(iter[p \ {Max(p)}], mutations[Max(p)])
  BY <1>1, Zenon DEF ReappliedFold
<1> DEFINE c == [k \in 0..n |-> iter[1..k]]
<1>4. c[0] = at
  <2>1. 1..0 = {} /\ {} \in SUBSET (1..n) /\ 0 \in 0..n
    OBVIOUS
  <2>2. QED
    BY <1>3, <2>1
<1>5. ASSUME NEW k \in 0..(n - 1) PROVE c[k + 1] = Overlaid(c[k], mutations[k + 1])
  <2>1. k \in 0..n /\ k + 1 \in 0..n
    OBVIOUS
  <2>2. PICK p : p = 1..(k + 1)
    OBVIOUS
  <2>3. p \in SUBSET (1..n) /\ p # {} /\ Max(p) = k + 1 /\ p \ {k + 1} = 1..k
    BY <2>2, PrefixIs
  <2>4. iter[p] = Overlaid(iter[1..k], mutations[k + 1])
    BY <1>3, <2>3
  <2>5. QED
    BY <2>1, <2>2, <2>4
<1>6. c[n] = Reapplied(at, mutations)
  BY <1>2
<1> HIDE DEF c
<1>7. QED
  BY <1>4, <1>5, <1>6 DEF ReappliedRun

(* The simulation, one mutation after the other.                           *)
Steps(at, mutations) == FoldLeft(Step, at, mutations)
StepsFold(iter, at, mutations) ==
    iter = [p \in SUBSET DOMAIN mutations |->
              IF p = {} THEN at ELSE Step(iter[p \ {Max(p)}], mutations[Max(p)])]
StepsAt(iter, at, mutations, p) ==
    iter[p] = IF p = {} THEN at ELSE Step(iter[p \ {Max(p)}], mutations[Max(p)])

(* The fold of the simulation is a function of the position,               *)
LEMMA StepsIsFold ==
    ASSUME NEW at, NEW mutations PROVE Steps(at, mutations) = (CHOOSE iter : StepsFold(iter, at, mutations))[DOMAIN mutations]
BY Zenon DEF Steps, FoldLeft, MapThenFoldSet, StepsFold

(* which exists,                                                           *)
LEMMA StepsExists ==
    ASSUME NEW at, NEW mutations, NEW n \in Nat, DOMAIN mutations = 1..n
    PROVE  \E iter : StepsFold(iter, at, mutations)
<1> DEFINE D == SUBSET (1..n)
           Good(g, k) == \A p \in D : Cardinality(p) <= k => StepsAt(g, at, mutations, p)
           N == {k \in Nat : \E g : g = [p \in D |-> g[p]] /\ Good(g, k)}
<1>1. \A p \in D : IsFiniteSet(p) /\ Cardinality(p) \in Nat
  <2>1. IsFiniteSet(1..n)
    BY FS_Interval
  <2>2. QED
    BY <2>1, FS_Subset, FS_CardinalityType
<1>2. 0 \in N
  <2> DEFINE g == [p \in D |-> at]
  <2>1. Good(g, 0)
    BY <1>1, FS_EmptySet DEF StepsAt
  <2>2. QED
    BY <2>1, Zenon
<1>3. ASSUME NEW k \in N PROVE k + 1 \in N
  <2>1. PICK g : g = [p \in D |-> g[p]] /\ Good(g, k)
    OBVIOUS
  <2> DEFINE h == [p \in D |-> IF p = {} THEN at
                               ELSE Step(g[p \ {Max(p)}], mutations[Max(p)])]
  <2>2. ASSUME NEW p \in D, Cardinality(p) <= k PROVE h[p] = g[p]
    BY <2>1, <2>2 DEF StepsAt
  <2>3. ASSUME NEW p \in D, Cardinality(p) <= k + 1 PROVE StepsAt(h, at, mutations, p)
    <3>1. CASE p = {}
      BY <3>1 DEF StepsAt
    <3>2. CASE p # {}
      <4>1. Max(p) \in p
        <5>1. p \subseteq Int /\ IsFiniteSet(p)
          BY <1>1
        <5>2. QED
          BY <3>2, <5>1, MaxIs
      <4>2. Cardinality(p \ {Max(p)}) <= k /\ p \ {Max(p)} \in D
        BY <1>1, <2>3, <4>1, FS_RemoveElement
      <4>3. h[p \ {Max(p)}] = g[p \ {Max(p)}]
        BY <2>2, <4>2
      <4>4. QED
        BY <3>2, <4>3 DEF StepsAt
    <3>3. QED
      BY <3>1, <3>2
  <2>4. h = [p \in D |-> h[p]]
    OBVIOUS
  <2>5. Good(h, k + 1)
    BY <2>3
  <2> HIDE DEF h, Good
  <2>6. \E f : f = [p \in D |-> f[p]] /\ Good(f, k + 1)
    BY <2>4, <2>5, Zenon
  <2>7. QED
    BY <2>6
<1>4. N = Nat
  <2> HIDE DEF N
  <2>1. N \subseteq Nat
    BY DEF N
  <2>2. QED
    BY <1>2, <1>3, <2>1, NatInd
<1>5. n \in N /\ \A p \in D : Cardinality(p) <= n
  <2>1. IsFiniteSet(1..n) /\ Cardinality(1..n) = n
    BY FS_Interval
  <2>2. ASSUME NEW p \in D PROVE Cardinality(p) <= n
    <3>1. Cardinality(p) <= Cardinality(1..n)
      BY <2>1, FS_Subset
    <3>2. QED
      BY <2>1, <3>1
  <2>3. QED
    BY <1>4, <2>2
<1>6. PICK g : g = [p \in D |-> g[p]] /\ Good(g, n)
  BY <1>5
<1>7. \A p \in D : StepsAt(g, at, mutations, p)
  BY <1>5, <1>6
<1>8. g = [p \in D |-> IF p = {} THEN at ELSE Step(g[p \ {Max(p)}], mutations[Max(p)])]
  BY <1>6, <1>7 DEF StepsAt
<1>9. StepsFold(g, at, mutations)
  BY <1>8, Zenon DEF StepsFold
<1>10. QED
  BY <1>9

StepsRun(c, at, mutations, n) ==
    /\ c[0] = at /\ c[n] = Steps(at, mutations)
    /\ \A k \in 0..(n - 1) : c[k + 1] = Step(c[k], mutations[k + 1])

(* and a sequence with one element more takes one step more.               *)
LEMMA StepsSteps ==
    ASSUME NEW at, NEW mutations, NEW n \in Nat, DOMAIN mutations = 1..n
    PROVE  \E c : StepsRun(c, at, mutations, n)
<1>1. PICK iter : iter = (CHOOSE f : StepsFold(f, at, mutations)) /\ StepsFold(iter, at, mutations)
  BY StepsExists, Zenon
<1>2. Steps(at, mutations) = iter[1..n]
  BY <1>1, StepsIsFold, Zenon
<1>3. \A p \in SUBSET (1..n) :
        iter[p] = IF p = {} THEN at ELSE Step(iter[p \ {Max(p)}], mutations[Max(p)])
  BY <1>1, Zenon DEF StepsFold
<1> DEFINE c == [k \in 0..n |-> iter[1..k]]
<1>4. c[0] = at
  <2>1. 1..0 = {} /\ {} \in SUBSET (1..n) /\ 0 \in 0..n
    OBVIOUS
  <2>2. QED
    BY <1>3, <2>1
<1>5. ASSUME NEW k \in 0..(n - 1) PROVE c[k + 1] = Step(c[k], mutations[k + 1])
  <2>1. k \in 0..n /\ k + 1 \in 0..n
    OBVIOUS
  <2>2. PICK p : p = 1..(k + 1)
    OBVIOUS
  <2>3. p \in SUBSET (1..n) /\ p # {} /\ Max(p) = k + 1 /\ p \ {k + 1} = 1..k
    BY <2>2, PrefixIs
  <2>4. iter[p] = Step(iter[1..k], mutations[k + 1])
    BY <1>3, <2>3
  <2>5. QED
    BY <2>1, <2>2, <2>4
<1>6. c[n] = Steps(at, mutations)
  BY <1>2
<1> HIDE DEF c
<1>7. QED
  BY <1>4, <1>5, <1>6 DEF StepsRun

(* The demand of a sku, one mutation after the other.                       *)
HistoryFold(iter, sku, mutations) ==
    iter = [p \in SUBSET DOMAIN mutations |->
              IF p = {} THEN ImportedDemand(sku) ELSE Changed(sku, iter[p \ {Max(p)}], mutations[Max(p)])]
HistoryAt(iter, sku, mutations, p) ==
    iter[p] = IF p = {} THEN ImportedDemand(sku) ELSE Changed(sku, iter[p \ {Max(p)}], mutations[Max(p)])

(* The fold of the demand after some mutations is a function of the position, *)
LEMMA HistoryIsFold ==
    ASSUME NEW sku, NEW mutations PROVE History(sku, mutations) = (CHOOSE iter : HistoryFold(iter, sku, mutations))[DOMAIN mutations]
BY Zenon DEF History, FoldLeft, MapThenFoldSet, HistoryFold, Changed

(* which exists,                                                           *)
LEMMA HistoryExists ==
    ASSUME NEW sku, NEW mutations, NEW n \in Nat, DOMAIN mutations = 1..n
    PROVE  \E iter : HistoryFold(iter, sku, mutations)
<1> DEFINE D == SUBSET (1..n)
           Good(g, k) == \A p \in D : Cardinality(p) <= k => HistoryAt(g, sku, mutations, p)
           N == {k \in Nat : \E g : g = [p \in D |-> g[p]] /\ Good(g, k)}
<1>1. \A p \in D : IsFiniteSet(p) /\ Cardinality(p) \in Nat
  <2>1. IsFiniteSet(1..n)
    BY FS_Interval
  <2>2. QED
    BY <2>1, FS_Subset, FS_CardinalityType
<1>2. 0 \in N
  <2> DEFINE g == [p \in D |-> ImportedDemand(sku)]
  <2>1. Good(g, 0)
    BY <1>1, FS_EmptySet DEF HistoryAt
  <2>2. QED
    BY <2>1, Zenon
<1>3. ASSUME NEW k \in N PROVE k + 1 \in N
  <2>1. PICK g : g = [p \in D |-> g[p]] /\ Good(g, k)
    OBVIOUS
  <2> DEFINE h == [p \in D |-> IF p = {} THEN ImportedDemand(sku)
                               ELSE Changed(sku, g[p \ {Max(p)}], mutations[Max(p)])]
  <2>2. ASSUME NEW p \in D, Cardinality(p) <= k PROVE h[p] = g[p]
    BY <2>1, <2>2 DEF HistoryAt
  <2>3. ASSUME NEW p \in D, Cardinality(p) <= k + 1 PROVE HistoryAt(h, sku, mutations, p)
    <3>1. CASE p = {}
      BY <3>1 DEF HistoryAt
    <3>2. CASE p # {}
      <4>1. Max(p) \in p
        <5>1. p \subseteq Int /\ IsFiniteSet(p)
          BY <1>1
        <5>2. QED
          BY <3>2, <5>1, MaxIs
      <4>2. Cardinality(p \ {Max(p)}) <= k /\ p \ {Max(p)} \in D
        BY <1>1, <2>3, <4>1, FS_RemoveElement
      <4>3. h[p \ {Max(p)}] = g[p \ {Max(p)}]
        BY <2>2, <4>2
      <4>4. QED
        BY <3>2, <4>3 DEF HistoryAt
    <3>3. QED
      BY <3>1, <3>2
  <2>4. h = [p \in D |-> h[p]]
    OBVIOUS
  <2>5. Good(h, k + 1)
    BY <2>3
  <2> HIDE DEF h, Good
  <2>6. \E f : f = [p \in D |-> f[p]] /\ Good(f, k + 1)
    BY <2>4, <2>5, Zenon
  <2>7. QED
    BY <2>6
<1>4. N = Nat
  <2> HIDE DEF N
  <2>1. N \subseteq Nat
    BY DEF N
  <2>2. QED
    BY <1>2, <1>3, <2>1, NatInd
<1>5. n \in N /\ \A p \in D : Cardinality(p) <= n
  <2>1. IsFiniteSet(1..n) /\ Cardinality(1..n) = n
    BY FS_Interval
  <2>2. ASSUME NEW p \in D PROVE Cardinality(p) <= n
    <3>1. Cardinality(p) <= Cardinality(1..n)
      BY <2>1, FS_Subset
    <3>2. QED
      BY <2>1, <3>1
  <2>3. QED
    BY <1>4, <2>2
<1>6. PICK g : g = [p \in D |-> g[p]] /\ Good(g, n)
  BY <1>5
<1>7. \A p \in D : HistoryAt(g, sku, mutations, p)
  BY <1>5, <1>6
<1>8. g = [p \in D |-> IF p = {} THEN ImportedDemand(sku) ELSE Changed(sku, g[p \ {Max(p)}], mutations[Max(p)])]
  BY <1>6, <1>7 DEF HistoryAt
<1>9. HistoryFold(g, sku, mutations)
  BY <1>8, Zenon DEF HistoryFold
<1>10. QED
  BY <1>9

HistoryRun(c, sku, mutations, n) ==
    /\ c[0] = ImportedDemand(sku) /\ c[n] = History(sku, mutations)
    /\ \A k \in 0..(n - 1) : c[k + 1] = Changed(sku, c[k], mutations[k + 1])

(* and a sequence with one element more takes one step more.               *)
LEMMA HistorySteps ==
    ASSUME NEW sku, NEW mutations, NEW n \in Nat, DOMAIN mutations = 1..n
    PROVE  \E c : HistoryRun(c, sku, mutations, n)
<1>1. PICK iter : iter = (CHOOSE f : HistoryFold(f, sku, mutations)) /\ HistoryFold(iter, sku, mutations)
  BY HistoryExists, Zenon
<1>2. History(sku, mutations) = iter[1..n]
  BY <1>1, HistoryIsFold, Zenon
<1>3. \A p \in SUBSET (1..n) :
        iter[p] = IF p = {} THEN ImportedDemand(sku) ELSE Changed(sku, iter[p \ {Max(p)}], mutations[Max(p)])
  BY <1>1, Zenon DEF HistoryFold
<1> DEFINE c == [k \in 0..n |-> iter[1..k]]
<1>4. c[0] = ImportedDemand(sku)
  <2>1. 1..0 = {} /\ {} \in SUBSET (1..n) /\ 0 \in 0..n
    OBVIOUS
  <2>2. QED
    BY <1>3, <2>1
<1>5. ASSUME NEW k \in 0..(n - 1) PROVE c[k + 1] = Changed(sku, c[k], mutations[k + 1])
  <2>1. k \in 0..n /\ k + 1 \in 0..n
    OBVIOUS
  <2>2. PICK p : p = 1..(k + 1)
    OBVIOUS
  <2>3. p \in SUBSET (1..n) /\ p # {} /\ Max(p) = k + 1 /\ p \ {k + 1} = 1..k
    BY <2>2, PrefixIs
  <2>4. iter[p] = Changed(sku, iter[1..k], mutations[k + 1])
    BY <1>3, <2>3
  <2>5. QED
    BY <2>1, <2>2, <2>4
<1>6. c[n] = History(sku, mutations)
  BY <1>2
<1> HIDE DEF c
<1>7. QED
  BY <1>4, <1>5, <1>6 DEF HistoryRun

-----------------------------------------------------------------------------
(* The orders of a sku.                                                    *)

(* Orders which may have come to nothing.                                  *)
Loose(n) == [client : Clients \cup {"own"}, day : 0..(n - 1), qty : Nat]

TraceIs(t, n) ==
    /\ Len(t) \in Nat /\ DOMAIN t = 1..Len(t) /\ IsFiniteSet(DOMAIN t)
    /\ \A i \in DOMAIN t : /\ t[i] \in Loose(n) /\ t[i].day \in 0..(n - 1) /\ t[i].qty \in Nat
                           /\ Quantities(t)[i] = t[i].qty /\ Quantities(t)[i] \in Nat
    /\ \A x : IsFiniteSet(Due(t, x)) /\ Due(t, x) \subseteq DOMAIN t /\ Ordered(t, x) \in Nat

(* What can be read of the orders of a sku,                                *)
LEMMA TracesAre ==
    ASSUME NEW n \in Nat, NEW t \in Seq(Loose(n))
    PROVE  TraceIs(t, n)
<1>1. PICK L \in Nat : L = Len(t) /\ DOMAIN t = 1..L /\ \A i \in 1..L : t[i] \in Loose(n)
  OBVIOUS
<1>2. \A e \in Loose(n) : e.day \in 0..(n - 1) /\ e.qty \in Nat
  BY DEF Loose
<1>3. IsFiniteSet(DOMAIN t)
  BY <1>1, FS_Interval
<1>4. \A i \in DOMAIN t : /\ t[i] \in Loose(n) /\ t[i].day \in 0..(n - 1) /\ t[i].qty \in Nat
                          /\ Quantities(t)[i] = t[i].qty /\ Quantities(t)[i] \in Nat
  BY <1>1, <1>2 DEF Quantities
<1>5. ASSUME NEW x PROVE IsFiniteSet(Due(t, x)) /\ Due(t, x) \subseteq DOMAIN t /\ Ordered(t, x) \in Nat
  <2>1. Due(t, x) \subseteq DOMAIN t
    BY DEF Due
  <2>2. IsFiniteSet(Due(t, x))
    BY <1>3, <2>1, FS_Subset
  <2>3. \A i \in Due(t, x) : Quantities(t)[i] \in Nat
    BY <1>4, <2>1
  <2>4. SumOver(Quantities(t), Due(t, x)) \in Nat
    BY <2>2, <2>3, SumIsNat
  <2>5. QED
    BY <2>1, <2>2, <2>4 DEF Ordered
<1>6. QED
  BY <1>1, <1>3, <1>4, <1>5 DEF TraceIs

(* also while some of them may be empty.                                   *)
LEMMA EntriesLoose == ASSUME NEW n \in Nat PROVE Entries(n) \subseteq Loose(n) /\ Seq(Entries(n)) \subseteq Seq(Loose(n))
<1>1. Entries(n) \subseteq Loose(n)
  BY DEF Entries, Loose
<1>2. QED
  BY <1>1

(* Without orders nothing is due;                                          *)
LEMMA OrderedNothing == ASSUME NEW x PROVE Ordered(<<>>, x) = 0
<1>1. Due(<<>>, x) = {}
  BY DEF Due
<1>2. QED
  BY <1>1, SumEmpty DEF Ordered

(* An order more adds to its day.                                          *)
OneMore(u, t, e) == u = Append(t, e)

(* one order more adds its quantity to its day.                            *)
LEMMA OrderedMore ==
    ASSUME NEW n \in Nat, NEW t \in Seq(Loose(n)), NEW e \in Loose(n), NEW u, OneMore(u, t, e), NEW x
    PROVE  Ordered(u, x) = Ordered(t, x) + (IF e.day = x THEN e.qty ELSE 0)
<1>1. PICK L \in Nat : L = Len(t) /\ DOMAIN t = 1..L
  OBVIOUS
<1>2. u \in Seq(Loose(n)) /\ DOMAIN u = 1..(L + 1) /\ u[L + 1] = e /\ \A i \in 1..L : u[i] = t[i]
  BY <1>1 DEF OneMore
<1>3. TraceIs(t, n) /\ TraceIs(u, n)
  BY <1>2, TracesAre
<1>4. PICK p, q : p = Quantities(t) /\ q = Quantities(u)
  OBVIOUS
<1>5. PICK S, T : S = Due(t, x) /\ T = Due(u, x)
  OBVIOUS
<1>6. IsFiniteSet(S) /\ S \subseteq 1..L /\ L + 1 \notin S /\ SumOver(p, S) \in Nat
      /\ \A i \in S : p[i] = q[i] /\ q[i] \in Int
  <2>1. IsFiniteSet(S) /\ S \subseteq 1..L /\ SumOver(p, S) \in Nat
    BY <1>1, <1>3, <1>4, <1>5 DEF TraceIs, Ordered
  <2>2. ASSUME NEW i \in S PROVE p[i] = q[i] /\ q[i] \in Int
    <3>1. i \in DOMAIN t /\ i \in DOMAIN u /\ u[i] = t[i]
      BY <1>1, <1>2, <2>1
    <3>2. QED
      BY <1>3, <1>4, <3>1 DEF TraceIs
  <2>3. QED
    BY <2>1, <2>2
<1>7. SumOver(q, S) = SumOver(p, S)
  BY <1>6, SumSame
<1>8. q[L + 1] = e.qty /\ e.qty \in Nat
  <2>1. L + 1 \in DOMAIN u
    BY <1>2
  <2>2. QED
    BY <1>2, <1>3, <1>4, <2>1 DEF TraceIs
<1>9. CASE e.day = x
  <2>1. T = S \cup {L + 1}
    BY <1>1, <1>2, <1>5, <1>9 DEF Due
  <2>2. \A i \in S \cup {L + 1} : q[i] \in Int
    BY <1>6, <1>8
  <2>3. SumOver(q, S \cup {L + 1}) = q[L + 1] + SumOver(q, S)
    BY <1>6, <2>2, SumAdd
  <2>4. QED
    BY <1>4, <1>5, <1>6, <1>7, <1>8, <1>9, <2>1, <2>3 DEF Ordered
<1>10. CASE e.day # x
  <2>1. T = S
    BY <1>1, <1>2, <1>5, <1>10 DEF Due
  <2>2. QED
    BY <1>4, <1>5, <1>6, <1>7, <1>10, <2>1 DEF Ordered
<1>11. QED
  BY <1>9, <1>10

(* What is kept of the orders is of those positions.                       *)
KeptOk(r, t, its, W) ==
    r \in Seq(W) /\ \A x : Ordered(r, x) = SumOver(Quantities(t), Due(t, x) \cap its)

(* Kept orders are orders, and what is due is that of the kept positions.  *)
LEMMA KeptIs ==
    ASSUME NEW n \in Nat, NEW t \in Seq(Loose(n)), NEW W, W \subseteq Loose(n),
           NEW its, its \subseteq DOMAIN t, \A i \in its : t[i] \in W
    PROVE  KeptOk(Kept(t, its), t, its, W)
<1>1. PICK L \in Nat : L = Len(t) /\ DOMAIN t = 1..L
  OBVIOUS
<1>2. TraceIs(t, n)
  BY TracesAre
<1>3. DOMAIN Positions(t) = 1..L /\ \A i \in 1..L : Positions(t)[i] = i
  BY <1>1 DEF Positions
<1>4. PICK c : /\ c[0] = <<>> /\ c[L] = Kept(t, its)
               /\ \A k \in 0..(L - 1) : c[k + 1] = KeptStep(t, its, c[k], Positions(t)[k + 1])
  BY <1>3, KeptSteps DEF KeptRun
<1> DEFINE P == {k \in Nat : k <= L => KeptOk(c[k], t, its \cap (1..k), W)}
<1>5. 0 \in P
  <2>1. <<>> \in Seq(W)
    BY EmptySeq
  <2>2. ASSUME NEW x PROVE Ordered(<<>>, x) = SumOver(Quantities(t), Due(t, x) \cap (its \cap (1..0)))
    <3>1. Due(t, x) \cap (its \cap (1..0)) = {}
      OBVIOUS
    <3>2. QED
      BY <3>1, OrderedNothing, SumEmpty
  <2>3. KeptOk(<<>>, t, its \cap (1..0), W)
    BY <2>1, <2>2 DEF KeptOk
  <2>4. QED
    BY <1>4, <2>3
<1>6. ASSUME NEW k \in P PROVE k + 1 \in P
  <2>1. SUFFICES ASSUME k \in Nat, k + 1 <= L PROVE KeptOk(c[k + 1], t, its \cap (1..(k + 1)), W)
    OBVIOUS
  <2>2. k \in 0..(L - 1) /\ k + 1 \in 1..L /\ KeptOk(c[k], t, its \cap (1..k), W)
    BY <2>1
  <2>3. PICK r, j : r = c[k] /\ j = k + 1 /\ j \in 1..L /\ j \in DOMAIN t
    BY <1>1, <2>2
  <2>4. c[j] = IF j \in its THEN Append(r, t[j]) ELSE r
    BY <1>3, <1>4, <2>2, <2>3 DEF KeptStep
  <2>5. r \in Seq(W) /\ r \in Seq(Loose(n))
        /\ \A x : Ordered(r, x) = SumOver(Quantities(t), Due(t, x) \cap (its \cap (1..k)))
    BY <2>2, <2>3 DEF KeptOk
  <2>6. CASE j \notin its
    <3>1. its \cap (1..(k + 1)) = its \cap (1..k)
      BY <2>1, <2>3, <2>6
    <3>2. QED
      BY <2>2, <2>3, <2>4, <2>6, <3>1
  <2>7. CASE j \in its
    <3>1. PICK e \in W : e = t[j] /\ e \in Loose(n)
      BY <2>7
    <3>0. r \in Seq(W)
      BY <2>5
    <3>c. Append(r, e) \in Seq(W)
      BY <3>0, <3>1
    <3>a. PICK u \in Seq(W) : u = Append(r, e) /\ OneMore(u, r, e)
      BY <3>c, Zenon DEF OneMore
    <3>2. u = c[j]
      BY <2>4, <2>7, <3>1, <3>a
    <3>b. r \in Seq(Loose(n)) /\ e \in Loose(n)
      BY <2>5, <3>1
    <3>3. ASSUME NEW x PROVE Ordered(u, x) = SumOver(Quantities(t), Due(t, x) \cap (its \cap (1..(k + 1))))
      <4>1. Ordered(u, x) = Ordered(r, x) + (IF e.day = x THEN e.qty ELSE 0)
        BY <3>a, <3>b, OrderedMore
      <4>2. PICK S, T, q : /\ S = Due(t, x) \cap (its \cap (1..k)) /\ T = Due(t, x) \cap (its \cap (1..(k + 1)))
                           /\ q = Quantities(t)
        OBVIOUS
      <4>3. SumOver(q, S) = Ordered(r, x)
        BY <2>5, <4>2
      <4>4. IsFiniteSet(S) /\ S \subseteq DOMAIN t /\ j \notin S /\ \A i \in S \cup {j} : q[i] \in Nat
        <5>1. S \subseteq Due(t, x) /\ j \notin S
          BY <2>1, <2>3, <4>2
        <5>2. IsFiniteSet(S) /\ S \subseteq DOMAIN t
          BY <1>2, <5>1, FS_Subset DEF TraceIs
        <5>3. QED
          BY <1>2, <2>3, <4>2, <5>1, <5>2 DEF TraceIs
      <4>5. q[j] = e.qty
        BY <1>2, <2>3, <3>1, <4>2 DEF TraceIs
      <4>6. CASE e.day = x
        <5>1. T = S \cup {j}
          BY <1>1, <2>1, <2>3, <2>7, <3>1, <4>2, <4>6 DEF Due
        <5>2. SumOver(q, S \cup {j}) = q[j] + SumOver(q, S)
          <6>1. \A i \in S \cup {j} : q[i] \in Int
            BY <4>4
          <6>2. QED
            BY <4>4, <6>1, SumAdd
        <5>3. q[j] \in Nat /\ SumOver(q, S) \in Nat
          <6>1. \A i \in S : q[i] \in Nat
            BY <4>4
          <6>2. QED
            BY <4>4, <6>1, SumIsNat
        <5>4. Ordered(u, x) = SumOver(q, T)
          BY <4>1, <4>3, <4>5, <4>6, <5>1, <5>2, <5>3
        <5>5. QED
          BY <4>2, <5>4
      <4>7. CASE e.day # x
        <5>1. T = S
          BY <1>1, <2>1, <2>3, <3>1, <4>2, <4>7 DEF Due
        <5>2. SumOver(q, S) \in Nat
          <6>1. \A i \in S : q[i] \in Nat
            BY <4>4
          <6>2. QED
            BY <4>4, <6>1, SumIsNat
        <5>3. Ordered(u, x) = SumOver(q, T)
          BY <4>1, <4>3, <4>7, <5>1, <5>2
        <5>4. QED
          BY <4>2, <5>3
      <4>8. QED
        BY <4>6, <4>7
    <3>4. QED
      BY <2>3, <3>a, <3>2, <3>3 DEF KeptOk
  <2>8. QED
    BY <2>6, <2>7
<1>7. P = Nat
  <2>1. P \subseteq Nat
    OBVIOUS
  <2> HIDE DEF P
  <2>2. QED
    BY <2>1, <1>5, <1>6, NatInd
<1>8. KeptOk(c[L], t, its \cap (1..L), W)
  <2>1. L \in P
    BY <1>7
  <2>2. QED
    BY <2>1
<1>9. its \cap (1..L) = its
  BY <1>1
<1>10. QED
  BY <1>4, <1>8, <1>9

-----------------------------------------------------------------------------
(* The orders of a sku that add up to its demand, day by day.              *)
TracedBy(t, f, n) ==
    t \in Seq(Entries(n)) /\ f \in Grid(n) /\ \A x \in Int : Ordered(t, x) = At(f, x)

(* It is enough that they add up on the days of the horizon.               *)
LEMMA TracedIf ==
    ASSUME NEW n \in Nat, NEW t \in Seq(Entries(n)), NEW f \in Grid(n), \A x \in Nat : Ordered(t, x) = At(f, x)
    PROVE  TracedBy(t, f, n)
<1>1. SUFFICES ASSUME NEW x \in Int, x \notin Nat PROVE Ordered(t, x) = At(f, x)
  BY DEF TracedBy
<1>2. At(f, x) = 0
  BY <1>1, GridIs
<1>3. TraceIs(t, n)
  BY EntriesLoose, TracesAre
<1>4. Due(t, x) = {}
  <2>1. \A i \in DOMAIN t : t[i].day \in 0..(n - 1)
    BY <1>3 DEF TraceIs
  <2>2. QED
    BY <1>1, <2>1 DEF Due
<1>5. QED
  BY <1>2, <1>4, SumEmpty DEF Ordered

(* The orders of a horizon are orders of a longer one,                     *)
LEMMA EntriesGrow == ASSUME NEW n \in Nat, NEW N \in Nat, n <= N PROVE Seq(Entries(n)) \subseteq Seq(Entries(N))
<1>1. Entries(n) \subseteq Entries(N)
  BY DEF Entries
<1>2. QED
  BY <1>1

(* and add up to the padded demand.                                        *)
LEMMA TracedPadded ==
    ASSUME NEW n \in Nat, NEW N \in Nat, n <= N, NEW t, NEW f, TracedBy(t, f, n)
    PROVE  TracedBy(t, Padded(f, N), N)
<1>1. f \in Grid(n) /\ t \in Seq(Entries(n)) /\ \A x \in Int : Ordered(t, x) = At(f, x)
  BY DEF TracedBy
<1>2. t \in Seq(Entries(N))
  BY <1>1, EntriesGrow
<1>3. Padded(f, N) \in Grid(N) /\ \A x \in Int : At(Padded(f, N), x) = At(f, x)
  BY <1>1, PaddedIs
<1>4. QED
  BY <1>1, <1>2, <1>3 DEF TracedBy

TraceAfterIs(t, f, n, m) == TracedBy(TraceAfter(t, DemandAfter(f, m), m), DemandAfter(f, m), AfterDays(n, m))

(* After a rush order they add up:                                         *)
LEMMA RushTraced ==
    ASSUME NEW n \in Nat, NEW t, NEW f, TracedBy(t, f, n), NEW m, Demanding(m), Placeable(m), m.type = "rush_order"
    PROVE  TraceAfterIs(t, f, n, m)
<1>1. f \in Grid(n) /\ t \in Seq(Entries(n)) /\ \A x \in Int : Ordered(t, x) = At(f, x)
  BY DEF TracedBy
<1>2. DemandAfterIs(f, n, m)
  BY <1>1, DemandAfterOk
<1>3. PICK N, g : N \in Nat /\ g \in Grid(N) /\ N = AfterDays(n, m) /\ g = DemandAfter(f, m) /\ n <= N
                                      /\ \A x \in Nat : At(g, x) = AfterAt(f, m, x)
  <2>1. PICK N : N = AfterDays(n, m)
    OBVIOUS
  <2>2. PICK g : g = DemandAfter(f, m)
    OBVIOUS
  <2>3. N \in Nat /\ n <= N /\ g \in Grid(N) /\ \A x \in Nat : At(g, x) = AfterAt(f, m, x)
    BY <1>2, <2>1, <2>2 DEF DemandAfterIs
  <2>4. QED
    BY <2>1, <2>2, <2>3
<1>4. PICK d \in Nat, q \in Nat \ {0} : d = m.day /\ q = m.qty /\ d < N
  <2>1. m.day \in Nat /\ m.qty \in Nat \ {0}
    BY DEF Demanding, Placeable
  <2>2. m.day < N
    BY <1>3, <2>1 DEF AfterDays
  <2>3. QED
    BY <2>1, <2>2
<1>5. PICK e : e = [client |-> "own", day |-> d, qty |-> q] /\ e \in Entries(N)
  <2>0. d \in 0..(N - 1)
    BY <1>3, <1>4
  <2>1. d \in 0..(N - 1) /\ "own" \in Clients \cup {"own"}
    BY <2>0
  <2>2. [client |-> "own", day |-> d, qty |-> q] \in Entries(N)
    BY <2>1 DEF Entries
  <2>3. QED
    BY <2>2
<1>6. t \in Seq(Entries(N)) /\ t \in Seq(Loose(N)) /\ e \in Loose(N)
  BY <1>1, <1>3, <1>5, EntriesGrow, EntriesLoose
<1>7. Append(t, e) \in Seq(Entries(N))
  BY <1>5, <1>6
<1>8. PICK u \in Seq(Entries(N)) : u = Append(t, e) /\ OneMore(u, t, e)
  BY <1>7, Zenon DEF OneMore
<1>9. u = TraceAfter(t, g, m)
  BY <1>4, <1>5, <1>8 DEF TraceAfter
<1>10. ASSUME NEW x \in Nat PROVE Ordered(u, x) = At(g, x)
  <2>1. Ordered(u, x) = Ordered(t, x) + (IF e.day = x THEN e.qty ELSE 0)
    BY <1>3, <1>6, <1>8, OrderedMore
  <2>2. Ordered(t, x) = At(f, x)
    BY <1>1
  <2>3. At(g, x) = At(f, x) + (IF x = m.day THEN m.qty ELSE 0)
    BY <1>3 DEF AfterAt
  <2>4. QED
    BY <1>4, <1>5, <2>1, <2>2, <2>3
<1>11. TracedBy(u, g, N)
  BY <1>3, <1>10, TracedIf
<1>12. QED
  BY <1>3, <1>9, <1>11 DEF TraceAfterIs

(* after a cancellation,                                                   *)
LEMMA CancelTraced ==
    ASSUME NEW n \in Nat, NEW t, NEW f, TracedBy(t, f, n), NEW m, Demanding(m), Placeable(m), m.type = "cancel_order"
    PROVE  TraceAfterIs(t, f, n, m)
<1>1. f \in Grid(n) /\ t \in Seq(Entries(n)) /\ \A x \in Int : Ordered(t, x) = At(f, x)
  BY DEF TracedBy
<1>2. DemandAfterIs(f, n, m)
  BY <1>1, DemandAfterOk
<1>3. PICK g \in Grid(n) : n = AfterDays(n, m) /\ g = DemandAfter(f, m)
                           /\ \A x \in Nat : At(g, x) = AfterAt(f, m, x)
  BY <1>2 DEF DemandAfterIs, AfterDays
<1>4. PICK its : its = {i \in DOMAIN t : t[i].day \notin m.start..m.end}
  OBVIOUS
<1>5. t \in Seq(Loose(n)) /\ Entries(n) \subseteq Loose(n) /\ its \subseteq DOMAIN t
      /\ \A i \in its : t[i] \in Entries(n)
  <2>1. t \in Seq(Loose(n)) /\ Entries(n) \subseteq Loose(n)
    BY <1>1, EntriesLoose
  <2>2. \A i \in DOMAIN t : t[i] \in Entries(n)
    BY <1>1
  <2>3. QED
    BY <1>4, <2>1, <2>2
<1>6. PICK u : u = Kept(t, its) /\ KeptOk(u, t, its, Entries(n))
  BY <1>5, KeptIs
<1>7. u \in Seq(Entries(n))
  BY <1>6 DEF KeptOk
<1>8. ASSUME NEW x \in Nat PROVE Ordered(u, x) = At(g, x)
  <2>1. Ordered(u, x) = SumOver(Quantities(t), Due(t, x) \cap its)
    BY <1>6 DEF KeptOk
  <2>2. At(g, x) = IF x \in m.start..m.end THEN 0 ELSE At(f, x)
    BY <1>3 DEF AfterAt
  <2>3. CASE x \in m.start..m.end
    <3>1. Due(t, x) \cap its = {}
      BY <1>4, <2>3 DEF Due
    <3>2. QED
      BY <2>1, <2>2, <2>3, <3>1, SumEmpty
  <2>4. CASE x \notin m.start..m.end
    <3>1. Due(t, x) \cap its = Due(t, x)
      BY <1>4, <2>4 DEF Due
    <3>2. Ordered(u, x) = Ordered(t, x)
      BY <2>1, <3>1 DEF Ordered
    <3>3. QED
      BY <1>1, <2>2, <2>4, <3>2
  <2>5. QED
    BY <2>3, <2>4
<1>9. TracedBy(u, g, n)
  BY <1>7, <1>8, TracedIf
<1>10. u = TraceAfter(t, g, m)
  BY <1>4, <1>6 DEF TraceAfter
<1>11. QED
  BY <1>3, <1>9, <1>10 DEF TraceAfterIs

(* after a delay,                                                          *)
LEMMA DelayTraced ==
    ASSUME NEW n \in Nat, NEW t, NEW f, TracedBy(t, f, n), NEW m, Demanding(m), Placeable(m), m.type = "delay_edd"
    PROVE  TraceAfterIs(t, f, n, m)
<1>1. f \in Grid(n) /\ t \in Seq(Entries(n)) /\ \A x \in Int : Ordered(t, x) = At(f, x)
  BY DEF TracedBy
<1>2. DemandAfterIs(f, n, m)
  BY <1>1, DemandAfterOk
<1>3. PICK k \in Nat : k = m.days
  BY DEF Placeable
<1>4. PICK N, g : N \in Nat /\ g \in Grid(N) /\ N = AfterDays(n, m) /\ N = n + k /\ g = DemandAfter(f, m)
                                      /\ \A x \in Nat : At(g, x) = AfterAt(f, m, x)
  BY <1>2, <1>3 DEF DemandAfterIs, AfterDays
<1>5. PICK L \in Nat : L = Len(t) /\ DOMAIN t = 1..L /\ \A i \in 1..L : t[i] \in Entries(n)
  BY <1>1
<1>6. PICK u : u = TraceAfter(t, g, m)
  OBVIOUS
<1>7. u = [i \in 1..L |-> [t[i] EXCEPT !.day = @ + k]]
  BY <1>3, <1>5, <1>6 DEF TraceAfter
<1>8. \A i \in 1..L : u[i] \in Entries(N) /\ u[i].day = t[i].day + k /\ u[i].qty = t[i].qty
                      /\ t[i].day \in Int
  <2>1. SUFFICES ASSUME NEW i \in 1..L
                 PROVE  u[i] \in Entries(N) /\ u[i].day = t[i].day + k /\ u[i].qty = t[i].qty /\ t[i].day \in Int
    OBVIOUS
  <2>2. PICK e \in Entries(n) : e = t[i] /\ u[i] = [e EXCEPT !.day = e.day + k]
    BY <1>5, <1>7
  <2>3. QED
    BY <1>4, <2>2 DEF Entries
<1>9. u \in Seq(Entries(N))
  BY <1>7, <1>8
<1>10. Quantities(u) = Quantities(t)
  BY <1>5, <1>7, <1>8 DEF Quantities
<1>11. ASSUME NEW x \in Nat PROVE Ordered(u, x) = At(g, x)
  <2>1. Due(u, x) = Due(t, x - k)
    BY <1>5, <1>7, <1>8 DEF Due
  <2>2. Ordered(u, x) = Ordered(t, x - k)
    BY <1>10, <2>1 DEF Ordered
  <2>3. x - k \in Int
    OBVIOUS
  <2>4. Ordered(t, x - k) = At(f, x - k)
    BY <1>1, <2>3
  <2>5. At(g, x) = At(f, x - k)
    BY <1>3, <1>4 DEF AfterAt
  <2>6. QED
    BY <2>2, <2>4, <2>5
<1>12. TracedBy(u, g, N)
  BY <1>4, <1>9, <1>11, TracedIf
<1>13. QED
  BY <1>4, <1>6, <1>12 DEF TraceAfterIs

(* The orders of some days add up to the demand of those days.             *)
OnDays(t, D) == {i \in DOMAIN t : t[i].day \in D}

(* The orders of some days add up to the demand of those days.             *)
LEMMA SumByDay ==
    ASSUME NEW n \in Nat, NEW t, NEW f, TracedBy(t, f, n), NEW D \in SUBSET (0..(n - 1))
    PROVE  SumOver(f, D) = SumOver(Quantities(t), OnDays(t, D))
<1>1. f \in Grid(n) /\ t \in Seq(Entries(n)) /\ \A x \in Int : Ordered(t, x) = At(f, x)
  BY DEF TracedBy
<1>2. PICK q : q = Quantities(t)
  OBVIOUS
<1> DEFINE In(U) == {i \in DOMAIN t : t[i].day \in U}
<1> DEFINE P == {U \in SUBSET D : SumOver(f, U) = SumOver(q, In(U))}
<1>3. TraceIs(t, n)
  BY <1>1, EntriesLoose, TracesAre
<1>4. \A x \in D : f[x] = Ordered(t, x) /\ f[x] \in Nat
  <2>1. SUFFICES ASSUME NEW x \in D PROVE f[x] = Ordered(t, x) /\ f[x] \in Nat
    OBVIOUS
  <2>2. x \in 0..(n - 1) /\ x \in Int
    OBVIOUS
  <2>3. At(f, x) = f[x] /\ f[x] \in Nat
    BY <1>1, <2>2, GridIs
  <2>4. QED
    BY <1>1, <2>2, <2>3
<1>5. IsFiniteSet(D)
  <2>1. IsFiniteSet(0..(n - 1))
    BY <1>1, GridIs
  <2>2. QED
    BY <2>1, FS_Subset
<1>6. {} \in P
  <2>1. In({}) = {}
    OBVIOUS
  <2>2. QED
    BY <2>1, SumEmpty
<1>7. ASSUME NEW U \in P, NEW x \in D, U \subseteq D, x \notin U PROVE U \cup {x} \in P
  <2>1. IsFiniteSet(U)
    BY <1>5, <1>7, FS_Subset
  <2>2. SumOver(f, U \cup {x}) = f[x] + SumOver(f, U)
    <3>1. \A y \in U \cup {x} : f[y] \in Int
      BY <1>4
    <3>2. QED
      BY <1>7, <2>1, <3>1, SumAdd
  <2>3. PICK S, T : S = Due(t, x) /\ T = In(U)
    OBVIOUS
  <2>4. IsFiniteSet(S) /\ IsFiniteSet(T) /\ S \cap T = {} /\ \A i \in T \cup S : q[i] \in Int
    <3>1. IsFiniteSet(S) /\ S \subseteq DOMAIN t /\ T \subseteq DOMAIN t /\ IsFiniteSet(DOMAIN t)
      BY <1>3, <2>3 DEF TraceIs
    <3>2. IsFiniteSet(T)
      BY <3>1, FS_Subset
    <3>3. S \cap T = {}
      BY <1>7, <2>3 DEF Due
    <3>4. \A i \in DOMAIN t : q[i] \in Int
      BY <1>2, <1>3 DEF TraceIs
    <3>5. QED
      BY <3>1, <3>2, <3>3, <3>4
  <2>5. SumOver(q, S \cup T) = SumOver(q, S) + SumOver(q, T)
    BY <2>4, SumUnion
  <2>6. In(U \cup {x}) = S \cup T
    BY <2>3 DEF Due
  <2>7. SumOver(f, U) = SumOver(q, T) /\ f[x] = SumOver(q, S)
    BY <1>2, <1>4, <2>3 DEF Ordered
  <2>8. SumOver(f, U \cup {x}) = SumOver(q, In(U \cup {x}))
    BY <2>2, <2>5, <2>6, <2>7
  <2>9. QED
    BY <2>8
<1>8. \A U \in SUBSET D : U \in P
  <2> HIDE DEF P
  <2>1. QED
    BY <1>5, <1>6, <1>7, FiniteInduction
<1>9. SumOver(f, D) = SumOver(q, In(D))
  BY <1>8
<1>10. In(D) = OnDays(t, D)
  BY DEF OnDays
<1>11. QED
  BY <1>2, <1>9, <1>10

(* after an advance,                                                       *)
LEMMA AdvanceTraced ==
    ASSUME NEW n \in Nat, NEW t, NEW f, TracedBy(t, f, n), NEW m, Demanding(m), Placeable(m), m.type = "advance_edd"
    PROVE  TraceAfterIs(t, f, n, m)
<1>1. f \in Grid(n) /\ t \in Seq(Entries(n))
  BY DEF TracedBy
<1>2. DemandAfterIs(f, n, m)
  BY <1>1, DemandAfterOk
<1>3. PICK k \in Nat : k = m.days
  BY DEF Placeable
<1>4. PICK g \in Grid(n) : n = AfterDays(n, m) /\ g = DemandAfter(f, m)
                           /\ \A x \in Nat : At(g, x) = AfterAt(f, m, x)
  BY <1>2 DEF DemandAfterIs, AfterDays
<1>5. PICK L \in Nat : L = Len(t) /\ DOMAIN t = 1..L /\ \A i \in 1..L : t[i] \in Entries(n)
  BY <1>1
<1>6. PICK u : u = TraceAfter(t, g, m)
  OBVIOUS
<1>7. u = [i \in 1..L |-> [t[i] EXCEPT !.day = Max({0, @ - k})]]
  BY <1>3, <1>5, <1>6 DEF TraceAfter
<1>8. \A i \in 1..L : /\ u[i] \in Entries(n) /\ u[i].day = Max({0, t[i].day - k}) /\ u[i].qty = t[i].qty
                      /\ t[i].day \in 0..(n - 1)
  <2>1. SUFFICES ASSUME NEW i \in 1..L
                 PROVE  /\ u[i] \in Entries(n) /\ u[i].day = Max({0, t[i].day - k}) /\ u[i].qty = t[i].qty
                        /\ t[i].day \in 0..(n - 1)
    OBVIOUS
  <2>2. PICK e \in Entries(n) : e = t[i] /\ u[i] = [e EXCEPT !.day = Max({0, e.day - k})]
    BY <1>5, <1>7
  <2>3. e.day \in 0..(n - 1) /\ 0 \in Int /\ e.day - k \in Int
    BY <2>2 DEF Entries
  <2>4. Max({0, e.day - k}) = IF 0 <= e.day - k THEN e.day - k ELSE 0
    BY <2>3, MaxOfTwo
  <2>5. PICK y : y = Max({0, e.day - k}) /\ y \in 0..(n - 1)
    BY <2>3, <2>4
  <2>6. u[i] = [e EXCEPT !.day = y]
    BY <2>2, <2>5
  <2>7. u[i] \in Entries(n) /\ u[i].day = y /\ u[i].qty = e.qty
    BY <2>5, <2>6 DEF Entries
  <2>8. QED
    BY <2>2, <2>3, <2>5, <2>7
<1>9. u \in Seq(Entries(n))
  <2>1. DOMAIN u = 1..L /\ u = [i \in 1..L |-> u[i]]
    BY <1>7
  <2>2. \A i \in 1..L : u[i] \in Entries(n)
    BY <1>8
  <2>3. QED
    BY <2>1, <2>2
<1>10. Quantities(u) = Quantities(t)
  BY <1>5, <1>7, <1>8 DEF Quantities
<1>11. ASSUME NEW x \in Nat PROVE Ordered(u, x) = At(g, x)
  <2>1. PICK D : D = Pulled(f, k, x)
    OBVIOUS
  <2>2. D \subseteq 0..(n - 1) /\ \A y \in 0..(n - 1) : y \in D <=> Max({0, y - k}) = x
    BY <1>1, <2>1, GridIs DEF Pulled
  <2>3. Due(u, x) = OnDays(t, D)
    BY <1>5, <1>7, <1>8, <2>2 DEF Due, OnDays
  <2>4. SumOver(f, D) = SumOver(Quantities(t), OnDays(t, D))
    <3>1. D \in SUBSET (0..(n - 1))
      BY <2>2
    <3>2. QED
      BY <3>1, SumByDay
  <2>5. Ordered(u, x) = SumOver(f, D)
    BY <1>10, <2>3, <2>4 DEF Ordered
  <2>6. At(g, x) = SumOver(f, D)
    BY <1>3, <1>4, <2>1 DEF AfterAt
  <2>7. QED
    BY <2>5, <2>6
<1>12. TracedBy(u, g, n)
  BY <1>9, <1>11, TracedIf
<1>13. QED
  BY <1>4, <1>6, <1>12 DEF TraceAfterIs

(* The orders of a day share its new total.                                *)
ApportionedIs(u, t, g, n) ==
    /\ u \in Seq(Loose(n))
    /\ \A x \in Nat : Ordered(u, x) = IF Due(t, x) = {} THEN 0 ELSE At(g, x)

(* The shares of a day add up to its new total.                            *)
LEMMA ApportionedOk ==
    ASSUME NEW n \in Nat, NEW t \in Seq(Entries(n)), NEW g \in Grid(n)
    PROVE  ApportionedIs(Apportioned(t, g), t, g, n)
<1>1. TraceIs(t, n) /\ t \in Seq(Loose(n))
  BY EntriesLoose, TracesAre
<1>2. PICK L \in Nat : L = Len(t) /\ DOMAIN t = 1..L /\ \A i \in 1..L : t[i] \in Entries(n)
  OBVIOUS
<1>3. PICK q, u : q = Quantities(t) /\ u = Apportioned(t, g)
  OBVIOUS
<1> DEFINE part(i) == Portion(q, Due(t, t[i].day), Ordered(t, t[i].day), At(g, t[i].day), i)
<1>4. u = [i \in 1..L |-> [t[i] EXCEPT !.qty = part(i)]]
  BY <1>2, <1>3 DEF Apportioned
<1>5. \A i \in 1..L : /\ t[i].day \in 0..(n - 1) /\ t[i].day \in Int /\ t[i].qty \in Nat \ {0}
                      /\ q[i] \in Nat \ {0}
  <2>1. SUFFICES ASSUME NEW i \in 1..L
                 PROVE  /\ t[i].day \in 0..(n - 1) /\ t[i].day \in Int /\ t[i].qty \in Nat \ {0}
                        /\ q[i] \in Nat \ {0}
    OBVIOUS
  <2>2. PICK e \in Entries(n) : e = t[i]
    BY <1>2
  <2>3. e.day \in 0..(n - 1) /\ e.qty \in Nat \ {0}
    BY DEF Entries
  <2>4. q[i] = e.qty
    BY <1>1, <1>2, <1>3, <2>2 DEF TraceIs
  <2>5. QED
    BY <2>2, <2>3, <2>4
<1>6. ASSUME NEW x \in Int, NEW D, D = Due(t, x), D # {}
      PROVE  /\ \A i \in D : part(i) \in Nat
             /\ \A h : (\A i \in D : h[i] = part(i)) => SumOver(h, D) = At(g, x)
  <2>1. PICK total \in Nat : total = Ordered(t, x) /\ total = SumOver(q, D)
    BY <1>1, <1>3, <1>6 DEF TraceIs, Ordered
  <2>2. PICK target \in Nat : target = At(g, x)
    BY GridIs
  <2>3. IsFiniteSet(D) /\ D \subseteq 1..L
    BY <1>1, <1>2, <1>6 DEF TraceIs
  <2>4. D \subseteq Int /\ \A i \in D : q[i] \in Nat \ {0}
    <3>1. D \subseteq Int
      BY <2>3
    <3>2. \A i \in 1..L : q[i] \in Nat \ {0}
      BY <1>5
    <3>3. \A i \in D : q[i] \in Nat \ {0}
      BY <2>3, <3>2
    <3>4. QED
      BY <3>1, <3>3
  <2>5. \A i \in D : part(i) = Portion(q, D, total, target, i)
    <3>1. SUFFICES ASSUME NEW i \in D PROVE part(i) = Portion(q, D, total, target, i)
      OBVIOUS
    <3>2. t[i].day = x
      BY <1>6 DEF Due
    <3>3. QED
      BY <1>6, <2>1, <2>2, <3>2
  <2> HIDE DEF part
  <2>6. ASSUME NEW h, \A i \in D : h[i] = part(i)
        PROVE  (\A i \in D : h[i] \in Nat) /\ SumOver(h, D) = target
    <3>1. \A i \in D : h[i] = Portion(q, D, total, target, i)
      BY <2>5, <2>6
    <3>2. D # {}
      BY <1>6
    <3>3. total = SumOver(q, D)
      BY <2>1
    <3>4. IsFiniteSet(D) /\ D \subseteq Int /\ \A j \in D : q[j] \in Nat \ {0}
      BY <2>3, <2>4
    <3>5. Sharing(h, q, D, total, target)
      BY <2>2, <3>1, <3>2, <3>3, <3>4 DEF Sharing
    <3>6. (\A i \in D : h[i] \in Nat) /\ SumOver(h, D) = target
      BY <3>5, PortionsAddUp
    <3>7. QED
      BY <2>2, <3>6
  <2>7. \A i \in D : part(i) \in Nat
    <3>1. PICK h : h = [i \in D |-> part(i)]
      OBVIOUS
    <3>2. \A i \in D : h[i] = part(i)
      BY <3>1
    <3>3. \A i \in D : h[i] \in Nat
      BY <2>6, <3>2
    <3>4. QED
      BY <3>2, <3>3
  <2>8. QED
    BY <2>2, <2>6, <2>7
<1>7. \A i \in 1..L : part(i) \in Nat
  <2>1. SUFFICES ASSUME NEW i \in 1..L PROVE part(i) \in Nat
    OBVIOUS
  <2>2. PICK x \in Int : x = t[i].day
    BY <1>5
  <2>3. PICK D : D = Due(t, x) /\ i \in D
    BY <1>2, <2>2 DEF Due
  <2>4. QED
    BY <1>6, <2>3
<1> HIDE DEF part
<1>8. \A i \in 1..L : u[i] \in Loose(n) /\ u[i].day = t[i].day /\ u[i].qty = part(i)
  <2>1. SUFFICES ASSUME NEW i \in 1..L
                 PROVE  u[i] \in Loose(n) /\ u[i].day = t[i].day /\ u[i].qty = part(i)
    OBVIOUS
  <2>2. PICK e \in Entries(n), y \in Nat : e = t[i] /\ y = part(i)
    BY <1>2, <1>7
  <2>3. u[i] = [e EXCEPT !.qty = y]
    BY <1>4, <2>2
  <2>4. u[i] \in Loose(n) /\ u[i].day = e.day /\ u[i].qty = y
    BY <2>3 DEF Entries, Loose
  <2>5. QED
    BY <2>2, <2>4
<1>9. u \in Seq(Loose(n)) /\ DOMAIN u = 1..L
  <2>1. DOMAIN u = 1..L /\ u = [i \in 1..L |-> u[i]]
    BY <1>4
  <2>2. \A i \in 1..L : u[i] \in Loose(n)
    BY <1>8
  <2>3. QED
    BY <2>1, <2>2
<1>10. ASSUME NEW x \in Nat PROVE Ordered(u, x) = IF Due(t, x) = {} THEN 0 ELSE At(g, x)
  <2>1. PICK D : D = Due(t, x) /\ D \subseteq 1..L
    BY <1>1, <1>2 DEF TraceIs
  <2>2. Due(u, x) = D
    BY <1>2, <1>8, <1>9, <2>1 DEF Due
  <2>3. PICK h : h = Quantities(u)
    OBVIOUS
  <2>4. \A i \in D : h[i] = part(i)
    BY <1>8, <1>9, <2>1, <2>3 DEF Quantities
  <2>5. Ordered(u, x) = SumOver(h, D)
    BY <2>2, <2>3 DEF Ordered
  <2>6. CASE D = {}
    BY <2>1, <2>5, <2>6, SumEmpty
  <2>7. CASE D # {}
    <3>1. SumOver(h, D) = At(g, x)
      BY <1>6, <2>1, <2>4, <2>7
    <3>2. QED
      BY <2>1, <2>5, <2>7, <3>1
  <2>8. QED
    BY <2>6, <2>7
<1>11. QED
  BY <1>3, <1>9, <1>10 DEF ApportionedIs

(* Those that come to nothing are left out.                                *)
LEMMA WantedIs ==
    ASSUME NEW n \in Nat, NEW u \in Seq(Loose(n))
    PROVE  Wanted(u) \in Seq(Entries(n)) /\ \A x : Ordered(Wanted(u), x) = Ordered(u, x)
<1>1. TraceIs(u, n)
  BY TracesAre
<1>2. PICK its : its = {i \in DOMAIN u : u[i].qty > 0}
  OBVIOUS
<1>3. \A i \in its : u[i] \in Entries(n)
  <2>1. SUFFICES ASSUME NEW i \in its PROVE u[i] \in Entries(n)
    OBVIOUS
  <2>2. PICK e \in Loose(n) : e = u[i] /\ e.qty > 0
    BY <1>1, <1>2 DEF TraceIs
  <2>3. QED
    BY <2>2 DEF Entries, Loose
<1>4. its \subseteq DOMAIN u
  BY <1>2
<1>5. PICK r : r = Kept(u, its) /\ KeptOk(r, u, its, Entries(n))
  BY <1>3, <1>4, EntriesLoose, KeptIs
<1>6. ASSUME NEW x PROVE Ordered(r, x) = Ordered(u, x)
  <2>1. Ordered(r, x) = SumOver(Quantities(u), Due(u, x) \cap its)
    BY <1>5 DEF KeptOk
  <2>2. PICK q, S, T : q = Quantities(u) /\ S = Due(u, x) \cap its /\ T = Due(u, x) \ its
    OBVIOUS
  <2>3. IsFiniteSet(Due(u, x)) /\ Due(u, x) \subseteq DOMAIN u /\ \A i \in DOMAIN u : q[i] = u[i].qty /\ q[i] \in Nat
    BY <1>1, <2>2 DEF TraceIs
  <2>4. IsFiniteSet(S) /\ IsFiniteSet(T) /\ S \cap T = {} /\ S \cup T = Due(u, x)
    BY <2>2, <2>3, FS_Subset
  <2>5. \A i \in T : q[i] = 0
    BY <1>2, <2>2, <2>3
  <2>6. SumOver(q, T) = 0
    BY <2>4, <2>5, SumZero
  <2>7. \A i \in S \cup T : q[i] \in Int
    BY <2>3, <2>4
  <2>8. SumOver(q, S \cup T) = SumOver(q, S) + SumOver(q, T)
    BY <2>4, <2>7, SumUnion
  <2>9. SumOver(q, S) \in Nat
    <3>1. \A i \in S : q[i] \in Nat
      BY <2>3, <2>4
    <3>2. QED
      BY <2>4, <3>1, SumIsNat
  <2>10. SumOver(q, Due(u, x)) = SumOver(q, S)
    <3>0. PICK a \in Nat : a = SumOver(q, S)
      BY <2>9
    <3>1. PICK R : a = SumOver(q, S) /\ R = S \cup T
      BY <3>0
    <3>2. SumOver(q, R) = a
      BY <2>6, <2>8, <3>1
    <3>3. R = Due(u, x)
      BY <2>4, <3>1
    <3>4. QED
      BY <3>1, <3>2, <3>3
  <2>11. QED
    BY <2>1, <2>2, <2>10 DEF Ordered
<1>7. r = Wanted(u)
  BY <1>2, <1>5 DEF Wanted
<1>8. QED
  BY <1>5, <1>6, <1>7 DEF KeptOk

(* after a change of demand.                                               *)
LEMMA ChangeTraced ==
    ASSUME NEW n \in Nat, NEW t, NEW f, TracedBy(t, f, n), NEW m, Demanding(m), Placeable(m), m.type = "demand_change"
    PROVE  TraceAfterIs(t, f, n, m)
<1>1. f \in Grid(n) /\ t \in Seq(Entries(n)) /\ \A x \in Int : Ordered(t, x) = At(f, x)
  BY DEF TracedBy
<1>2. DemandAfterIs(f, n, m)
  BY <1>1, DemandAfterOk
<1>3. PICK g \in Grid(n) : n = AfterDays(n, m) /\ g = DemandAfter(f, m)
                           /\ \A x \in Nat : At(g, x) = AfterAt(f, m, x)
  BY <1>2 DEF DemandAfterIs, AfterDays
<1>4. PICK u : u = Apportioned(t, g) /\ ApportionedIs(u, t, g, n)
  BY <1>1, ApportionedOk
<1>5. u \in Seq(Loose(n))
  BY <1>4 DEF ApportionedIs
<1>6. PICK w \in Seq(Entries(n)) : w = Wanted(u) /\ \A x : Ordered(w, x) = Ordered(u, x)
  BY <1>5, WantedIs
<1>7. w = TraceAfter(t, g, m)
  BY <1>4, <1>6 DEF TraceAfter
<1>8. ASSUME NEW x \in Nat PROVE Ordered(w, x) = At(g, x)
  <2>1. Ordered(w, x) = IF Due(t, x) = {} THEN 0 ELSE At(g, x)
    BY <1>4, <1>6 DEF ApportionedIs
  <2>2. CASE Due(t, x) = {}
    <3>1. Ordered(t, x) = 0
      BY <2>2, SumEmpty DEF Ordered
    <3>2. At(f, x) = 0
      BY <1>1, <3>1
    <3>3. At(g, x) = Scaled(At(f, x), m.factor)
      BY <1>3 DEF AfterAt
    <3>4. PICK a \in Nat, b \in Nat \ {0} : a = m.factor[1] /\ b = m.factor[2]
      BY DEF Demanding
    <3>5. PICK z \in Nat : z = 0
      OBVIOUS
    <3>6. Scaled(z, m.factor) = 0
      BY <3>4, <3>5, ScaledIs
    <3>7. QED
      BY <2>1, <2>2, <3>2, <3>3, <3>5, <3>6
  <2>3. QED
    BY <2>1, <2>2
<1>9. TracedBy(w, g, n)
  BY <1>8, TracedIf
<1>10. QED
  BY <1>3, <1>7, <1>9 DEF TraceAfterIs

(* Whatever the mutation, the orders still add up to the demand.           *)
LEMMA TraceAfterOk ==
    ASSUME NEW n \in Nat, NEW t, NEW f, TracedBy(t, f, n), NEW m, Demanding(m), Placeable(m)
    PROVE  TraceAfterIs(t, f, n, m)
BY RushTraced, ChangeTraced, CancelTraced, DelayTraced, AdvanceTraced DEF Demanding, DemandTypes

-----------------------------------------------------------------------------
(* The steps that leave the demand and its orders as they are.             *)
Fields == {"days", "demand", "trace", "base", "holidays", "blocked", "cells", "away"}

SameDemand(d, e) ==
    /\ DOMAIN d = Fields /\ DOMAIN e = Fields
    /\ e.days = d.days /\ e.demand = d.demand /\ e.trace = d.trace

(* A plan has the demand it has,                                           *)
LEMMA SameIs == ASSUME NEW d, DOMAIN d = Fields PROVE SameDemand(d, d)
BY DEF SameDemand

(* and two steps that leave it alone leave it alone together.              *)
LEMMA SameSame == ASSUME NEW d, NEW e, NEW f, SameDemand(d, e), SameDemand(e, f) PROVE SameDemand(d, f)
BY DEF SameDemand

(* The calendars leave the demand alone,                                   *)
LEMMA CalendarsKeep == ASSUME NEW d, DOMAIN d = Fields, NEW c PROVE SameDemand(d, ApplyCalendars(d, c))
<1>1. PICK h, x, b, a : ApplyCalendars(d, c) =
                          [d EXCEPT !.holidays = h, !.cells = x, !.blocked = b, !.away = a]
  BY Zenon DEF ApplyCalendars
<1>2. QED
  BY <1>1 DEF SameDemand, Fields

(* so do the mutations of the calendars,                                   *)
LEMMA OverlayKeeps ==
    ASSUME NEW d, DOMAIN d = Fields, NEW c, NEW m, m.type \in OverlayTypes
    PROVE  SameDemand(d, OverlayAfter(d, c, m))
<1>1. CASE m.type = "resource_down"
  <2>1. PICK b : OverlayAfter(d, c, m) = [d EXCEPT !.blocked = b]
    BY <1>1 DEF OverlayAfter
  <2>2. QED
    BY <2>1 DEF SameDemand, Fields
<1>2. CASE m.type = "operator_shortage"
  <2>1. PICK b : OverlayAfter(d, c, m) = [d EXCEPT !.away = b]
    BY <1>2 DEF OverlayAfter
  <2>2. QED
    BY <2>1 DEF SameDemand, Fields
<1>3. CASE m.type = "add_holiday"
  <2>1. PICK b : OverlayAfter(d, c, m) = [d EXCEPT !.holidays = b]
    BY <1>3 DEF OverlayAfter
  <2>2. QED
    BY <2>1 DEF SameDemand, Fields
<1>4. CASE m.type = "remove_holiday"
  <2>1. PICK b : OverlayAfter(d, c, m) = [d EXCEPT !.holidays = b]
    BY <1>4 DEF OverlayAfter
  <2>2. QED
    BY <2>1 DEF SameDemand, Fields
<1>5. QED
  BY <1>1, <1>2, <1>3, <1>4 DEF OverlayTypes

(* and so does projecting the calendars again.                             *)
LEMMA ReprojectedKeeps ==
    ASSUME NEW d, DOMAIN d = Fields, NEW c, NEW before
    PROVE  SameDemand(d, Reprojected(d, c, before))
<1>1. PICK fresh : fresh = ApplyCalendars(d, c) /\ SameDemand(d, fresh)
  BY CalendarsKeep
<1>2. PICK h, x, b, a : Reprojected(d, c, before) =
                          [fresh EXCEPT !.holidays = h, !.blocked = b, !.cells = x, !.away = a]
  BY <1>1, Zenon DEF Reprojected
<1>3. QED
  BY <1>1, <1>2 DEF SameDemand, Fields

-----------------------------------------------------------------------------
(* The demand after the scenarios asked for.                               *)
Even(d) ==
    /\ DOMAIN d = Fields /\ d.days \in Nat /\ DOMAIN d.demand = Skus /\ DOMAIN d.trace = Skus
    /\ \A s \in Skus : TracedBy(d.trace[s], d.demand[s], d.days)

Demanded(d, s, mutations) ==
    \E n \in Nat : /\ n <= d.days /\ History(s, mutations) \in Grid(n)
                   /\ d.demand[s] = Padded(History(s, mutations), d.days)

AsAsked(d, mutations) == Even(d) /\ \A s \in Skus : Demanded(d, s, mutations)

(* A demand left alone is as it was asked for.                             *)
LEMMA SameAsked ==
    ASSUME NEW d, NEW e, NEW mutations, SameDemand(d, e), AsAsked(d, mutations)
    PROVE  AsAsked(e, mutations)
<1>1. Even(e)
  BY DEF SameDemand, AsAsked, Even
<1>2. \A s \in Skus : Demanded(e, s, mutations)
  BY DEF SameDemand, AsAsked, Demanded
<1>3. QED
  BY <1>1, <1>2 DEF AsAsked

(* Without mutations a demand is the imported one;                         *)
LEMMA HistoryOfNone == ASSUME NEW s PROVE History(s, <<>>) = ImportedDemand(s)
<1>1. PICK none : none = <<>> /\ DOMAIN none = 1..0
  OBVIOUS
<1>2. PICK c : c[0] = ImportedDemand(s) /\ c[0] = History(s, none)
  <2>1. 0 \in Nat
    OBVIOUS
  <2>2. QED
    BY <1>1, <2>1, HistorySteps DEF HistoryRun
<1>3. QED
  BY <1>1, <1>2

(* one mutation more changes it once.                                      *)
LEMMA HistoryOfMore ==
    ASSUME NEW s, NEW S, NEW ms \in Seq(S), NEW m \in S, NEW us, OneMore(us, ms, m)
    PROVE  History(s, us) = Changed(s, History(s, ms), m)
<1>1. PICK n \in Nat : n = Len(ms) /\ DOMAIN ms = 1..n
  OBVIOUS
<1>2. DOMAIN us = 1..(n + 1) /\ us[n + 1] = m /\ \A i \in 1..n : us[i] = ms[i]
  BY <1>1 DEF OneMore
<1>3. PICK c : /\ c[0] = ImportedDemand(s) /\ c[n] = History(s, ms)
               /\ \A k \in 0..(n - 1) : c[k + 1] = Changed(s, c[k], ms[k + 1])
  <2>1. DOMAIN ms = 1..n /\ n \in Nat
    BY <1>1
  <2>2. PICK c : HistoryRun(c, s, ms, n)
    BY <2>1, HistorySteps, Zenon
  <2>3. QED
    BY <2>2 DEF HistoryRun
<1>4. PICK e : /\ e[0] = ImportedDemand(s) /\ e[n + 1] = History(s, us)
               /\ \A k \in 0..n : e[k + 1] = Changed(s, e[k], us[k + 1])
  <2>1. PICK N \in Nat : N = n + 1
    OBVIOUS
  <2>2. PICK e : /\ e[0] = ImportedDemand(s) /\ e[N] = History(s, us)
                 /\ \A k \in 0..(N - 1) : e[k + 1] = Changed(s, e[k], us[k + 1])
    <3>1. DOMAIN us = 1..N /\ N \in Nat
      BY <1>2, <2>1
    <3>2. PICK e : HistoryRun(e, s, us, N)
      BY <3>1, HistorySteps, Zenon
    <3>3. QED
      BY <3>2 DEF HistoryRun
  <2>3. 0..(N - 1) = 0..n
    BY <2>1
  <2>4. QED
    BY <2>1, <2>2, <2>3
<1> DEFINE P == {k \in Nat : k <= n => c[k] = e[k]}
<1>5. 0 \in P
  BY <1>3, <1>4
<1>6. ASSUME NEW k \in P PROVE k + 1 \in P
  <2>1. SUFFICES ASSUME k \in Nat, k + 1 <= n PROVE c[k + 1] = e[k + 1]
    OBVIOUS
  <2>2. k \in 0..(n - 1) /\ k \in 0..n /\ k + 1 \in 1..n /\ c[k] = e[k]
    BY <2>1
  <2>3. us[k + 1] = ms[k + 1]
    BY <1>2, <2>2
  <2>4. QED
    BY <1>3, <1>4, <2>2, <2>3
<1>7. P = Nat
  <2>1. P \subseteq Nat
    OBVIOUS
  <2> HIDE DEF P
  <2>2. QED
    BY <2>1, <1>5, <1>6, NatInd
<1>8. c[n] = e[n]
  <2>1. n \in P
    BY <1>7
  <2>2. QED
    BY <2>1
<1>9. n \in 0..n
  OBVIOUS
<1>10. e[n + 1] = Changed(s, e[n], us[n + 1])
  BY <1>4, <1>9
<1>11. QED
  BY <1>2, <1>3, <1>4, <1>8, <1>10

(* A mutation of the demand changes it once more.                          *)
LEMMA DemandOfMore ==
    ASSUME NEW ms \in Seq(Mutations), NEW m \in Mutations, NEW us, OneMore(us, ms, m), Demanding(m), Placeable(m),
           NEW d, AsAsked(d, ms), m.sku \in Skus, NEW N, N = AfterDays(d.days, m),
           NEW e, DOMAIN e = Fields, e.days = N, DOMAIN e.demand = Skus, DOMAIN e.trace = Skus,
           \A s \in Skus \ {m.sku} : e.demand[s] = Padded(d.demand[s], N) /\ e.trace[s] = d.trace[s],
           e.demand[m.sku] = DemandAfter(d.demand[m.sku], m),
           e.trace[m.sku] = TraceAfter(d.trace[m.sku], e.demand[m.sku], m)
    PROVE  AsAsked(e, us)
<1>1. PICK n \in Nat : n = d.days
  BY DEF AsAsked, Even
<1>2. N \in Nat /\ n <= N
  <2>1. DemandAfterIs(d.demand[m.sku], n, m)
    <3>1. d.demand[m.sku] \in Grid(n)
      BY <1>1 DEF AsAsked, Even, TracedBy
    <3>2. QED
      BY <3>1, DemandAfterOk
  <2>2. QED
    BY <1>1, <2>1 DEF DemandAfterIs
<1>3. ASSUME NEW s \in Skus PROVE TracedBy(e.trace[s], e.demand[s], N) /\ Demanded(e, s, us)
  <2>1. TracedBy(d.trace[s], d.demand[s], n) /\ Demanded(d, s, ms)
    BY <1>1 DEF AsAsked, Even
  <2>2. PICK f, g : f = History(s, ms) /\ g = d.demand[s]
    OBVIOUS
  <2>3. PICK l \in Nat : l <= n /\ f \in Grid(l) /\ g = Padded(f, n)
    BY <1>1, <2>1, <2>2 DEF Demanded
  <2>4. g \in Grid(n)
    BY <2>1, <2>2 DEF TracedBy
  <2>5. History(s, us) = Changed(s, f, m)
    BY <2>2, HistoryOfMore
  <2>6. CASE s = m.sku
    <3>1. History(s, us) = DemandAfter(f, m)
      BY <2>5, <2>6 DEF Changed, Demanding
    <3>2. /\ AfterDays(l, m) \in Nat /\ AfterDays(l, m) <= AfterDays(n, m)
          /\ DemandAfter(f, m) \in Grid(AfterDays(l, m))
          /\ DemandAfter(g, m) = Padded(DemandAfter(f, m), AfterDays(n, m))
      BY <2>3, <2>4, AfterPadded
    <3>3. e.demand[s] = DemandAfter(g, m)
      BY <2>2, <2>6
    <3>4. Demanded(e, s, us)
      BY <1>1, <3>1, <3>2, <3>3 DEF Demanded
    <3>5. TraceAfterIs(d.trace[s], g, n, m)
      BY <2>1, <2>2, TraceAfterOk
    <3>6. TracedBy(e.trace[s], e.demand[s], N)
      BY <1>1, <2>2, <2>6, <3>3, <3>5 DEF TraceAfterIs
    <3>7. QED
      BY <3>4, <3>6
  <2>7. CASE s # m.sku
    <3>1. History(s, us) = f
      BY <2>5, <2>7 DEF Changed
    <3>2. e.demand[s] = Padded(g, N) /\ e.trace[s] = d.trace[s]
      BY <2>2, <2>7
    <3>3. Padded(g, N) = Padded(f, N)
      BY <1>2, <2>3, PaddedTwice
    <3>4. Demanded(e, s, us)
      BY <1>2, <2>3, <3>1, <3>2, <3>3 DEF Demanded
    <3>5. TracedBy(d.trace[s], Padded(g, N), N)
      BY <1>2, <2>1, <2>2, TracedPadded
    <3>6. QED
      BY <3>2, <3>4, <3>5
  <2>8. QED
    BY <2>6, <2>7
<1>4. Even(e)
  BY <1>2, <1>3 DEF Even
<1>5. QED
  BY <1>3, <1>4 DEF AsAsked

(* Any other mutation leaves the demand as it was asked for.               *)
LEMMA DemandOfOther ==
    ASSUME NEW ms \in Seq(Mutations), NEW m \in Mutations, NEW us, OneMore(us, ms, m), m.type \notin DemandTypes,
           NEW d, AsAsked(d, ms)
    PROVE  AsAsked(d, us)
<1>1. ASSUME NEW s \in Skus PROVE History(s, us) = History(s, ms)
  <2>1. History(s, us) = Changed(s, History(s, ms), m)
    BY HistoryOfMore
  <2>2. QED
    BY <2>1 DEF Changed
<1>2. \A s \in Skus : Demanded(d, s, us)
  BY <1>1 DEF AsAsked, Demanded
<1>3. QED
  BY <1>2 DEF AsAsked

-----------------------------------------------------------------------------
(* One mutation.                                                           *)

(* The mutations are those of the assumptions.                             *)
LEMMA MutationsAre ==
    ASSUME NEW m \in Mutations
    PROVE  /\ m.type \in DemandTypes \cup OverlayTypes \cup {"overtime"}
           /\ m.type \in DemandTypes => Demanding(m) /\ m.sku \in Skus
BY MutationAssumption DEF Demanding

(* A mutation that is not refused can be placed.                           *)
LEMMA ValidPlaceable ==
    ASSUME NEW m \in Mutations, m.type \in DemandTypes, NEW d, d.days \in Nat, NEW c, Valid(d, c, m)
    PROVE  Placeable(m)
<1>1. CASE m.type = "rush_order"
  <2>1. m.day \in 0..(d.days - 1 + Extension)
    BY <1>1 DEF Valid
  <2>2. QED
    BY <1>1, <2>1 DEF Placeable
<1>2. CASE m.type \in {"advance_edd", "delay_edd"}
  <2>1. m.days \in 1..Extension
    BY <1>2 DEF Valid
  <2>2. QED
    BY <1>2, <2>1 DEF Placeable
<1>3. CASE m.type \notin {"rush_order", "advance_edd", "delay_edd"}
  BY <1>3 DEF Placeable
<1>4. QED
  BY <1>1, <1>2, <1>3

(* The horizon follows the demand.                                         *)
WithDemandIs(d, e, m) ==
    /\ DOMAIN e = Fields /\ e.days = AfterDays(d.days, m) /\ DOMAIN e.demand = Skus /\ e.trace = d.trace
    /\ \A s \in Skus \ {m.sku} : e.demand[s] = Padded(d.demand[s], e.days)
    /\ e.demand[m.sku] = DemandAfter(d.demand[m.sku], m)

(* A mutation of a demand, and the horizon that follows it.                *)
LEMMA WithDemandOk ==
    ASSUME NEW d, Even(d), NEW m, Demanding(m), Placeable(m), m.sku \in Skus
    PROVE  WithDemandIs(d, WithDemand(d, m), m)
<1>1. PICK n \in Nat : n = d.days
  BY DEF Even
<1>2. \A s \in Skus : d.demand[s] \in Grid(n)
  BY <1>1 DEF Even, TracedBy
<1>0. PICK sku \in Skus : sku = m.sku
  OBVIOUS
<1>3. PICK g : sku = m.sku /\ g = DemandAfter(d.demand[sku], m)
  BY <1>0
<1>4. PICK N \in Nat : N = AfterDays(n, m) /\ n <= N /\ g \in Grid(N)
  <2>1. DemandAfterIs(d.demand[sku], n, m)
    BY <1>2, DemandAfterOk
  <2>2. QED
    BY <1>3, <2>1 DEF DemandAfterIs
<1>5. PICK x : x = [d EXCEPT !.demand = [d.demand EXCEPT ![sku] = g]]
  OBVIOUS
<1>6. /\ DOMAIN x = Fields /\ x.days = n /\ DOMAIN x.demand = Skus /\ x.trace = d.trace
      /\ x.demand[sku] = g /\ \A s \in Skus \ {sku} : x.demand[s] = d.demand[s]
  BY <1>1, <1>5 DEF Even, Fields
<1>7. WithDemand(d, m) = Extended(x)
  BY <1>3, <1>5 DEF WithDemand
<1>8. PICK S : S = {x.days} \cup {Cardinality(DOMAIN x.demand[s]) : s \in Skus}
  OBVIOUS
<1>9. S \subseteq {n, N} /\ n \in S /\ N \in S
  <2>1. Cardinality(DOMAIN x.demand[sku]) = N
    BY <1>4, <1>6, GridIs
  <2>2. \A s \in Skus \ {sku} : Cardinality(DOMAIN x.demand[s]) = n
    <3>1. SUFFICES ASSUME NEW s \in Skus \ {sku} PROVE Cardinality(DOMAIN x.demand[s]) = n
      OBVIOUS
    <3>2. d.demand[s] \in Grid(n)
      BY <1>2
    <3>3. Cardinality(DOMAIN d.demand[s]) = n
      BY <3>2, GridIs
    <3>4. QED
      BY <1>6, <3>3
  <2>3. \A s \in Skus : Cardinality(DOMAIN x.demand[s]) \in {n, N}
    BY <2>1, <2>2
  <2>4. n \in S /\ N \in S
    BY <1>6, <1>8, <2>1
  <2>5. QED
    BY <1>6, <1>8, <2>3, <2>4
<1>10. Max(S) = N
  <2>1. S = {n, N}
    BY <1>9
  <2>2. Max({n, N}) = N
    BY <1>4, MaxOfTwo
  <2>3. QED
    BY <2>1, <2>2
<1>11. PICK h, b : Extended(x) = [x EXCEPT !.days = N, !.holidays = h, !.base = b,
                                           !.demand = [s \in Skus |-> Padded(x.demand[s], N)]]
  <2>1. N = Max({x.days} \cup {Cardinality(DOMAIN x.demand[s]) : s \in Skus})
    BY <1>8, <1>10
  <2>2. QED
    BY <2>1, Zenon DEF Extended
<1>12. PICK e : e = Extended(x)
  OBVIOUS
<1>13. /\ DOMAIN e = Fields /\ e.days = N /\ DOMAIN e.demand = Skus /\ e.trace = d.trace
       /\ \A s \in Skus : e.demand[s] = Padded(x.demand[s], N)
  BY <1>6, <1>11, <1>12 DEF Fields
<1>14. Padded(g, N) = g
  <2>1. \A y \in 0..(N - 1) : At(g, y) = At(g, y)
    OBVIOUS
  <2>2. N <= N
    OBVIOUS
  <2>3. QED
    BY <1>4, <2>1, <2>2, PaddedTo
<1>15. e.demand[sku] = g /\ \A s \in Skus \ {sku} : e.demand[s] = Padded(d.demand[s], N)
  BY <1>6, <1>13, <1>14
<1>16. QED
  BY <1>1, <1>3, <1>4, <1>7, <1>12, <1>13, <1>15 DEF WithDemandIs

(* The mutation changes its sku once, and the others are padded.           *)
LEMMA DemandKept ==
    ASSUME NEW ms \in Seq(Mutations), NEW m \in Mutations, NEW us, OneMore(us, ms, m), m.type \in DemandTypes,
           NEW d, AsAsked(d, ms), NEW c, Valid(d, c, m), NEW before
    PROVE  AsAsked(Lengthened(Traced(WithDemand(d, m), m), d.days, c, before), us)
<1>1. Demanding(m) /\ m.sku \in Skus /\ Placeable(m) /\ Even(d)
  <2>1. Even(d) /\ d.days \in Nat
    BY DEF AsAsked, Even
  <2>2. QED
    BY <2>1, MutationsAre, ValidPlaceable
<1>2. PICK w : w = WithDemand(d, m) /\ WithDemandIs(d, w, m)
  BY <1>1, WithDemandOk
<1>3. PICK e, sku, o : /\ e = Traced(w, m) /\ sku = m.sku /\ o = TraceAfter(d.trace[sku], w.demand[sku], m)
  OBVIOUS
<1>4. DOMAIN w = Fields /\ DOMAIN w.trace = Skus /\ w.trace = d.trace
  BY <1>1, <1>2 DEF WithDemandIs, Even
<1>5. e = [w EXCEPT !.trace = [w.trace EXCEPT ![sku] = o]]
  BY <1>3, <1>4 DEF Traced
<1>6. /\ DOMAIN e = Fields /\ e.days = w.days /\ e.demand = w.demand /\ DOMAIN e.trace = Skus
      /\ e.trace[sku] = o /\ \A s \in Skus \ {sku} : e.trace[s] = d.trace[s]
  BY <1>1, <1>3, <1>4, <1>5 DEF Fields
<1>7. PICK N : N = AfterDays(d.days, m)
  OBVIOUS
<1>8. /\ e.days = N /\ DOMAIN e.demand = Skus
      /\ \A s \in Skus \ {m.sku} : e.demand[s] = Padded(d.demand[s], N) /\ e.trace[s] = d.trace[s]
      /\ e.demand[m.sku] = DemandAfter(d.demand[m.sku], m)
      /\ e.trace[m.sku] = TraceAfter(d.trace[m.sku], e.demand[m.sku], m)
  BY <1>2, <1>3, <1>6, <1>7 DEF WithDemandIs
<1>9. AsAsked(e, us)
  BY <1>1, <1>6, <1>7, <1>8, DemandOfMore
<1>10. SameDemand(e, Lengthened(e, d.days, c, before))
  BY <1>6, ReprojectedKeeps, SameIs DEF Lengthened
<1>11. QED
  BY <1>2, <1>3, <1>9, <1>10, SameAsked

-----------------------------------------------------------------------------
(* The results of the mutations.                                           *)
Held(at) == {"ok", "data", "config"} \subseteq DOMAIN at
LaidOut(at, mutations) == Held(at) /\ (at.ok => AsAsked(at.data, mutations))

(* One mutation more, and the demand is as asked for.                      *)
LEMMA MutatedOk ==
    ASSUME NEW ms \in Seq(Mutations), NEW m \in Mutations, NEW us, OneMore(us, ms, m), NEW at, LaidOut(at, ms)
    PROVE  LaidOut(Mutated(at, m), us) /\ DOMAIN Mutated(at, m) = DOMAIN at
<1>1. PICK d, c, before : d = at.data /\ c = at.config /\ before = ApplyCalendars(d, c)
  OBVIOUS
<1>2. Held(at)
  BY DEF LaidOut
<1>3. CASE ~at.ok \/ ~Valid(d, c, m)
  <2>1. Mutated(at, m) = [at EXCEPT !.ok = FALSE]
    BY <1>1, <1>3 DEF Mutated
  <2>2. QED
    BY <1>2, <2>1 DEF LaidOut, Held
<1>4. CASE at.ok /\ Valid(d, c, m)
  <2>1. AsAsked(d, ms) /\ DOMAIN d = Fields
    BY <1>1, <1>4 DEF LaidOut, AsAsked, Even
  <2>2. CASE m.type \in OverlayTypes
    <3>1. Mutated(at, m) = [at EXCEPT !.data = OverlayAfter(d, c, m)]
      BY <1>1, <1>4, <2>2 DEF Mutated
    <3>2. AsAsked(d, us)
      BY <2>1, <2>2, DemandOfOther DEF OverlayTypes, DemandTypes
    <3>3. AsAsked(OverlayAfter(d, c, m), us)
      BY <2>1, <2>2, <3>2, OverlayKeeps, SameAsked
    <3>4. QED
      BY <1>2, <3>1, <3>3 DEF LaidOut, Held
  <2>3. CASE m.type = "overtime"
    <3>1. PICK l : Mutated(at, m) = [at EXCEPT !.config = l, !.data = Reprojected(d, l, before)]
      BY <1>1, <1>4, <2>3, Zenon DEF Mutated, OverlayTypes
    <3>2. AsAsked(d, us)
      BY <2>1, <2>3, DemandOfOther DEF DemandTypes
    <3>3. AsAsked(Reprojected(d, l, before), us)
      BY <2>1, <3>2, ReprojectedKeeps, SameAsked
    <3>4. QED
      BY <1>2, <3>1, <3>3 DEF LaidOut, Held
  <2>4. CASE m.type \in DemandTypes
    <3>1. PICK e : e = Lengthened(Traced(WithDemand(d, m), m), d.days, c, before)
      OBVIOUS
    <3>2. Mutated(at, m) = [at EXCEPT !.data = e]
      BY <1>1, <1>4, <2>4, <3>1 DEF Mutated, OverlayTypes, DemandTypes
    <3>3. AsAsked(e, us)
      BY <1>4, <2>1, <2>4, <3>1, DemandKept
    <3>4. QED
      BY <1>2, <3>2, <3>3 DEF LaidOut, Held
  <2>5. QED
    BY <2>2, <2>3, <2>4, MutationsAre
<1>5. QED
  BY <1>3, <1>4

(* Replaying one scenario leaves the demand alone,                         *)
LEMMA OverlaidKeeps ==
    ASSUME NEW at, Held(at), DOMAIN at.data = Fields, NEW m
    PROVE  DOMAIN Overlaid(at, m) = DOMAIN at /\ SameDemand(at.data, Overlaid(at, m).data)
<1>1. CASE m.type \notin OverlayTypes
  BY <1>1, SameIs DEF Overlaid
<1>2. CASE m.type \in OverlayTypes
  <2>1. PICK d, c : d = at.data /\ c = at.config
    OBVIOUS
  <2>2. CASE ~at.ok \/ ~Valid(d, c, m)
    <3>1. Overlaid(at, m) = [at EXCEPT !.ok = FALSE]
      BY <1>2, <2>1, <2>2 DEF Overlaid, Mutated
    <3>2. QED
      BY <3>1, SameIs DEF Held
  <2>3. CASE at.ok /\ Valid(d, c, m)
    <3>1. Overlaid(at, m) = [at EXCEPT !.data = OverlayAfter(d, c, m)]
      BY <1>2, <2>1, <2>3 DEF Overlaid, Mutated
    <3>2. SameDemand(d, OverlayAfter(d, c, m))
      BY <1>2, <2>1, OverlayKeeps
    <3>3. QED
      BY <2>1, <3>1, <3>2 DEF Held
  <2>4. QED
    BY <2>2, <2>3
<1>3. QED
  BY <1>1, <1>2

(* and so does replaying all of them.                                      *)
LEMMA ReappliedKeeps ==
    ASSUME NEW at, Held(at), DOMAIN at.data = Fields, NEW S, NEW ms \in Seq(S)
    PROVE  DOMAIN Reapplied(at, ms) = DOMAIN at /\ SameDemand(at.data, Reapplied(at, ms).data)
<1>1. PICK n \in Nat : DOMAIN ms = 1..n
  OBVIOUS
<1>2. PICK c : ReappliedRun(c, at, ms, n)
  BY <1>1, ReappliedSteps, Zenon
<1>3. c[0] = at /\ c[n] = Reapplied(at, ms) /\ \A k \in 0..(n - 1) : c[k + 1] = Overlaid(c[k], ms[k + 1])
  BY <1>2 DEF ReappliedRun
<1> DEFINE Kind(x) == DOMAIN x = DOMAIN at /\ SameDemand(at.data, x.data)
<1> DEFINE P == {k \in Nat : k <= n => Kind(c[k])}
<1>4. 0 \in P
  BY <1>3, SameIs
<1>5. ASSUME NEW k \in P PROVE k + 1 \in P
  <2>1. SUFFICES ASSUME k \in Nat, k + 1 <= n PROVE Kind(c[k + 1])
    OBVIOUS
  <2>2. k \in 0..(n - 1) /\ DOMAIN c[k] = DOMAIN at /\ SameDemand(at.data, c[k].data)
    BY <2>1
  <2>3. PICK x, m : x = c[k] /\ m = ms[k + 1] /\ c[k + 1] = Overlaid(x, m)
    BY <1>3, <2>2
  <2>4. Held(x) /\ DOMAIN x.data = Fields
    BY <2>2, <2>3 DEF Held, SameDemand
  <2>5. DOMAIN Overlaid(x, m) = DOMAIN x /\ SameDemand(x.data, Overlaid(x, m).data)
    BY <2>4, OverlaidKeeps
  <2>6. QED
    BY <2>2, <2>3, <2>5, SameSame
<1>6. P = Nat
  <2>1. P \subseteq Nat
    OBVIOUS
  <2> HIDE DEF P
  <2>2. QED
    BY <2>1, <1>4, <1>5, NatInd
<1>7. Kind(c[n])
  <2>1. n \in P
    BY <1>6
  <2>2. QED
    BY <2>1
<1>8. QED
  BY <1>3, <1>7

-----------------------------------------------------------------------------
(* The simulation.                                                         *)
Simulating(at, mutations) ==
    LaidOut(at, mutations) /\ {"overlays", "known"} \subseteq DOMAIN at /\ at.overlays \in Seq(Mutations)

(* One step of the simulation applies its mutation once,                   *)
LEMMA StepOk ==
    ASSUME NEW ms \in Seq(Mutations), NEW m \in Mutations, NEW us, OneMore(us, ms, m), NEW at, Simulating(at, ms)
    PROVE  Simulating(Step(at, m), us)
<1>1. PICK next : next = Mutated(at, m) /\ LaidOut(next, us) /\ DOMAIN next = DOMAIN at
  BY MutatedOk DEF Simulating
<1>2. PICK overlays \in Seq(Mutations) : overlays = Append(at.overlays, m)
  <2>1. PICK o \in Seq(Mutations) : o = at.overlays
    BY DEF Simulating
  <2>2. Append(o, m) \in Seq(Mutations)
    OBVIOUS
  <2>3. QED
    BY <2>1, <2>2
<1>3. PICK known : known = IF m.type = "operator_shortage"
                           THEN at.known (+) (next.data.away (-) at.data.away) ELSE at.known
  OBVIOUS
<1>4. PICK bare : bare = [next EXCEPT !.data.away = @ (-) known]
  OBVIOUS
<1>5. PICK again, b : again = Reapplied(bare, overlays) /\ b = again.data.away (-) bare.data.away
  OBVIOUS
<1>6. Step(at, m) = IF ~next.ok THEN next
                    ELSE IF m.type \in {"overtime", "rush_order", "delay_edd"}
                         THEN [again EXCEPT !.overlays = overlays, !.known = b]
                    ELSE [next EXCEPT !.overlays = overlays, !.known = known]
  BY <1>1, <1>2, <1>3, <1>4, <1>5 DEF Step
<1>7. Held(next) /\ {"overlays", "known"} \subseteq DOMAIN next
  BY <1>1 DEF LaidOut, Simulating
<1>8. CASE ~next.ok
  <2>1. Step(at, m) = next
    BY <1>6, <1>8
  <2>2. next.overlays = at.overlays
    <3>1. next = [at EXCEPT !.ok = FALSE] \/ next.overlays = at.overlays
      BY <1>1 DEF Mutated, Simulating, LaidOut, Held
    <3>2. QED
      BY <3>1, <1>7, <1>1
  <2>3. QED
    BY <1>1, <1>7, <2>1, <2>2 DEF Simulating
<1>9. CASE next.ok
  <2>1. AsAsked(next.data, us) /\ DOMAIN next.data = Fields
    BY <1>1, <1>9 DEF LaidOut, AsAsked, Even
  <2>2. CASE m.type \in {"overtime", "rush_order", "delay_edd"}
    <3>1. DOMAIN bare = DOMAIN next /\ SameDemand(next.data, bare.data)
      BY <1>4, <1>7, <2>1 DEF Held, SameDemand, Fields
    <3>2. Held(bare) /\ DOMAIN bare.data = Fields
      BY <1>7, <3>1 DEF Held, SameDemand
    <3>3. DOMAIN again = DOMAIN bare /\ SameDemand(bare.data, again.data)
      BY <1>5, <3>2, ReappliedKeeps
    <3>4. AsAsked(again.data, us)
      BY <2>1, <3>1, <3>3, SameAsked
    <3>5. Step(at, m) = [again EXCEPT !.overlays = overlays, !.known = b]
      BY <1>6, <1>9, <2>2
    <3>6. QED
      BY <1>2, <1>7, <3>1, <3>3, <3>4, <3>5 DEF Simulating, LaidOut, Held
  <2>3. CASE m.type \notin {"overtime", "rush_order", "delay_edd"}
    <3>1. Step(at, m) = [next EXCEPT !.overlays = overlays, !.known = known]
      BY <1>6, <1>9, <2>3
    <3>2. QED
      BY <1>2, <1>7, <2>1, <3>1 DEF Simulating, LaidOut, Held
  <2>4. QED
    BY <2>2, <2>3
<1>10. QED
  BY <1>8, <1>9

(* The first mutations of a sequence, and one more.                        *)
LEMMA OnePrefixMore ==
    ASSUME NEW S, NEW s \in Seq(S), NEW k \in Nat, k + 1 <= Len(s)
    PROVE  /\ SubSeq(s, 1, k) \in Seq(S) /\ s[k + 1] \in S
           /\ OneMore(SubSeq(s, 1, k + 1), SubSeq(s, 1, k), s[k + 1])
<1>1. PICK n \in Nat : n = Len(s) /\ DOMAIN s = 1..n /\ \A i \in 1..n : s[i] \in S
  OBVIOUS
<1>2. k + 1 \in 1..n
  BY <1>1
<1>3. PICK t : t = [i \in 1..k |-> s[i]]
  OBVIOUS
<1>4. t \in Seq(S) /\ Len(t) = k
  BY <1>1, <1>3
<1>5. PICK u : u = [i \in 1..(k + 1) |-> s[i]]
  OBVIOUS
<1>6. u = Append(t, s[k + 1])
  BY <1>1, <1>3, <1>4, <1>5
<1>7. SubSeq(s, 1, k) = t /\ SubSeq(s, 1, k + 1) = u
  BY <1>1, <1>3, <1>5
<1>8. QED
  BY <1>1, <1>2, <1>4, <1>6, <1>7 DEF OneMore

(* and all of them apply each of theirs once.                              *)
LEMMA StepsOk ==
    ASSUME NEW ms \in Seq(Mutations), NEW ps \in Seq(Mutations), NEW at, Simulating(at, ms)
    PROVE  Simulating(Steps(at, ps), ms \o ps)
<1>1. PICK n \in Nat, l \in Nat : n = Len(ps) /\ DOMAIN ps = 1..n /\ l = Len(ms)
  OBVIOUS
<1>2. PICK w \in Seq(Mutations) : w = ms \o ps
  <2>1. ms \o ps \in Seq(Mutations)
    OBVIOUS
  <2>2. QED
    BY <2>1
<1>3. Len(w) = l + n /\ SubSeq(w, 1, l) = ms /\ SubSeq(w, 1, l + n) = w
      /\ \A k \in 0..(n - 1) : w[l + (k + 1)] = ps[k + 1]
  <2>1. Len(w) = l + n
    BY <1>1, <1>2
  <2>2. SubSeq(w, 1, l) = ms
    <3>1. \A i \in 1..l : w[i] = ms[i]
      BY <1>1, <1>2
    <3>2. SubSeq(w, 1, l) = [i \in 1..l |-> w[i]] /\ ms = [i \in 1..l |-> ms[i]]
      BY <1>1, <2>1
    <3>3. QED
      BY <3>1, <3>2
  <2>3. SubSeq(w, 1, l + n) = w
    <3>1. PICK j \in Nat : j = l + n /\ Len(w) = j
      BY <2>1
    <3>2. SubSeq(w, 1, j) = w
      BY <3>1
    <3>3. QED
      BY <3>1, <3>2
  <2>4. ASSUME NEW k \in 0..(n - 1) PROVE w[l + (k + 1)] = ps[k + 1]
    <3>1. l + (k + 1) \in 1..(l + n) /\ ~(l + (k + 1) <= l) /\ (l + (k + 1)) - l = k + 1
      OBVIOUS
    <3>2. QED
      BY <1>1, <1>2, <3>1
  <2>5. QED
    BY <2>1, <2>2, <2>3, <2>4
<1>4. PICK c : StepsRun(c, at, ps, n)
  BY <1>1, StepsSteps, Zenon
<1>5. c[0] = at /\ c[n] = Steps(at, ps) /\ \A k \in 0..(n - 1) : c[k + 1] = Step(c[k], ps[k + 1])
  BY <1>4 DEF StepsRun
<1> DEFINE P == {k \in Nat : k <= n => Simulating(c[k], SubSeq(w, 1, l + k))}
<1>6. 0 \in P
  <2>1. l + 0 = l
    OBVIOUS
  <2>2. Simulating(c[0], SubSeq(w, 1, l + 0))
    BY <1>3, <1>5, <2>1
  <2>3. QED
    BY <2>2
<1>7. ASSUME NEW k \in P PROVE k + 1 \in P
  <2>1. SUFFICES ASSUME k \in Nat, k + 1 <= n PROVE Simulating(c[k + 1], SubSeq(w, 1, l + (k + 1)))
    OBVIOUS
  <2>2. k \in 0..(n - 1) /\ Simulating(c[k], SubSeq(w, 1, l + k))
    BY <2>1
  <2>3. PICK j \in Nat : j = l + k /\ j + 1 = l + (k + 1) /\ j + 1 <= Len(w)
    BY <1>3, <2>1
  <2>4. PICK t, u, m : t = SubSeq(w, 1, j) /\ u = SubSeq(w, 1, j + 1) /\ m = w[j + 1]
    OBVIOUS
  <2>5. t \in Seq(Mutations) /\ m \in Mutations /\ OneMore(u, t, m)
    BY <2>3, <2>4, OnePrefixMore
  <2>6. PICK x : x = c[k] /\ Simulating(x, t)
    BY <2>2, <2>3, <2>4
  <2>7. Simulating(Step(x, m), u)
    BY <2>5, <2>6, StepOk
  <2>8. c[k + 1] = Step(x, m)
    BY <1>3, <1>5, <2>2, <2>3, <2>4, <2>6
  <2>9. QED
    BY <2>3, <2>4, <2>7, <2>8
<1>8. P = Nat
  <2>1. P \subseteq Nat
    OBVIOUS
  <2> HIDE DEF P
  <2>2. QED
    BY <2>1, <1>6, <1>7, NatInd
<1>9. Simulating(c[n], SubSeq(w, 1, l + n))
  <2>1. n \in P
    BY <1>8
  <2>2. QED
    BY <2>1
<1>10. QED
  BY <1>2, <1>3, <1>5, <1>9

(* What is not known yet is of what was asked.                             *)
LEMMA UnknownType ==
    ASSUME NEW S, NEW known, NEW ms \in Seq(S)
    PROVE  Unknown(known, ms) \in Seq(S)
<1>1. PICK n \in Nat : DOMAIN ms = 1..n /\ \A i \in 1..n : ms[i] \in S
  OBVIOUS
<1>2. PICK c : UnknownRun(c, known, ms, n)
  BY <1>1, UnknownSteps, Zenon
<1>3. c[0] = <<>> /\ c[n] = Unknown(known, ms) /\ \A k \in 0..(n - 1) : c[k + 1] = UnknownStep(known, c[k], ms[k + 1])
  BY <1>2 DEF UnknownRun
<1> DEFINE P == {k \in Nat : k <= n => c[k] \in Seq(S)}
<1>4. 0 \in P
  <2>1. c[0] \in Seq(S)
    BY <1>3, EmptySeq
  <2>2. QED
    BY <2>1
<1>5. ASSUME NEW k \in P PROVE k + 1 \in P
  <2>1. SUFFICES ASSUME k \in Nat, k + 1 <= n PROVE c[k + 1] \in Seq(S)
    OBVIOUS
  <2>2. k \in 0..(n - 1) /\ k + 1 \in 1..n /\ c[k] \in Seq(S)
    BY <2>1
  <2>3. PICK m \in S, t \in Seq(S) : m = ms[k + 1] /\ t = c[k]
    BY <1>1, <2>2
  <2>4. c[k + 1] = t \/ c[k + 1] = Append(t, m)
    BY <1>3, <2>2, <2>3 DEF UnknownStep
  <2>5. Append(t, m) \in Seq(S)
    OBVIOUS
  <2>6. QED
    BY <2>4, <2>5
<1>6. P = Nat
  <2>1. P \subseteq Nat
    OBVIOUS
  <2> HIDE DEF P
  <2>2. QED
    BY <2>1, <1>4, <1>5, NatInd
<1>7. c[n] \in Seq(S)
  <2>1. n \in P
    BY <1>6
  <2>2. QED
    BY <2>1
<1>8. QED
  BY <1>3, <1>7

-----------------------------------------------------------------------------
(* The state.                                                              *)

(* Of the plan and of what a revert brings back: the scenarios are         *)
(* mutations, and the demand is what they ask for.                         *)
Asking ==
    /\ active \in Seq(Mutations) /\ asked \in Seq(Mutations)
    /\ AsAsked(data, asked)

Revertible ==
    /\ "age" \in DOMAIN saved
    /\ saved.age = 1 => /\ saved.active \in Seq(Mutations) /\ saved.asked \in Seq(Mutations)
                        /\ AsAsked(saved.data, saved.asked)

IInv == Asking /\ Revertible

(* A simulation gives the demand asked for with what it applies;           *)
LEMMA SimulatedOk ==
    ASSUME Asking, NEW pending \in Seq(Mutations), Simulated(pending).ok
    PROVE  AsAsked(Simulated(pending).data, asked \o pending)
<1>1. AsAsked(data, asked) /\ DOMAIN data = Fields
  BY DEF Asking, AsAsked, Even
<1>2. PICK bare : bare = ApplyCalendars(data, config) /\ SameDemand(data, bare)
  BY <1>1, CalendarsKeep
<1>3. PICK start : start = Start(bare, config) /\ Held(start) /\ start.data = bare
  <2>1. PICK start : start = Start(bare, config)
    OBVIOUS
  <2>2. Held(start) /\ start.data = bare
    BY <2>1 DEF Start, Held
  <2>3. QED
    BY <2>1, <2>2
<1>4. PICK laid : laid = Reapplied(start, active) /\ SameDemand(bare, laid.data)
  <2>1. DOMAIN start.data = Fields
    BY <1>2, <1>3 DEF SameDemand
  <2>2. QED
    BY <1>3, <2>1, ReappliedKeeps DEF Asking
<1>5. AsAsked(laid.data, asked)
  BY <1>1, <1>2, <1>4, SameAsked, SameSame
<1>6. PICK at : at = [ok |-> laid.ok, data |-> laid.data, config |-> config,
                      overlays |-> active, known |-> laid.data.away (-) bare.away]
  OBVIOUS
<1>7. Simulating(at, asked)
  BY <1>5, <1>6 DEF Simulating, LaidOut, Held, Asking
<1>8. Simulated(pending) = Steps(at, pending)
  BY <1>2, <1>3, <1>4, <1>6, Zenon DEF Simulated, Steps
<1>9. Simulating(Steps(at, pending), asked \o pending)
  BY <1>7, StepsOk DEF Asking
<1>10. QED
  BY <1>8, <1>9 DEF Simulating, LaidOut

(* a rebuild gives the one there was.                                      *)
LEMMA RebuiltOk ==
    ASSUME Asking, NEW c
    PROVE  AsAsked(Rebuilt(c).data, asked)
<1>1. AsAsked(data, asked) /\ DOMAIN data = Fields
  BY DEF Asking, AsAsked, Even
<1>2. PICK bare : bare = ApplyCalendars(data, c) /\ SameDemand(data, bare)
  BY <1>1, CalendarsKeep
<1>3. PICK start : start = Start(bare, c) /\ Held(start) /\ start.data = bare
  <2>1. PICK start : start = Start(bare, c)
    OBVIOUS
  <2>2. Held(start) /\ start.data = bare
    BY <2>1 DEF Start, Held
  <2>3. QED
    BY <2>1, <2>2
<1>4. SameDemand(bare, Reapplied(start, active).data)
  <2>1. DOMAIN start.data = Fields
    BY <1>2, <1>3 DEF SameDemand
  <2>2. QED
    BY <1>3, <2>1, ReappliedKeeps DEF Asking
<1>5. Rebuilt(c) = Reapplied(start, active)
  BY <1>2, <1>3 DEF Rebuilt
<1>6. QED
  BY <1>1, <1>2, <1>4, <1>5, SameAsked, SameSame

(* The invariant holds of the imported plan,                               *)
LEMMA InitOk == ASSUME Init PROVE IInv
<1>1. PICK n \in Nat : n = Imported
  BY ScenarioAssumption
<1>2. /\ DOMAIN data = Fields /\ data.days = n /\ data.trace = Orders
      /\ data.demand = [s \in Skus |-> ImportedDemand(s)]
  BY <1>1 DEF Init, Fields
<1>3. active = <<>> /\ asked = <<>> /\ saved = Nothing
  BY DEF Init
<1>4. ASSUME NEW s \in Skus PROVE TracedBy(data.trace[s], data.demand[s], n) /\ Demanded(data, s, asked)
  <2>1. PICK t \in Seq(Entries(n)) : t = Orders[s]
    BY <1>1, ScenarioAssumption
  <2>2. PICK f : f = ImportedDemand(s)
    OBVIOUS
  <2>3. f = [x \in 0..(n - 1) |-> Ordered(t, x)]
    BY <1>1, <2>1, <2>2 DEF ImportedDemand
  <2>4. \A x : Ordered(t, x) \in Nat
    BY EntriesLoose, TracesAre DEF TraceIs
  <2>5. f \in Grid(n)
    BY <2>3, <2>4 DEF Grid
  <2>6. ASSUME NEW x \in Nat PROVE Ordered(t, x) = At(f, x)
    <3>1. CASE x \in 0..(n - 1)
      BY <2>3, <3>1 DEF At
    <3>2. CASE x \notin 0..(n - 1)
      <4>1. At(f, x) = 0
        BY <2>3, <3>2 DEF At
      <4>2. \A i \in DOMAIN t : t[i].day \in 0..(n - 1)
        BY EntriesLoose, TracesAre DEF TraceIs
      <4>3. Due(t, x) = {}
        BY <3>2, <4>2 DEF Due
      <4>4. QED
        BY <4>1, <4>3, SumEmpty DEF Ordered
    <3>3. QED
      BY <3>1, <3>2
  <2>7. TracedBy(t, f, n)
    BY <2>5, <2>6, TracedIf
  <2>8. f = Padded(f, n)
    <3>1. \A y \in 0..(n - 1) : At(f, y) = At(f, y)
      OBVIOUS
    <3>2. n <= n
      OBVIOUS
    <3>3. QED
      BY <2>5, <3>1, <3>2, PaddedTo
  <2>9. History(s, asked) = f
    BY <1>3, <2>2, HistoryOfNone
  <2>10. data.demand[s] = f /\ data.trace[s] = t
    BY <1>2, <2>1, <2>2
  <2>11. Demanded(data, s, asked)
    <3>1. n <= data.days /\ History(s, asked) \in Grid(n) /\ data.demand[s] = Padded(History(s, asked), data.days)
      BY <1>2, <2>5, <2>8, <2>9, <2>10
    <3>2. QED
      BY <3>1 DEF Demanded
  <2>12. QED
    BY <2>7, <2>10, <2>11
<1>5. DOMAIN Orders = Skus
  BY ScenarioAssumption
<1>6. AsAsked(data, asked)
  BY <1>2, <1>4, <1>5 DEF AsAsked, Even
<1>7. active \in Seq(Mutations) /\ asked \in Seq(Mutations)
  BY <1>3, EmptySeq
<1>8. Revertible
  BY <1>3 DEF Revertible, Nothing
<1>9. QED
  BY <1>6, <1>7, <1>8 DEF IInv, Asking

(* The requests and the promises are of mutations.                         *)
LEMMA RequestsAre == Requests \subseteq Seq(Mutations) /\ Promises \subseteq Mutations
<1>1. Promises \subseteq Mutations
  <2>1. ASSUME NEW m \in Promises PROVE m \in Mutations
    BY <2>1 DEF Mutations
  <2>2. QED
    BY <2>1
<1>2. QED
  BY <1>1, MutationAssumption

(* What a scenario or a promise that is applied leaves behind.             *)
LEMMA AppliedOk ==
    ASSUME IInv, NEW pending \in Seq(Mutations), NEW ms \in Seq(Mutations), NEW result,
           result = Simulated(pending), result.ok, Applied(result, ms, pending)
    PROVE  IInv'
<1>1. AsAsked(result.data, asked \o pending)
  BY SimulatedOk DEF IInv
<1>2. PICK w \in Seq(Mutations) : w = asked \o pending
  <2>1. asked \o pending \in Seq(Mutations)
    BY DEF IInv, Asking
  <2>2. QED
    BY <2>1
<1>3. data' = result.data /\ asked' = w /\ active' = ms
  BY <1>2 DEF Applied
<1>4. Asking'
  BY <1>1, <1>2, <1>3 DEF Asking
<1>5. saved' = [age |-> 1, data |-> data, config |-> config, active |-> active, asked |-> asked]
  BY DEF Applied
<1>6. Revertible'
  BY <1>5 DEF Revertible, IInv, Asking
<1>7. QED
  BY <1>4, <1>6 DEF IInv

(* every step keeps it,                                                    *)
LEMMA NextOk == ASSUME IInv, [Next]_vars PROVE IInv'
<1>1. ASSUME NEW request \in Requests, SimulateAndApply(request) PROVE IInv'
  <2>1. PICK r \in Seq(Mutations) : r = request
    BY RequestsAre
  <2>2. PICK pending \in Seq(Mutations) : pending = Pending(request)
    BY <2>1, UnknownType DEF Pending
  <2>3. active \o pending \in Seq(Mutations)
    BY DEF IInv, Asking
  <2>4. PICK ms \in Seq(Mutations) : ms = Deduped(active \o pending)
    BY <2>3, UnknownType DEF Deduped
  <2>5. PICK result : result = Simulated(pending)
    OBVIOUS
  <2>6. result.ok /\ Applied(result, ms, pending)
    BY <1>1, <2>2, <2>4, <2>5 DEF SimulateAndApply
  <2>7. QED
    BY <2>5, <2>6, AppliedOk
<1>2. ASSUME NEW request \in Requests, NothingPending(request) PROVE IInv'
  BY <1>2 DEF NothingPending, IInv, Asking, Revertible
<1>3. ASSUME NEW order \in Promises, ApplyCtp(order) PROVE IInv'
  <2>1. PICK m \in Mutations : m = order
    BY RequestsAre
  <2>2. PICK pending \in Seq(Mutations) : pending = <<m>>
    <3>1. <<m>> \in Seq(Mutations)
      OBVIOUS
    <3>2. QED
      BY <3>1
  <2>3. Append(active, m) \in Seq(Mutations)
    BY DEF IInv, Asking
  <2>4. PICK ms \in Seq(Mutations) : ms = Append(active, m)
    BY <2>3
  <2>5. PICK result : result = Simulated(pending)
    OBVIOUS
  <2>6. result.ok /\ Applied(result, ms, pending)
    BY <1>3, <2>1, <2>2, <2>4, <2>5 DEF ApplyCtp
  <2>7. QED
    BY <2>5, <2>6, AppliedOk
<1>4. CASE Revert
  <2>1. saved.age = 1 /\ data' = saved.data /\ active' = saved.active /\ asked' = saved.asked /\ saved' = Nothing
    BY <1>4 DEF Revert
  <2>2. Asking'
    BY <2>1 DEF IInv, Revertible, Asking
  <2>3. Revertible'
    BY <2>1 DEF Revertible, Nothing
  <2>4. QED
    BY <2>2, <2>3 DEF IInv
<1>5. ASSUME NEW c, EditConfig(c) PROVE IInv'
  <2>1. data' = Rebuilt(c).data /\ active' = active /\ asked' = asked /\ saved' = Older
    BY <1>5 DEF EditConfig
  <2>2. AsAsked(Rebuilt(c).data, asked)
    BY RebuiltOk DEF IInv
  <2>3. Asking'
    BY <2>1, <2>2 DEF IInv, Asking
  <2>4. "age" \in DOMAIN Older /\ Older.age # 1
    BY DEF Older, Nothing, IInv, Revertible
  <2>5. Revertible'
    BY <2>1, <2>4 DEF Revertible
  <2>6. QED
    BY <2>3, <2>5 DEF IInv
<1>6. CASE Restart
  <2>1. data' = Rebuilt(config).data /\ active' = active /\ asked' = asked /\ saved' = Nothing
    BY <1>6 DEF Restart
  <2>2. AsAsked(Rebuilt(config).data, asked)
    BY RebuiltOk DEF IInv
  <2>3. Asking'
    BY <2>1, <2>2 DEF IInv, Asking
  <2>4. Revertible'
    BY <2>1 DEF Revertible, Nothing
  <2>5. QED
    BY <2>3, <2>4 DEF IInv
<1>7. CASE UNCHANGED vars
  BY <1>7 DEF vars, IInv, Asking, Revertible
<1>8. QED
  BY <1>1, <1>2, <1>3, <1>4, <1>5, <1>6, <1>7 DEF Next

(* and it says of the demand what was to be shown.                         *)
LEMMA AskedOk == ASSUME IInv PROVE DemandAsAsked
<1>1. PICK n \in Nat : n = data.days
  BY DEF IInv, Asking, AsAsked, Even
<1>2. ASSUME NEW sku \in Skus
      PROVE  /\ data.demand[sku] = Padded(History(sku, asked), data.days)
             /\ \A day \in 0..(data.days - 1) : data.demand[sku][day] = Ordered(data.trace[sku], day)
  <2>1. data.demand[sku] = Padded(History(sku, asked), data.days)
    BY DEF IInv, Asking, AsAsked, Demanded
  <2>2. TracedBy(data.trace[sku], data.demand[sku], n)
    BY <1>1 DEF IInv, Asking, AsAsked, Even
  <2>3. PICK f \in Grid(n) : f = data.demand[sku] /\ \A x \in Int : Ordered(data.trace[sku], x) = At(f, x)
    BY <2>2 DEF TracedBy
  <2>4. ASSUME NEW day \in 0..(n - 1) PROVE f[day] = Ordered(data.trace[sku], day)
    <3>1. At(f, day) = f[day] /\ day \in Int
      BY GridIs
    <3>2. QED
      BY <2>3, <3>1
  <2>5. QED
    BY <1>1, <2>1, <2>3, <2>4
<1>3. QED
  BY <1>2 DEF DemandAsAsked

(* The demand is the imported one changed once by each scenario and promise *)
(* that was answered "applied", whatever was edited, reverted or restarted  *)
(* since, and the orders of the clients add up to it day by day.            *)
THEOREM DemandIsAsAsked == Spec => []DemandAsAsked
<1>1. Init => IInv
  BY InitOk
<1>2. IInv /\ [Next]_vars => IInv'
  BY NextOk
<1>3. IInv => DemandAsAsked
  BY AskedOk
<1>4. QED
  BY <1>1, <1>2, <1>3, PTL DEF Spec
==============================================================================
