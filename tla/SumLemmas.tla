------------------------------ MODULE SumLemmas ------------------------------
(***************************************************************************)
(* Finite sums, for the modules whose properties speak of SumFunction or   *)
(* SumFunctionOnSet.  Those fold over a set in an order that CHOOSE fixes; *)
(* here it is shown that the sum does not depend on it.  The induction is  *)
(* on a set of subsets, through a smallest counterexample.                 *)
(***************************************************************************)
EXTENDS Integers, FiniteSetTheorems, TLAPS

\* Every non-empty set of natural numbers has a least element.
LEMMA LeastOf ==
  ASSUME NEW T, T \subseteq Nat, T # {}
  PROVE  \E n \in T : \A k \in T : n <= k
<1> DEFINE R == {p \in Nat \X Nat : p[1] < p[2]}
<1>1. IsWellFoundedOn(R, Nat)
  BY NatLessThanWellFounded DEF OpToRel
<1>2. PICK n \in T : \A k \in T : <<k, n>> \notin R
  <2> HIDE DEF R
  <2> QED
    BY <1>1, WFMin
<1>3. ASSUME NEW k \in T
      PROVE  n <= k
  <2>1. <<k, n>> \in Nat \X Nat /\ <<k, n>> \notin R
    BY <1>2
  <2>2. ~ (k < n)
    BY <2>1
  <2>3. QED
    BY <2>1, <2>2
<1>4. QED
  BY <1>3

\* Induction on the subsets of a finite set: Good is the set of those for which
\* the statement holds.
LEMMA SubsetInduction ==
  ASSUME NEW S, IsFiniteSet(S), NEW Good,
         \A T \in SUBSET S : (\A x \in T : T \ {x} \in Good) => T \in Good
  PROVE  \A T \in SUBSET S : T \in Good
<1> DEFINE Bad == (SUBSET S) \ Good
           Sizes == {Cardinality(T) : T \in Bad}
<1> SUFFICES ASSUME Bad # {} PROVE FALSE
  OBVIOUS
<1>1. \A T \in SUBSET S : IsFiniteSet(T) /\ Cardinality(T) \in Nat
  BY FS_Subset, FS_CardinalityType
<1>2. Sizes # {} /\ Sizes \subseteq Nat
  BY <1>1
<1>3. PICK T \in Bad : \A U \in Bad : Cardinality(T) <= Cardinality(U)
  <2>1. PICK n \in Sizes : \A k \in Sizes : n <= k
    <3> HIDE DEF Sizes
    <3> QED
      BY <1>2, LeastOf
  <2>2. QED
    BY <2>1
<1>4. ASSUME NEW x \in T
      PROVE  T \ {x} \in Good
  <2>1. T \ {x} \in SUBSET S /\ Cardinality(T \ {x}) = Cardinality(T) - 1
    BY <1>1, FS_RemoveElement
  <2>2. QED
    BY <1>1, <1>3, <2>1
<1>5. QED
  BY <1>4

-----------------------------------------------------------------------------
\* g tells the sum of f over every subset of S, whatever element is split off.
Additive(g, f, S) ==
  /\ g \in [SUBSET S -> Int]
  /\ g[{}] = 0
  /\ \A T \in SUBSET S : \A x \in T : g[T] = f[x] + g[T \ {x}]

LEMMA AdditiveExtends ==
  ASSUME NEW f, NEW T, NEW g, Additive(g, f, T), NEW x, x \notin T, f[x] \in Int,
         \A y \in T : f[y] \in Int
  PROVE  \E h : Additive(h, f, T \cup {x})
<1> DEFINE h == [U \in SUBSET (T \cup {x}) |->
                   IF x \in U THEN f[x] + g[U \ {x}] ELSE g[U]]
<1>1. \A U \in SUBSET (T \cup {x}) :
        /\ U \ {x} \in SUBSET T
        /\ x \notin U => U \in SUBSET T
  OBVIOUS
<1>2. \A U \in SUBSET T : g[U] \in Int
  BY DEF Additive
<1>3. h \in [SUBSET (T \cup {x}) -> Int]
  BY <1>1, <1>2
<1>4. h[{}] = 0
  BY DEF Additive
<1>5. ASSUME NEW U \in SUBSET (T \cup {x}), NEW y \in U
      PROVE  h[U] = f[y] + h[U \ {y}]
  <2>1. CASE y = x
    <3>1. h[U] = f[x] + g[U \ {x}] /\ h[U \ {x}] = g[U \ {x}]
      BY <2>1
    <3>2. QED
      BY <2>1, <3>1
  <2>2. CASE y # x /\ x \notin U
    <3>1. h[U] = g[U] /\ h[U \ {y}] = g[U \ {y}] /\ U \in SUBSET T
      BY <2>2, <1>1
    <3>2. QED
      BY <3>1 DEF Additive
  <2>3. CASE y # x /\ x \in U
    <3> DEFINE V == U \ {x}
    <3>1. V \in SUBSET T /\ y \in V /\ (U \ {y}) \ {x} = V \ {y}
      BY <2>3, <1>1
    <3>2. h[U] = f[x] + g[V] /\ h[U \ {y}] = f[x] + g[V \ {y}]
      BY <2>3, <3>1
    <3>3. g[V] = f[y] + g[V \ {y}]
      BY <3>1 DEF Additive
    <3>4. g[V \ {y}] \in Int /\ f[y] \in Int
      BY <3>1, <1>2
    <3>5. QED
      BY <3>2, <3>3, <3>4
  <2>4. QED
    BY <2>1, <2>2, <2>3
<1>6. Additive(h, f, T \cup {x})
  BY <1>3, <1>4, <1>5 DEF Additive
<1>7. QED
  BY <1>6

LEMMA AdditiveExists ==
  ASSUME NEW f, NEW S, IsFiniteSet(S), \A x \in S : f[x] \in Int
  PROVE  \E g : Additive(g, f, S)
<1> DEFINE Good == {T \in SUBSET S : \E g : Additive(g, f, T)}
<1>1. ASSUME NEW T \in SUBSET S, \A x \in T : T \ {x} \in Good
      PROVE  T \in Good
  <2>1. CASE T = {}
    <3>1. Additive([U \in SUBSET {} |-> 0], f, {})
      BY DEF Additive
    <3>2. QED
      BY <2>1, <3>1
  <2>2. ASSUME NEW x \in T
        PROVE  T \in Good
    <3>1. PICK g : Additive(g, f, T \ {x})
      BY <1>1
    <3>2. \E h : Additive(h, f, (T \ {x}) \cup {x})
      BY <3>1, AdditiveExtends
    <3>3. (T \ {x}) \cup {x} = T
      OBVIOUS
    <3>4. QED
      BY <3>2, <3>3
  <2>3. QED
    BY <2>1, <2>2
<1>2. \A T \in SUBSET S : T \in Good
  <2> HIDE DEF Good
  <2> QED
    BY <1>1, SubsetInduction
<1>3. QED
  BY <1>2

\* The function that SumFunctionOnSet recurs on is any additive one.
LEMMA SumIsAdditive ==
  ASSUME NEW f, NEW S, IsFiniteSet(S), NEW g, Additive(g, f, S)
  PROVE  SumFunctionOnSet(f, S) = g[S]
<1> DEFINE Any(T) == CHOOSE x \in T : TRUE
           Step(h) == [T \in SUBSET S |-> IF T = {} THEN 0
                                           ELSE f[Any(T)] + h[T \ {Any(T)}]]
           iter == CHOOSE h : h = Step(h)
<1>1. SumFunctionOnSet(f, S) = iter[S]
  BY DEF SumFunctionOnSet, FoldFunctionOnSet, MapThenFoldSet
<1>2. \A T : T # {} => Any(T) \in T
  OBVIOUS
<1>3. g = Step(g)
  <2>1. g = [T \in SUBSET S |-> g[T]]
    BY DEF Additive
  <2>2. \A T \in SUBSET S :
          g[T] = IF T = {} THEN 0 ELSE f[Any(T)] + g[T \ {Any(T)}]
    BY <1>2 DEF Additive
  <2>3. QED
    BY <2>1, <2>2
<1>4. iter = Step(iter)
  <2> HIDE DEF Step
  <2> QED
    BY <1>3
<1> DEFINE Good == {T \in SUBSET S : iter[T] = g[T]}
<1>5. \A T \in SUBSET S : T \in Good
  <2>1. ASSUME NEW T \in SUBSET S, \A x \in T : T \ {x} \in Good
        PROVE  T \in Good
    <3>1. iter[T] = IF T = {} THEN 0 ELSE f[Any(T)] + iter[T \ {Any(T)}]
      <4> HIDE DEF iter, Any
      <4> QED
        BY <1>4
    <3>2. CASE T = {}
      BY <3>1, <3>2 DEF Additive
    <3>3. CASE T # {}
      <4>1. Any(T) \in T /\ iter[T \ {Any(T)}] = g[T \ {Any(T)}]
        <5> HIDE DEF iter, Any
        <5> QED
          BY <1>2, <2>1, <3>3
      <4>2. g[T] = f[Any(T)] + g[T \ {Any(T)}]
        BY <4>1 DEF Additive
      <4>3. QED
        BY <3>1, <3>3, <4>1, <4>2
    <3>4. QED
      BY <3>2, <3>3
  <2>2. QED
    <3> HIDE DEF Good
    <3> QED
      BY <2>1, SubsetInduction
<1>6. QED
  BY <1>1, <1>5

-----------------------------------------------------------------------------
(* What the other modules cite.                                            *)

LEMMA SumOfNothing ==
  ASSUME NEW f
  PROVE  SumFunctionOnSet(f, {}) = 0
<1>1. PICK g : Additive(g, f, {})
  BY AdditiveExists, FS_EmptySet
<1>2. QED
  BY <1>1, SumIsAdditive, FS_EmptySet DEF Additive

LEMMA SumOfOneMore ==
  ASSUME NEW f, NEW S, IsFiniteSet(S), NEW x, x \notin S, f[x] \in Int,
         \A y \in S : f[y] \in Int
  PROVE  /\ SumFunctionOnSet(f, S) \in Int
         /\ SumFunctionOnSet(f, S \cup {x}) = SumFunctionOnSet(f, S) + f[x]
<1> DEFINE U == S \cup {x}
<1>1. IsFiniteSet(U)
  BY FS_AddElement
<1>2. PICK g : Additive(g, f, U)
  BY <1>1, AdditiveExists
<1>3. Additive([T \in SUBSET S |-> g[T]], f, S)
  BY <1>2 DEF Additive
<1>4. SumFunctionOnSet(f, S) = g[S]
  BY <1>3, SumIsAdditive
<1>5. SumFunctionOnSet(f, U) = g[U]
  BY <1>1, <1>2, SumIsAdditive
<1>6. g[U] = f[x] + g[S] /\ g[S] \in Int
  <2>1. U \ {x} = S /\ x \in U /\ S \in SUBSET U
    OBVIOUS
  <2>2. QED
    BY <1>2, <2>1 DEF Additive
<1>7. QED
  BY <1>4, <1>5, <1>6

LEMMA SumIsInt ==
  ASSUME NEW f, NEW S, IsFiniteSet(S), \A x \in S : f[x] \in Int
  PROVE  SumFunctionOnSet(f, S) \in Int
<1>1. PICK g : Additive(g, f, S)
  BY AdditiveExists
<1>2. SumFunctionOnSet(f, S) = g[S]
  BY <1>1, SumIsAdditive
<1>3. g[S] \in Int
  BY <1>1 DEF Additive
<1>4. QED
  BY <1>2, <1>3

\* A sum depends on the summands only.
LEMMA SumOfEquals ==
  ASSUME NEW f, NEW h, NEW S, IsFiniteSet(S), \A x \in S : f[x] \in Int /\ h[x] = f[x]
  PROVE  SumFunctionOnSet(h, S) = SumFunctionOnSet(f, S)
<1>1. PICK g : Additive(g, f, S)
  BY AdditiveExists
<1>2. Additive(g, h, S)
  BY <1>1 DEF Additive
<1>3. QED
  BY <1>1, <1>2, SumIsAdditive

LEMMA SumOfDisjoint ==
  ASSUME NEW f, NEW S, IsFiniteSet(S), NEW T, IsFiniteSet(T), S \cap T = {},
         \A x \in S \cup T : f[x] \in Int
  PROVE  SumFunctionOnSet(f, S \cup T) = SumFunctionOnSet(f, S) + SumFunctionOnSet(f, T)
<1> DEFINE sum(U) == SumFunctionOnSet(f, U)
           Good == {U \in SUBSET T : sum(S \cup U) = sum(S) + sum(U)}
<1>1. ASSUME NEW U \in SUBSET T, \A x \in U : U \ {x} \in Good
      PROVE  U \in Good
  <2>1. CASE U = {}
    <3>1. S \cup U = S
      BY <2>1
    <3>2. sum(S \cup U) = sum(S) /\ sum(U) = 0 /\ sum(S) \in Int
      BY <2>1, <3>1, SumOfNothing, SumIsInt
    <3>3. QED
      BY <3>2
  <2>2. ASSUME NEW x \in U
        PROVE  U \in Good
    <3> DEFINE V == U \ {x}
    <3>1. /\ x \notin V /\ V \cup {x} = U
          /\ x \notin S \cup V /\ (S \cup V) \cup {x} = S \cup U
      OBVIOUS
    <3>2. IsFiniteSet(V) /\ IsFiniteSet(S \cup V)
      BY FS_Subset, FS_Union
    <3>3. sum(U) = sum(V) + f[x] /\ sum(V) \in Int
      BY <3>1, <3>2, SumOfOneMore
    <3>4. sum(S \cup U) = sum(S \cup V) + f[x]
      BY <3>1, <3>2, SumOfOneMore
    <3>5. sum(S \cup V) = sum(S) + sum(V)
      BY <1>1
    <3>6. sum(S) \in Int /\ f[x] \in Int
      BY SumIsInt
    <3>7. QED
      BY <3>3, <3>4, <3>5, <3>6
  <2>3. QED
    BY <2>1, <2>2
<1>2. \A U \in SUBSET T : U \in Good
  <2> HIDE DEF Good
  <2> QED
    BY <1>1, SubsetInduction
<1>3. QED
  BY <1>2

LEMMA SumIsNat ==
  ASSUME NEW f, NEW S, IsFiniteSet(S), \A x \in S : f[x] \in Nat
  PROVE  SumFunctionOnSet(f, S) \in Nat
<1> DEFINE sum(U) == SumFunctionOnSet(f, U)
           Good == {U \in SUBSET S : sum(U) \in Nat}
<1>1. ASSUME NEW U \in SUBSET S, \A x \in U : U \ {x} \in Good
      PROVE  U \in Good
  <2>1. CASE U = {}
    BY <2>1, SumOfNothing
  <2>2. CASE U # {}
    <3>1. PICK x \in U : TRUE
      BY <2>2
    <3>2. /\ IsFiniteSet(U \ {x}) /\ x \notin U \ {x} /\ U = (U \ {x}) \cup {x}
          /\ f[x] \in Nat /\ \A y \in U \ {x} : f[y] \in Int
      BY FS_Subset
    <3>3. sum((U \ {x}) \cup {x}) = sum(U \ {x}) + f[x]
      BY <3>2, SumOfOneMore
    <3>4. sum(U \ {x}) \in Nat
      BY <1>1
    <3>5. sum(U) = sum(U \ {x}) + f[x]
      BY <3>2, <3>3
    <3>6. sum(U) \in Nat
      <4> HIDE DEF sum
      <4> QED
        BY <3>2, <3>4, <3>5
    <3>7. QED
      BY <3>6
  <2>3. QED
    BY <2>1, <2>2
<1>2. \A U \in SUBSET S : U \in Good
  <2> HIDE DEF Good
  <2> QED
    BY <1>1, SubsetInduction
<1>3. QED
  BY <1>2

LEMMA SumOfConstant ==
  ASSUME NEW f, NEW S, IsFiniteSet(S), NEW n \in Nat, \A x \in S : f[x] = n
  PROVE  SumFunctionOnSet(f, S) = n * Cardinality(S)
<1> DEFINE sum(U) == SumFunctionOnSet(f, U)
           Good == {U \in SUBSET S : sum(U) = n * Cardinality(U)}
<1>1. ASSUME NEW U \in SUBSET S, \A x \in U : U \ {x} \in Good
      PROVE  U \in Good
  <2>1. CASE U = {}
    BY <2>1, SumOfNothing, FS_EmptySet
  <2>2. CASE U # {}
    <3>1. PICK x \in U : TRUE
      BY <2>2
    <3>2. /\ IsFiniteSet(U) /\ IsFiniteSet(U \ {x}) /\ x \notin U \ {x} /\ U = (U \ {x}) \cup {x}
          /\ f[x] = n /\ \A y \in U \ {x} : f[y] \in Int
      BY FS_Subset
    <3>3. sum((U \ {x}) \cup {x}) = sum(U \ {x}) + f[x]
      BY <3>2, SumOfOneMore
    <3>4. sum(U \ {x}) = n * Cardinality(U \ {x})
      BY <1>1
    <3>5. /\ Cardinality(U) \in Nat /\ Cardinality(U \ {x}) \in Nat
          /\ Cardinality(U) = Cardinality(U \ {x}) + 1
      BY <3>2, FS_RemoveElement, FS_CardinalityType
    <3>6. n * Cardinality(U) = n * Cardinality(U \ {x}) + n
      BY <3>5
    <3>7. QED
      BY <3>2, <3>3, <3>4, <3>6
  <2>3. QED
    BY <2>1, <2>2
<1>2. \A U \in SUBSET S : U \in Good
  <2> HIDE DEF Good
  <2> QED
    BY <1>1, SubsetInduction
<1>3. QED
  BY <1>2

\* The sum follows the one summand that changes.
LEMMA SumOfOneChange ==
  ASSUME NEW f, NEW h, NEW S, IsFiniteSet(S), NEW x \in S,
         \A y \in S : f[y] \in Int /\ h[y] \in Int,
         \A y \in S \ {x} : h[y] = f[y]
  PROVE  SumFunctionOnSet(h, S) = SumFunctionOnSet(f, S) + h[x] - f[x]
<1> DEFINE R == S \ {x}
<1>1. IsFiniteSet(R) /\ x \notin R /\ R \cup {x} = S
  BY FS_Subset
<1>2. SumFunctionOnSet(h, R) = SumFunctionOnSet(f, R)
  BY <1>1, SumOfEquals
<1>3. /\ SumFunctionOnSet(f, R) \in Int
      /\ SumFunctionOnSet(f, R \cup {x}) = SumFunctionOnSet(f, R) + f[x]
  BY <1>1, SumOfOneMore
<1>4. SumFunctionOnSet(h, R \cup {x}) = SumFunctionOnSet(h, R) + h[x]
  BY <1>1, SumOfOneMore
<1> DEFINE sum(g, U) == SumFunctionOnSet(g, U)
<1>5. /\ sum(f, R) \in Int /\ f[x] \in Int /\ h[x] \in Int
      /\ sum(f, S) = sum(f, R) + f[x] /\ sum(h, S) = sum(f, R) + h[x]
  BY <1>1, <1>2, <1>3, <1>4
<1>6. sum(h, S) = sum(f, S) + h[x] - f[x]
  <2> HIDE DEF sum, R
  <2> QED
    BY <1>5
<1>7. QED
  BY <1>6
=============================================================================
