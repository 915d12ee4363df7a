----------------------- MODULE StructuresProofs -----------------------
(***************************************************************************)
(* Theorems about Structures, for any values, keys, elements and bounds:   *)
(* every structure answers as the object it stands for would, and its      *)
(* redundant parts stay consistent.  Each structure has an invariant of    *)
(* its own that relates the state of the code to the object, and a lemma   *)
(* that every call, and every turn of a loop, preserves it.                *)
(***************************************************************************)
EXTENDS Structures, SumLemmas, SequenceTheorems, TLAPS

(* Facts about sequences and sets of numbers.                              *)

LEMMA SeqIs ==
  ASSUME NEW S, NEW q \in Seq(S)
  PROVE  /\ Len(q) \in Nat /\ DOMAIN q = 1 .. Len(q)
         /\ \A i \in 1 .. Len(q) : q[i] \in S
         /\ q = <<>> <=> Len(q) = 0
         /\ ToSet(q) = {q[i] : i \in 1 .. Len(q)}
BY LenProperties, EmptySeq DEF ToSet

LEMMA AppendIs ==
  ASSUME NEW S, NEW q \in Seq(S), NEW e \in S
  PROVE  /\ Append(q, e) \in Seq(S) /\ Append(q, e) # <<>>
         /\ Len(Append(q, e)) = Len(q) + 1
         /\ \A i \in 1 .. Len(q) : Append(q, e)[i] = q[i]
         /\ Append(q, e)[Len(q) + 1] = e
<1>1. Len(q) \in Nat /\ Append(q, e) \in Seq(S) /\ Len(Append(q, e)) = Len(q) + 1
  BY SeqIs
<1>2. Append(q, e) # <<>>
  BY <1>1, SeqIs
<1>3. QED
  BY <1>1, <1>2

LEMMA FrontLastIs ==
  ASSUME NEW S, NEW q \in Seq(S), q # <<>>
  PROVE  /\ Len(q) \in Nat \ {0}
         /\ Front(q) \in Seq(S) /\ Len(Front(q)) = Len(q) - 1
         /\ \A i \in 1 .. Len(q) - 1 : Front(q)[i] = q[i]
         /\ Last(q) = q[Len(q)] /\ Last(q) \in S
<1> DEFINE n == Len(q) - 1
<1>1. Len(q) \in Nat \ {0} /\ \A i \in 1 .. Len(q) : q[i] \in S
  BY SeqIs
<1>2. n \in Nat /\ \A i \in 1 .. n : q[i] \in S
  BY <1>1
<1>3. /\ SubSeq(q, 1, n) \in Seq(S)
      /\ Len(SubSeq(q, 1, n)) = IF 1 <= n THEN n - 1 + 1 ELSE 0
      /\ \A i \in 1 .. n - 1 + 1 : SubSeq(q, 1, n)[i] = q[1 + i - 1]
  <2> HIDE DEF n
  <2> QED
    BY <1>2, SubSeqProperties
<1>4. Front(q) = SubSeq(q, 1, n)
  BY DEF Front
<1>5. Len(Front(q)) = n
  <2> HIDE DEF n
  <2>1. (IF 1 <= n THEN n - 1 + 1 ELSE 0) = n
    BY <1>2
  <2>2. QED
    BY <1>3, <1>4, <2>1
<1>6. ASSUME NEW i \in 1 .. n
      PROVE  Front(q)[i] = q[i]
  <2> HIDE DEF n
  <2>1. i \in 1 .. n - 1 + 1 /\ 1 + i - 1 = i
    BY <1>2
  <2>2. QED
    BY <1>3, <1>4, <2>1
<1>7. QED
  BY <1>1, <1>3, <1>4, <1>5, <1>6 DEF Last

LEMMA TailIs ==
  ASSUME NEW S, NEW q \in Seq(S), q # <<>>
  PROVE  /\ Len(q) \in Nat \ {0}
         /\ Head(q) = q[1] /\ Head(q) \in S
         /\ Tail(q) \in Seq(S) /\ Len(Tail(q)) = Len(q) - 1
         /\ \A i \in 1 .. Len(q) - 1 : Tail(q)[i] = q[i + 1]
<1>1. Len(q) \in Nat \ {0}
  BY SeqIs
<1>2. QED
  BY <1>1, HeadTailProperties

LEMMA ConsIs ==
  ASSUME NEW S, NEW q \in Seq(S), NEW e \in S
  PROVE  /\ <<e>> \o q \in Seq(S) /\ <<e>> \o q # <<>> /\ Len(<<e>> \o q) = Len(q) + 1
         /\ (<<e>> \o q)[1] = e
         /\ \A i \in 1 .. Len(q) : (<<e>> \o q)[i + 1] = q[i]
<1> DEFINE l == Len(q)
           c == <<e>> \o q
<1>1. l \in Nat
  BY SeqIs
<1>2. <<e>> \in Seq(S) /\ Len(<<e>>) = 1 /\ <<e>>[1] = e
  OBVIOUS
<1>3. /\ c \in Seq(S) /\ Len(c) = 1 + l
      /\ \A i \in 1 .. 1 + l : c[i] = IF i <= 1 THEN e ELSE q[i - 1]
  BY <1>2, ConcatProperties
<1>4. Len(c) # 0 => c # <<>>
  OBVIOUS
<1> HIDE DEF l, c
<1>5. 1 + l = l + 1 /\ 1 \in 1 .. 1 + l /\ c # <<>>
  BY <1>1, <1>3, <1>4
<1>6. \A i \in 1 .. l : i + 1 \in 1 .. 1 + l /\ ~(i + 1 <= 1) /\ i + 1 - 1 = i
  BY <1>1
<1>7. QED
  BY <1>3, <1>5, <1>6 DEF c, l

LEMMA RemoveAtIs ==
  ASSUME NEW S, NEW q \in Seq(S), NEW k \in 1 .. Len(q)
  PROVE  /\ RemoveAt(q, k) \in Seq(S) /\ Len(RemoveAt(q, k)) = Len(q) - 1
         /\ \A i \in 1 .. Len(q) - 1 : RemoveAt(q, k)[i] = IF i < k THEN q[i] ELSE q[i + 1]
<1> DEFINE l == Len(q)
           a == SubSeq(q, 1, k - 1)
           b == SubSeq(q, k + 1, l)
<1>1. l \in Nat \ {0} /\ k \in 1 .. l /\ \A i \in 1 .. l : q[i] \in S
  BY SeqIs
<1>2. /\ a \in Seq(S)
      /\ Len(a) = IF 1 <= k - 1 THEN k - 1 - 1 + 1 ELSE 0
      /\ \A i \in 1 .. k - 1 - 1 + 1 : a[i] = q[1 + i - 1]
  <2> HIDE DEF l
  <2>1. 1 \in Int /\ k - 1 \in Int /\ \A i \in 1 .. k - 1 : q[i] \in S
    BY <1>1
  <2>2. QED
    BY <2>1, SubSeqProperties
<1>3. /\ b \in Seq(S)
      /\ Len(b) = IF k + 1 <= l THEN l - (k + 1) + 1 ELSE 0
      /\ \A i \in 1 .. l - (k + 1) + 1 : b[i] = q[k + 1 + i - 1]
  <2> HIDE DEF l
  <2>1. k + 1 \in Int /\ l \in Int /\ \A i \in k + 1 .. l : q[i] \in S
    BY <1>1
  <2>2. QED
    BY <2>1, SubSeqProperties
<1>4. Len(a) = k - 1 /\ Len(b) = l - k
  <2> HIDE DEF l, a, b
  <2>1. QED
    BY <1>1, <1>2, <1>3
<1>5. /\ a \o b \in Seq(S) /\ Len(a \o b) = k - 1 + (l - k)
      /\ \A i \in 1 .. k - 1 + (l - k) : (a \o b)[i] = IF i <= k - 1 THEN a[i] ELSE b[i - (k - 1)]
  <2> HIDE DEF l, a, b
  <2>1. /\ a \o b \in Seq(S) /\ Len(a \o b) = Len(a) + Len(b)
        /\ \A i \in 1 .. Len(a) + Len(b) : (a \o b)[i] = IF i <= Len(a) THEN a[i] ELSE b[i - Len(a)]
    BY <1>2, <1>3, ConcatProperties
  <2>2. QED
    BY <1>4, <2>1
<1>6. RemoveAt(q, k) = a \o b
  BY DEF RemoveAt
<1> HIDE DEF l, a, b
<1>7. k - 1 + (l - k) = l - 1
  BY <1>1
<1>8. ASSUME NEW i \in 1 .. l - 1
      PROVE  (a \o b)[i] = IF i < k THEN q[i] ELSE q[i + 1]
  <2>1. CASE i < k
    <3>1. i <= k - 1 /\ i \in 1 .. k - 1 - 1 + 1 /\ 1 + i - 1 = i
      BY <1>1, <2>1
    <3>2. QED
      BY <1>2, <1>5, <1>7, <2>1, <3>1
  <2>2. CASE ~(i < k)
    <3>1. ~(i <= k - 1) /\ i - (k - 1) \in 1 .. l - (k + 1) + 1 /\ k + 1 + (i - (k - 1)) - 1 = i + 1
      BY <1>1, <2>2
    <3>2. QED
      BY <1>3, <1>5, <1>7, <2>2, <3>1
  <2>3. QED
    BY <2>1, <2>2
<1>9. QED
  BY <1>5, <1>6, <1>7, <1>8, Zenon DEF l

LEMMA MinIs ==
  ASSUME NEW S, S \subseteq Int, NEW x \in S, \A y \in S : x <= y
  PROVE  Min(S) = x
<1>1. \A y \in S : (\A z \in S : y <= z) => y = x
  OBVIOUS
<1>2. QED
  BY <1>1 DEF Min

LEMMA MinOfTwo ==
  ASSUME NEW a \in Int, NEW b \in Int
  PROVE  Min({a, b}) = IF a <= b THEN a ELSE b
<1>1. CASE a <= b
  <2>1. {a, b} \subseteq Int /\ a \in {a, b} /\ \A y \in {a, b} : a <= y
    BY <1>1
  <2>2. QED
    BY <1>1, <2>1, MinIs
<1>2. CASE ~(a <= b)
  <2>1. {a, b} \subseteq Int /\ b \in {a, b} /\ \A y \in {a, b} : b <= y
    BY <1>2
  <2>2. QED
    BY <1>2, <2>1, MinIs
<1>3. QED
  BY <1>1, <1>2

LEMMA MaxIs ==
  ASSUME NEW S, S \subseteq Int, NEW x \in S, \A y \in S : x >= y
  PROVE  Max(S) = x
<1>1. \A y \in S : (\A z \in S : y >= z) => y = x
  OBVIOUS
<1>2. QED
  BY <1>1 DEF Max

LEMMA MaxOfPlaces ==
  ASSUME NEW n \in Nat, NEW S, S \subseteq 0 .. n, S # {}
  PROVE  Max(S) \in S /\ \A y \in S : y <= Max(S)
<1> DEFINE T == {n - y : y \in S}
<1>1. T \subseteq Nat /\ T # {}
  <2>1. \A y \in S : n - y \in Nat
    OBVIOUS
  <2>2. QED
    BY <2>1
<1>2. PICK t \in T : \A u \in T : t <= u
  <2> HIDE DEF T
  <2> QED
    BY <1>1, LeastOf
<1>3. PICK x \in S : t = n - x
  OBVIOUS
<1>4. \A y \in S : x >= y
  <2>1. \A y \in S : n - x <= n - y
    BY <1>2, <1>3
  <2>2. x \in Int /\ \A y \in S : y \in Int
    OBVIOUS
  <2>3. QED
    BY <2>1, <2>2
<1>5. S \subseteq Int
  OBVIOUS
<1>6. Max(S) = x
  BY <1>4, <1>5, MaxIs
<1>7. QED
  BY <1>4, <1>5, <1>6

\* A sequence without repetitions is as long as the set of its elements is large.
LEMMA LenOfInjective ==
  ASSUME NEW S, NEW q \in Seq(S), IsInjective(q)
  PROVE  IsFiniteSet(ToSet(q)) /\ Cardinality(ToSet(q)) = Len(q)
<1> DEFINE n == Len(q)
           T == ToSet(q)
<1>1. n \in Nat /\ DOMAIN q = 1 .. n /\ q \in [1 .. n -> S]
  BY SeqIs, LenProperties
<1>2. T = {q[i] : i \in 1 .. n}
  BY <1>1 DEF ToSet
<1> HIDE DEF n, T
<1>3. IsFiniteSet(1 .. n) /\ Cardinality(1 .. n) = n
  <2>1. 1 \in Int /\ n \in Int /\ (IF 1 > n THEN 0 ELSE n - 1 + 1) = n
    BY <1>1
  <2>2. QED
    BY <2>1, FS_Interval
<1>4. q \in Surjection(1 .. n, T)
  BY <1>1, <1>2 DEF Surjection
<1>5. q \in Injection(1 .. n, T)
  BY <1>1, <1>2 DEF Injection, IsInjective
<1>6. IsFiniteSet(T) /\ Cardinality(T) = Cardinality(1 .. n)
  BY <1>3, <1>4, <1>5, FS_Surjection
<1>7. QED
  BY <1>3, <1>6 DEF n, T

\* The places of a sequence that is one longer.
LEMMA OneMore ==
  ASSUME NEW n \in Nat, NEW i \in 1 .. n + 1
  PROVE  i \in Int /\ (i = n + 1 \/ i \in 1 .. n) /\ n + 1 \in 1 .. n + 1
OBVIOUS

LEMMA SetsOfInt ==
  ASSUME NEW q \in Seq(Val)
  PROVE  q \in Seq(Int) /\ ToSet(q) \subseteq Int /\ \A i \in 1 .. Len(q) : q[i] \in Int /\ q[i] <= Infinite
<1>1. Val \subseteq Int
  BY ValAssumption
<1>2. q \in Seq(Int)
  BY <1>1, SeqMonotonic
<1>3. QED
  BY <1>2, SeqIs, ValAssumption


\* A finite set has an element where a given function is least.
LEMMA LowestOf ==
  ASSUME NEW S, IsFiniteSet(S), S # {}, NEW f, \A x \in S : f[x] \in Int
  PROVE  \E x \in S : \A y \in S : f[x] <= f[y]
<1> DEFINE Good == {T \in SUBSET S : T # {} => \E x \in T : \A y \in T : f[x] <= f[y]}
<1>1. ASSUME NEW T \in SUBSET S, \A x \in T : T \ {x} \in Good
      PROVE  T \in Good
  <2>1. CASE T = {}
    BY <2>1
  <2>2. CASE T # {}
    <3>1. PICK x \in T : TRUE
      BY <2>2
    <3>2. CASE T = {x}
      BY <3>1, <3>2
    <3>3. CASE T # {x}
      <4>1. PICK z \in T \ {x} : \A y \in T \ {x} : f[z] <= f[y]
        BY <1>1, <3>1, <3>3
      <4>2. f[x] \in Int /\ f[z] \in Int /\ \A y \in T : f[y] \in Int
        BY <3>1, <4>1
      <4>3. CASE f[z] <= f[x]
        BY <4>1, <4>3
      <4>4. CASE f[x] < f[z]
        <5>1. \A y \in T : f[x] <= f[y]
          BY <4>1, <4>2, <4>4
        <5>2. QED
          BY <3>1, <5>1
      <4>5. QED
        BY <4>2, <4>3, <4>4
    <3>4. QED
      BY <3>2, <3>3
  <2>3. QED
    BY <2>1, <2>2
<1>2. S \in Good
  <2> HIDE DEF Good
  <2> QED
    BY <1>1, SubsetInduction, Zenon
<1>3. QED
  BY <1>2

LEMMA SameInterval ==
  ASSUME NEW a \in Nat, NEW b \in Nat, 1 .. a = 1 .. b
  PROVE  a = b
<1>1. CASE a = 0
  <2>1. b \notin 1 .. a
    BY <1>1
  <2>2. QED
    BY <1>1, <2>1
<1>2. CASE b = 0
  <2>1. a \notin 1 .. b
    BY <1>2
  <2>2. QED
    BY <1>2, <2>1
<1>3. CASE a # 0 /\ b # 0
  <2>1. a \in 1 .. b /\ b \in 1 .. a
    BY <1>3
  <2>2. QED
    BY <2>1
<1>4. QED
  BY <1>1, <1>2, <1>3
-----------------------------------------------------------------------------
(* The stacks with a minimum.                                              *)

\* pos[i] is the place in q at which low[i] became the minimum: what lies at or below
\* it is no less, and what lies above it up to the next place is greater.
Records(pos, q, low) ==
  /\ pos \in [1 .. Len(low) -> 0 .. Len(q)]
  /\ pos[1] = 0
  /\ \A i \in 2 .. Len(low) : pos[i] > 0 /\ q[pos[i]] = low[i]
  /\ \A i, j \in 1 .. Len(low) : i < j => pos[i] < pos[j]
  /\ \A i \in 1 .. Len(low), j \in 1 .. Len(q) :
       /\ j <= pos[i] => q[j] >= low[i]
       /\ j > pos[i] /\ (i < Len(low) => j < pos[i + 1]) => q[j] > low[i]

MinStackInv ==
  /\ m \in Seq(Val)
  /\ s \in [data : Seq(Val), min : Seq(Int)]
  /\ s.data = m
  /\ s.min # <<>> /\ s.min[1] = Infinite
  /\ \E pos : Records(pos, m, s.min)

MinStack2Inv ==
  /\ m \in Seq(Val)
  /\ s \in [data : Seq(Val), min : Seq(Int)]
  /\ s.data = m
  /\ Len(s.min) = Len(m) + 1 /\ s.min[1] = Infinite
  /\ \A i \in 1 .. Len(m) :
       /\ \A j \in 1 .. i : s.min[i + 1] <= m[j]
       /\ \E j \in 1 .. i : s.min[i + 1] = m[j]

\* While there are elements, the last record is the least of them.
LEMMA LastRecord ==
  ASSUME MinStackInv, m # <<>>
  PROVE  /\ Len(s.min) >= 2
         /\ Last(s.min) = s.min[Len(s.min)] /\ Last(s.min) \in Int
         /\ Last(s.min) \in ToSet(m) /\ \A y \in ToSet(m) : Last(s.min) <= y
<1> DEFINE low == s.min
           n == Len(low)
<1>1. PICK pos : Records(pos, m, low)
  BY DEF MinStackInv
<1>2. /\ low \in Seq(Int) /\ n \in Nat \ {0} /\ low[1] = Infinite
      /\ Last(low) = low[n] /\ low[n] \in Int
  <2>1. low \in Seq(Int) /\ low # <<>> /\ low[1] = Infinite
    BY DEF MinStackInv
  <2>2. QED
    BY <2>1, FrontLastIs
<1>3. /\ Len(m) \in Nat \ {0} /\ ToSet(m) = {m[i] : i \in 1 .. Len(m)}
      /\ \A i \in 1 .. Len(m) : m[i] \in Val /\ m[i] \in Int /\ m[i] <= Infinite
  BY SeqIs, ValAssumption DEF MinStackInv
<1> HIDE DEF low, n
<1>4. pos[n] \in Nat /\ \A j \in 1 .. Len(m) : m[j] >= low[n]
  <2>1. pos[n] \in 0 .. Len(m)
    BY <1>1, <1>2 DEF Records, n
  <2>2. ASSUME NEW j \in 1 .. Len(m)
        PROVE  IF j <= pos[n] THEN m[j] >= low[n] ELSE m[j] > low[n]
    <3>1. n \in 1 .. Len(low) /\ ~(n < Len(low)) /\ j \in Int
      BY <1>2 DEF n
    <3>2. /\ j <= pos[n] => m[j] >= low[n]
          /\ j > pos[n] => m[j] > low[n]
      BY <1>1, <3>1 DEF Records
    <3>3. QED
      BY <2>1, <3>1, <3>2
  <2>3. QED
    BY <1>2, <1>3, <2>1, <2>2
<1>5. n # 1
  <2>1. SUFFICES ASSUME n = 1 PROVE FALSE
    OBVIOUS
  <2>2. pos[1] = 0
    BY <1>1 DEF Records
  <2>3. m[1] > low[1]
    BY <1>1, <1>3, <2>1, <2>2 DEF Records, n
  <2>4. QED
    BY <1>2, <1>3, <2>3, ValAssumption
<1>6. pos[n] \in 1 .. Len(m) /\ m[pos[n]] = low[n]
  <2>1. n \in 2 .. n /\ n \in 1 .. n
    BY <1>2, <1>5
  <2>2. pos[n] > 0 /\ m[pos[n]] = low[n] /\ pos[n] \in 0 .. Len(m)
    BY <1>1, <2>1 DEF Records, n
  <2>3. QED
    BY <1>3, <2>2
<1>7. low[n] \in ToSet(m) /\ \A y \in ToSet(m) : low[n] <= y
  BY <1>2, <1>3, <1>4, <1>6
<1>8. n >= 2
  BY <1>2, <1>5
<1>9. QED
  BY <1>2, <1>7, <1>8 DEF low, n

LEMMA MinStackAnswers ==
  ASSUME MinStackInv, m # <<>>
  PROVE  Last(s.data) = Last(m) /\ Last(s.min) = Min(ToSet(m))
<1>1. ToSet(m) \subseteq Int
  BY SetsOfInt DEF MinStackInv
<1>2. QED
  BY <1>1, LastRecord, MinIs DEF MinStackInv

LEMMA MinStackPushKeeps ==
  ASSUME MinStackInv, NEW v \in Val, s' = MinStackPush(s, v), m' = Append(m, v)
  PROVE  MinStackInv'
<1> DEFINE low == s.min
           n == Len(low)
           l == Len(m)
           q == Append(m, v)
<1>1. PICK pos : Records(pos, m, low)
  BY DEF MinStackInv
<1>2. /\ low \in Seq(Int) /\ n \in Nat \ {0} /\ low[1] = Infinite /\ low # <<>>
      /\ Last(low) = low[n] /\ \A i \in 1 .. n : low[i] \in Int
  <2>1. low \in Seq(Int) /\ low # <<>> /\ low[1] = Infinite
    BY DEF MinStackInv
  <2>2. QED
    BY <2>1, FrontLastIs, SeqIs
<1>3. /\ m \in Seq(Val) /\ l \in Nat /\ v \in Int
      /\ \A i \in 1 .. l : m[i] \in Int
  BY SeqIs, ValAssumption DEF MinStackInv
<1>4. /\ q \in Seq(Val) /\ Len(q) = l + 1 /\ q[l + 1] = v
      /\ \A i \in 1 .. l : q[i] = m[i]
  BY <1>3, AppendIs
<1> HIDE DEF low, n, l, q
<1>5. /\ pos \in [1 .. n -> 0 .. l] /\ pos[1] = 0
      /\ \A i \in 2 .. n : pos[i] > 0 /\ m[pos[i]] = low[i]
      /\ \A i, j \in 1 .. n : i < j => pos[i] < pos[j]
      /\ \A i \in 1 .. n, j \in 1 .. l :
           /\ j <= pos[i] => m[j] >= low[i]
           /\ j > pos[i] /\ (i < n => j < pos[i + 1]) => m[j] > low[i]
  BY <1>1 DEF Records, n, l
<1>6. CASE v <= Last(low)
  <2> DEFINE low2 == Append(low, v)
             pos2 == [i \in 1 .. n + 1 |-> IF i = n + 1 THEN l + 1 ELSE pos[i]]
  <2>1. /\ low2 \in Seq(Int) /\ Len(low2) = n + 1 /\ low2[n + 1] = v
        /\ \A i \in 1 .. n : low2[i] = low[i]
    BY <1>2, <1>3, AppendIs DEF n
  <2>2. s' = [data |-> q, min |-> low2]
    BY <1>6 DEF MinStackPush, MinStackInv, low, q
  <2> HIDE DEF low2
  <2>3. pos2 \in [1 .. n + 1 -> 0 .. l + 1] /\ pos2[1] = 0 /\ pos2[n + 1] = l + 1
        /\ \A i \in 1 .. n : pos2[i] = pos[i] /\ pos[i] \in 0 .. l
    <3>1. /\ 1 \in 1 .. n /\ 1 \in 1 .. n + 1 /\ n + 1 \in 1 .. n + 1 /\ n + 1 # 1
          /\ \A i \in 1 .. n : i \in 1 .. n + 1 /\ i # n + 1
          /\ \A i \in 1 .. n + 1 : i \in 1 .. n \/ i = n + 1
      BY <1>2
    <3>2. l + 1 \in 0 .. l + 1 /\ \A i \in 1 .. n : pos[i] \in 0 .. l /\ pos[i] \in 0 .. l + 1
      BY <1>3, <1>5
    <3>3. QED
      BY <1>5, <3>1, <3>2
  <2> HIDE DEF pos2
  <2>4. \A i \in 2 .. n + 1 : pos2[i] > 0 /\ q[pos2[i]] = low2[i]
    <3>1. \A i \in 2 .. n : pos2[i] > 0 /\ q[pos2[i]] = low2[i]
      <4>1. \A i \in 2 .. n : i \in 1 .. n /\ pos[i] \in 1 .. l
        BY <1>2, <1>3, <1>5
      <4>2. QED
        BY <1>4, <1>5, <2>1, <2>3, <4>1
    <3>2. pos2[n + 1] > 0 /\ q[pos2[n + 1]] = low2[n + 1]
      BY <1>3, <1>4, <2>1, <2>3
    <3>3. \A i \in 2 .. n + 1 : i \in 2 .. n \/ i = n + 1
      BY <1>2
    <3>4. QED
      BY <3>1, <3>2, <3>3
  <2>5. ASSUME NEW i \in 1 .. n + 1, NEW j \in 1 .. n + 1, i < j
        PROVE  pos2[i] < pos2[j]
    <3>1. i \in 1 .. n /\ (j \in 1 .. n \/ j = n + 1)
      BY <1>2, <2>5
    <3>2. pos2[i] = pos[i] /\ pos[i] \in 0 .. l
      BY <2>3, <3>1
    <3>3. CASE j \in 1 .. n
      BY <1>5, <2>3, <2>5, <3>1, <3>3
    <3>4. CASE j = n + 1
      BY <1>3, <2>3, <3>2, <3>4
    <3>5. QED
      BY <3>1, <3>3, <3>4
  <2>6. ASSUME NEW j \in 1 .. l
        PROVE  m[j] >= low[n]
    <3>1. n \in 1 .. n /\ ~(n < n) /\ j \in Int
      BY <1>2
    <3>2. pos[n] \in Int
      BY <1>5, <3>1
    <3>3. /\ j <= pos[n] => m[j] >= low[n]
          /\ j > pos[n] => m[j] > low[n]
      BY <1>5, <3>1
    <3>4. low[n] \in Int /\ m[j] \in Int
      BY <1>2, <1>3, <3>1
    <3>5. QED
      BY <3>1, <3>2, <3>3, <3>4
  <2>7. \A i \in 1 .. n + 1, j \in 1 .. l + 1 :
          /\ j <= pos2[i] => q[j] >= low2[i]
          /\ j > pos2[i] /\ (i < n + 1 => j < pos2[i + 1]) => q[j] > low2[i]
    <3>1. ASSUME NEW j \in 1 .. l + 1
          PROVE  q[j] >= low2[n + 1] /\ ~(j > pos2[n + 1])
      <4>1. j \in Int /\ (j \in 1 .. l \/ j = l + 1) /\ j <= l + 1
        BY <1>3
      <4>2. n \in 1 .. n /\ low[n] \in Int /\ v <= low[n] /\ low2[n + 1] = v
        BY <1>2, <1>6, <2>1
      <4>3. CASE j \in 1 .. l
        <5>1. q[j] = m[j] /\ m[j] \in Int /\ m[j] >= low[n]
          BY <1>3, <1>4, <2>6, <4>3
        <5>2. QED
          BY <1>3, <2>3, <4>1, <4>2, <5>1
      <4>4. CASE j = l + 1
        BY <1>3, <1>4, <2>3, <4>1, <4>2, <4>4
      <4>5. QED
        BY <4>1, <4>3, <4>4
    <3>2. ASSUME NEW i \in 1 .. n, NEW j \in 1 .. l + 1
          PROVE  /\ j <= pos2[i] => q[j] >= low2[i]
                 /\ j > pos2[i] /\ (i < n + 1 => j < pos2[i + 1]) => q[j] > low2[i]
      <4>1. CASE j = l + 1
        <5>1. pos2[i] \in 0 .. l /\ i < n + 1 /\ (i + 1 \in 1 .. n \/ i + 1 = n + 1)
          <6>1. i < n + 1 /\ (i + 1 \in 1 .. n \/ i + 1 = n + 1)
            BY <1>2
          <6>2. pos2[i] = pos[i] /\ pos[i] \in 0 .. l
            BY <2>3
          <6>3. QED
            BY <6>1, <6>2
        <5>2. pos2[i + 1] \in 0 .. l \/ pos2[i + 1] = l + 1
          BY <2>3, <5>1
        <5>3. QED
          BY <1>3, <4>1, <5>1, <5>2
      <4>2. CASE j \in 1 .. l
        <5>1. i < n => i + 1 \in 1 .. n /\ pos2[i + 1] = pos[i + 1]
          BY <1>2, <2>3
        <5>2. i < n + 1
          BY <1>2
        <5>3. QED
          BY <1>4, <1>5, <2>1, <2>3, <4>2, <5>1, <5>2
      <4>3. QED
        BY <1>3, <4>1, <4>2
    <3>3. QED
      BY <1>2, <3>1, <3>2
  <2>8. Records(pos2, q, low2)
    BY <1>4, <2>1, <2>3, <2>4, <2>5, <2>7 DEF Records
  <2>9. low2 # <<>> /\ low2[1] = Infinite
    BY <1>2, <2>1, SeqIs
  <2>10. m' = q /\ s'.data = q /\ s'.min = low2
    BY <2>2 DEF q
  <2>11. s' \in [data : Seq(Val), min : Seq(Int)]
    BY <1>4, <2>1, <2>2
  <2>12. Records(pos2, m', s'.min)
    BY <2>8, <2>10
  <2>13. QED
    BY <1>4, <2>9, <2>10, <2>11, <2>12 DEF MinStackInv
<1>7. CASE ~(v <= Last(low))
  <2>1. s' = [data |-> q, min |-> low]
    BY <1>7 DEF MinStackPush, MinStackInv, low, q
  <2>2. v > low[n]
    BY <1>2, <1>3, <1>7
  <2>3. pos \in [1 .. n -> 0 .. l + 1]
    BY <1>3, <1>5
  <2>4. \A i \in 2 .. n : pos[i] > 0 /\ q[pos[i]] = low[i]
    <3>1. \A i \in 2 .. n : i \in 1 .. n /\ pos[i] \in 1 .. l
      BY <1>2, <1>3, <1>5
    <3>2. QED
      BY <1>4, <1>5, <3>1
  <2>5. ASSUME NEW i \in 1 .. n, NEW j \in 1 .. l + 1
        PROVE  /\ j <= pos[i] => q[j] >= low[i]
               /\ j > pos[i] /\ (i < n => j < pos[i + 1]) => q[j] > low[i]
    <3>1. CASE j = l + 1
      <4>1. pos[i] \in 0 .. l /\ (i < n => i + 1 \in 1 .. n /\ pos[i + 1] \in 0 .. l)
        BY <1>2, <1>5
      <4>2. ~(j <= pos[i])
        BY <1>3, <3>1, <4>1
      <4>3. i < n => ~(j < pos[i + 1])
        BY <1>3, <3>1, <4>1
      <4>4. i = n => q[j] > low[i]
        BY <1>4, <2>2, <3>1
      <4>5. i < n \/ i = n
        BY <1>2
      <4>6. QED
        BY <4>2, <4>3, <4>4, <4>5
    <3>2. CASE j \in 1 .. l
      BY <1>4, <1>5, <3>2
    <3>3. QED
      BY <1>3, <3>1, <3>2
  <2>6. Records(pos, q, low)
    BY <1>4, <1>5, <2>3, <2>4, <2>5 DEF Records, n
  <2>7. m' = q /\ s'.data = q /\ s'.min = low
    BY <2>1 DEF q
  <2>8. s' \in [data : Seq(Val), min : Seq(Int)]
    BY <1>2, <1>4, <2>1
  <2>9. Records(pos, m', s'.min)
    BY <2>6, <2>7
  <2>10. QED
    BY <1>2, <1>4, <2>7, <2>8, <2>9 DEF MinStackInv
<1>8. QED
  BY <1>6, <1>7

LEMMA MinStackPopKeeps ==
  ASSUME MinStackInv, m # <<>>, s' = MinStackPop(s), m' = Front(m)
  PROVE  MinStackInv'
<1> DEFINE low == s.min
           n == Len(low)
           l == Len(m)
           q == Front(m)
           low2 == Front(low)
<1>1. PICK pos : Records(pos, m, low)
  BY DEF MinStackInv
<1>2. /\ low \in Seq(Int) /\ n \in Nat \ {0} /\ low[1] = Infinite /\ low # <<>>
      /\ Last(low) = low[n]
      /\ low2 \in Seq(Int) /\ Len(low2) = n - 1 /\ \A i \in 1 .. n - 1 : low2[i] = low[i]
  <2>1. low \in Seq(Int) /\ low # <<>> /\ low[1] = Infinite
    BY DEF MinStackInv
  <2>2. QED
    BY <2>1, FrontLastIs
<1>3. /\ m \in Seq(Val) /\ l \in Nat \ {0} /\ Last(m) = m[l]
      /\ q \in Seq(Val) /\ Len(q) = l - 1 /\ \A i \in 1 .. l - 1 : q[i] = m[i]
      /\ \A i \in 1 .. l : m[i] \in Int
  <2>1. m \in Seq(Val)
    BY DEF MinStackInv
  <2>2. QED
    BY <2>1, FrontLastIs, SetsOfInt
<1>4. n >= 2
  BY LastRecord
<1> HIDE DEF low, n, l, q, low2
<1>5. /\ pos \in [1 .. n -> 0 .. l] /\ pos[1] = 0
      /\ \A i \in 2 .. n : pos[i] > 0 /\ m[pos[i]] = low[i]
      /\ \A i, j \in 1 .. n : i < j => pos[i] < pos[j]
      /\ \A i \in 1 .. n, j \in 1 .. l :
           /\ j <= pos[i] => m[j] >= low[i]
           /\ j > pos[i] /\ (i < n => j < pos[i + 1]) => m[j] > low[i]
  BY <1>1 DEF Records, n, l
<1>6. n \in 2 .. n /\ n \in 1 .. n /\ pos[n] \in 0 .. l /\ l \in 1 .. l
  BY <1>2, <1>3, <1>4, <1>5
\* The record of the top is popped exactly when it stands at the top.
<1>7. Last(m) = Last(low) <=> pos[n] = l
  <2>1. ASSUME pos[n] # l, m[l] = low[n]
        PROVE  FALSE
    <3>1. l > pos[n] /\ ~(n < n)
      BY <1>3, <1>2, <1>6, <2>1
    <3>2. m[l] > low[n]
      BY <1>5, <1>6, <3>1
    <3>3. QED
      BY <1>3, <1>6, <2>1, <3>2
  <2>2. m[pos[n]] = low[n]
    BY <1>5, <1>6
  <2>3. QED
    BY <1>2, <1>3, <2>1, <2>2
<1>8. s.data = m /\ m' = q
  BY DEF MinStackInv, q
<1>9. CASE pos[n] = l
  <2> DEFINE pos2 == [i \in 1 .. n - 1 |-> pos[i]]
  <2>1. s' = [data |-> q, min |-> low2]
    BY <1>7, <1>8, <1>9 DEF MinStackPop, low, low2, q
  <2>2. ASSUME NEW i \in 1 .. n - 1
        PROVE  i \in 1 .. n /\ pos2[i] = pos[i] /\ pos[i] \in 0 .. l - 1 /\ low2[i] = low[i]
    <3>1. i \in 1 .. n /\ i < n
      BY <1>2
    <3>2. pos[i] < pos[n] /\ pos[i] \in 0 .. l
      BY <1>5, <1>6, <3>1
    <3>3. QED
      BY <1>2, <1>3, <1>9, <3>1, <3>2
  <2>3. pos2 \in [1 .. n - 1 -> 0 .. l - 1] /\ pos2[1] = 0
    <3>1. 1 \in 1 .. n - 1
      BY <1>2, <1>4
    <3>2. QED
      BY <1>5, <2>2, <3>1
  <2> HIDE DEF pos2
  <2>4. ASSUME NEW i \in 2 .. n - 1
        PROVE  pos2[i] > 0 /\ q[pos2[i]] = low2[i]
    <3>1. i \in 1 .. n - 1 /\ i \in 2 .. n
      BY <1>2
    <3>2. pos[i] > 0 /\ m[pos[i]] = low[i] /\ pos2[i] = pos[i] /\ pos[i] \in 0 .. l - 1
          /\ low2[i] = low[i]
      BY <1>5, <2>2, <3>1
    <3>3. QED
      BY <1>3, <3>2
  <2>5. \A i, j \in 1 .. n - 1 : i < j => pos2[i] < pos2[j]
    BY <1>5, <2>2
  <2>6. ASSUME NEW i \in 1 .. n - 1, NEW j \in 1 .. l - 1
        PROVE  /\ j <= pos2[i] => q[j] >= low2[i]
               /\ j > pos2[i] /\ (i < n - 1 => j < pos2[i + 1]) => q[j] > low2[i]
    <3>1. /\ i \in 1 .. n /\ j \in 1 .. l /\ j < pos[n] /\ i < n
          /\ pos2[i] = pos[i] /\ low2[i] = low[i] /\ q[j] = m[j]
      <4>1. i \in 1 .. n /\ i < n
        BY <1>2
      <4>2. j \in 1 .. l /\ j < pos[n]
        BY <1>3, <1>9
      <4>3. pos2[i] = pos[i] /\ low2[i] = low[i]
        BY <2>2
      <4>4. q[j] = m[j]
        BY <1>3
      <4>5. QED
        BY <4>1, <4>2, <4>3, <4>4
    <3>2. i < n - 1 => pos2[i + 1] = pos[i + 1]
      <4>1. i < n - 1 => i + 1 \in 1 .. n - 1
        BY <1>2
      <4>2. QED
        BY <2>2, <4>1
    <3>3. ~(i < n - 1) => i + 1 = n
      BY <1>2
    <3>4. (i < n - 1 => j < pos2[i + 1]) => j < pos[i + 1]
      BY <3>1, <3>2, <3>3
    <3>5. QED
      BY <1>5, <3>1, <3>4
  <2>7. Records(pos2, q, low2)
    BY <1>2, <1>3, <2>3, <2>4, <2>5, <2>6, Zenon DEF Records
  <2>8. low2 # <<>> /\ low2[1] = Infinite
    <3>1. Len(low2) # 0 /\ 1 \in 1 .. n - 1
      BY <1>2, <1>4
    <3>2. QED
      BY <1>2, <3>1, SeqIs
  <2>9. s'.data = q /\ s'.min = low2 /\ s' \in [data : Seq(Val), min : Seq(Int)]
    BY <1>2, <1>3, <2>1
  <2>10. Records(pos2, m', s'.min)
    BY <1>8, <2>7, <2>9
  <2>11. QED
    BY <1>3, <1>8, <2>8, <2>9, <2>10 DEF MinStackInv
<1>10. CASE pos[n] # l
  <2>1. s' = [data |-> q, min |-> low]
    BY <1>7, <1>8, <1>10 DEF MinStackPop, low, q
  <2>2. ASSUME NEW i \in 1 .. n
        PROVE  pos[i] \in 0 .. l - 1
    <3>1. pos[i] \in 0 .. l /\ pos[i] <= pos[n]
      <4>1. i = n \/ i < n
        BY <1>2
      <4>2. pos[i] \in 0 .. l
        BY <1>5
      <4>3. QED
        BY <1>5, <1>6, <4>1, <4>2
    <3>2. QED
      BY <1>3, <1>6, <1>10, <3>1
  <2>3. pos \in [1 .. n -> 0 .. l - 1]
    BY <1>5, <2>2
  <2>4. ASSUME NEW i \in 2 .. n
        PROVE  pos[i] > 0 /\ q[pos[i]] = low[i]
    <3>1. i \in 1 .. n /\ pos[i] \in 0 .. l - 1
      BY <1>2, <2>2
    <3>2. QED
      BY <1>3, <1>5, <3>1
  <2>5. \A i \in 1 .. n, j \in 1 .. l - 1 : j \in 1 .. l /\ q[j] = m[j]
    BY <1>3
  <2>6. Records(pos, q, low)
    BY <1>3, <1>5, <2>3, <2>4, <2>5 DEF Records, n
  <2>7. s'.data = q /\ s'.min = low /\ s' \in [data : Seq(Val), min : Seq(Int)]
    BY <1>2, <1>3, <2>1
  <2>8. Records(pos, m', s'.min)
    BY <1>8, <2>6, <2>7
  <2>9. QED
    BY <1>2, <1>3, <1>8, <2>7, <2>8 DEF MinStackInv
<1>11. QED
  BY <1>9, <1>10

\* Every call keeps the records, and answers as the stack of values would.
LEMMA MinStackStep ==
  ASSUME MinStackInv, kind = "minStack", StackCall
  PROVE  MinStackInv' /\ AnswersAgree'
<1>1. CASE \E v \in Val : Call(MinStackPush(s, v), Append(m, v), Void, Void)
  BY <1>1, MinStackPushKeeps DEF Call, AnswersAgree
<1>2. CASE m # <<>> /\ Call(MinStackPop(s), Front(m), Last(s.data), Last(m))
  BY <1>2, MinStackPopKeeps, MinStackAnswers DEF Call, AnswersAgree
<1>3. CASE m # <<>> /\ Call(s, m, Last(s.min), Min(ToSet(m)))
  BY <1>3, MinStackAnswers DEF Call, AnswersAgree, MinStackInv
<1>4. QED
  BY <1>1, <1>2, <1>3 DEF StackCall

-----------------------------------------------------------------------------
(* The second stack remembers the minimum of every prefix.                 *)

LEMMA MinStack2Step ==
  ASSUME MinStack2Inv, kind = "minStack2", StackCall
  PROVE  MinStack2Inv' /\ AnswersAgree'
<1> DEFINE low == s.min
           l == Len(m)
<1>1. /\ m \in Seq(Val) /\ l \in Nat /\ \A i \in 1 .. l : m[i] \in Int /\ m[i] <= Infinite
      /\ m = <<>> <=> l = 0
      /\ ToSet(m) = {m[i] : i \in 1 .. l} /\ ToSet(m) \subseteq Int
  BY SetsOfInt, SeqIs DEF MinStack2Inv
<1>2. /\ low \in Seq(Int) /\ Len(low) = l + 1 /\ low[1] = Infinite /\ s.data = m
      /\ \A i \in 1 .. l + 1 : low[i] \in Int
      /\ \A i \in 1 .. l :
           /\ \A j \in 1 .. i : low[i + 1] <= m[j]
           /\ \E j \in 1 .. i : low[i + 1] = m[j]
  <2>1. low \in Seq(Int) /\ Len(low) = l + 1
    BY DEF MinStack2Inv
  <2>2. QED
    BY <2>1, SeqIs DEF MinStack2Inv
<1>3. low # <<>> /\ Last(low) = low[l + 1] /\ low[l + 1] \in Int
  <2>1. low # <<>> /\ Last(low) = low[Len(low)]
    BY <1>1, <1>2, SeqIs DEF Last
  <2>2. l + 1 \in 1 .. l + 1
    BY <1>1
  <2>3. QED
    BY <1>2, <2>1, <2>2
<1> HIDE DEF low, l
<1>4. ASSUME NEW v \in Val, s' = MinStack2Push(s, v), m' = Append(m, v)
      PROVE  MinStack2Inv'
  <2> DEFINE q == Append(m, v)
             new == Min({v, Last(low)})
             low2 == Append(low, new)
  <2>1. v \in Int /\ v <= Infinite
    BY ValAssumption
  <2>2. new \in Int /\ new <= v /\ new <= low[l + 1] /\ (new = v \/ new = low[l + 1])
    <3>1. new = IF v <= low[l + 1] THEN v ELSE low[l + 1]
      BY <1>3, <2>1, MinOfTwo
    <3>2. QED
      BY <1>3, <2>1, <3>1
  <2> HIDE DEF new
  <2>3. /\ q \in Seq(Val) /\ Len(q) = l + 1 /\ q[l + 1] = v /\ \A i \in 1 .. l : q[i] = m[i]
    BY <1>1, AppendIs DEF l
  <2>4. /\ low2 \in Seq(Int) /\ Len(low2) = l + 2 /\ low2[l + 2] = new
        /\ \A i \in 1 .. l + 1 : low2[i] = low[i]
    <3>1. /\ low2 \in Seq(Int) /\ Len(low2) = Len(low) + 1 /\ low2[Len(low) + 1] = new
          /\ \A i \in 1 .. Len(low) : low2[i] = low[i]
      BY <1>2, <2>2, AppendIs
    <3>2. QED
      BY <1>1, <1>2, <3>1
  <2>5. s' = [data |-> q, min |-> low2] /\ m' = q
    BY <1>2, <1>4 DEF MinStack2Push, low, new
  <2> HIDE DEF q, low2
  <2>6. ASSUME NEW i \in 1 .. l
        PROVE  /\ \A j \in 1 .. i : low2[i + 1] <= q[j]
               /\ \E j \in 1 .. i : low2[i + 1] = q[j]
    <3>1. i + 1 \in 1 .. l + 1 /\ \A j \in 1 .. i : j \in 1 .. l
      BY <1>1
    <3>2. low2[i + 1] = low[i + 1] /\ \A j \in 1 .. i : q[j] = m[j]
      BY <2>3, <2>4, <3>1
    <3>3. QED
      BY <1>2, <3>2
  <2>7. \A j \in 1 .. l + 1 : low2[l + 2] <= q[j]
    <3>1. \A j \in 1 .. l : new <= m[j]
      <4>1. ASSUME NEW j \in 1 .. l
            PROVE  new <= m[j]
        <5>1. l \in 1 .. l /\ m[j] \in Int
          BY <1>1
        <5>2. low[l + 1] <= m[j]
          BY <1>2, <5>1
        <5>3. QED
          BY <1>3, <2>2, <5>1, <5>2
      <4>2. QED
        BY <4>1
    <3>2. \A j \in 1 .. l + 1 : j \in 1 .. l \/ j = l + 1
      BY <1>1
    <3>3. QED
      BY <2>2, <2>3, <2>4, <3>1, <3>2
  <2>8. \E j \in 1 .. l + 1 : low2[l + 2] = q[j]
    <3>1. l + 1 \in 1 .. l + 1 /\ \A j \in 1 .. l : j \in 1 .. l + 1
      BY <1>1
    <3>2. CASE new = v
      BY <2>3, <2>4, <3>1, <3>2
    <3>3. CASE new # v
      <4>1. new = low[l + 1] /\ low[l + 1] < v
        BY <1>3, <2>1, <2>2, <3>3
      <4>2. l \in 1 .. l
        BY <1>1, <1>2, <2>1, <4>1
      <4>3. PICK j \in 1 .. l : low[l + 1] = m[j]
        BY <1>2, <4>2
      <4>4. j \in 1 .. l + 1 /\ q[j] = low2[l + 2]
        BY <2>3, <2>4, <3>1, <4>1, <4>3
      <4>5. QED
        BY <4>4
    <3>4. QED
      BY <3>2, <3>3
  <2>9. ASSUME NEW i \in 1 .. l + 1
        PROVE  /\ \A j \in 1 .. i : low2[i + 1] <= q[j]
               /\ \E j \in 1 .. i : low2[i + 1] = q[j]
    <3>1. i \in 1 .. l \/ (i = l + 1 /\ i + 1 = l + 2)
      BY <1>1
    <3>2. QED
      BY <2>6, <2>7, <2>8, <3>1
  <2>10. low2[1] = Infinite
    <3>1. 1 \in 1 .. l + 1
      BY <1>1
    <3>2. QED
      BY <1>2, <2>4, <3>1
  <2>11. s' \in [data : Seq(Val), min : Seq(Int)] /\ s'.data = q /\ s'.min = low2
    BY <2>3, <2>4, <2>5
  <2>12. Len(low2) = Len(q) + 1
    BY <1>1, <2>3, <2>4
  <2>13. QED
    BY <2>3, <2>5, <2>9, <2>10, <2>11, <2>12 DEF MinStack2Inv
<1>5. ASSUME m # <<>>
      PROVE  Last(s.data) = Last(m) /\ Last(s.min) = Min(ToSet(m))
  <2>1. l \in 1 .. l
    BY <1>1, <1>5
  <2>2. low[l + 1] \in ToSet(m) /\ \A y \in ToSet(m) : low[l + 1] <= y
    BY <1>1, <1>2, <2>1
  <2>3. QED
    BY <1>1, <1>2, <1>3, <2>2, MinIs DEF low
<1>6. ASSUME m # <<>>, s' = MinStack2Pop(s), m' = Front(m)
      PROVE  MinStack2Inv'
  <2> DEFINE q == Front(m)
             low2 == Front(low)
  <2>1. q \in Seq(Val) /\ Len(q) = l - 1 /\ \A i \in 1 .. l - 1 : q[i] = m[i]
    BY <1>1, <1>6, FrontLastIs DEF l
  <2>2. /\ low2 \in Seq(Int) /\ Len(low2) = l /\ \A i \in 1 .. l : low2[i] = low[i]
    <3>1. /\ low2 \in Seq(Int) /\ Len(low2) = Len(low) - 1
          /\ \A i \in 1 .. Len(low) - 1 : low2[i] = low[i]
      BY <1>2, <1>3, FrontLastIs
    <3>2. Len(low) - 1 = l
      BY <1>1, <1>2
    <3>3. QED
      BY <3>1, <3>2
  <2>3. s' = [data |-> q, min |-> low2] /\ m' = q
    BY <1>2, <1>6 DEF MinStack2Pop, low
  <2> HIDE DEF q, low2
  <2>4. ASSUME NEW i \in 1 .. l - 1
        PROVE  /\ \A j \in 1 .. i : low2[i + 1] <= q[j]
               /\ \E j \in 1 .. i : low2[i + 1] = q[j]
    <3>1. i \in 1 .. l /\ i + 1 \in 1 .. l /\ \A j \in 1 .. i : j \in 1 .. l - 1
      BY <1>1
    <3>2. low2[i + 1] = low[i + 1] /\ \A j \in 1 .. i : q[j] = m[j]
      BY <2>1, <2>2, <3>1
    <3>3. QED
      BY <1>2, <3>1, <3>2
  <2>5. Len(low2) = Len(q) + 1 /\ low2[1] = Infinite
    <3>1. 1 \in 1 .. l
      BY <1>1, <1>6
    <3>2. QED
      BY <1>1, <1>2, <2>1, <2>2, <3>1
  <2>6. s' \in [data : Seq(Val), min : Seq(Int)] /\ s'.data = q /\ s'.min = low2
    BY <2>1, <2>2, <2>3
  <2>7. QED
    BY <2>1, <2>3, <2>4, <2>5, <2>6 DEF MinStack2Inv
<1>7. CASE \E v \in Val : Call(MinStack2Push(s, v), Append(m, v), Void, Void)
  BY <1>4, <1>7 DEF Call, AnswersAgree
<1>8. CASE m # <<>> /\ Call(MinStack2Pop(s), Front(m), Last(s.data), Last(m))
  BY <1>5, <1>6, <1>8 DEF Call, AnswersAgree
<1>9. CASE m # <<>> /\ Call(s, m, Last(s.min), Min(ToSet(m)))
  BY <1>5, <1>9 DEF Call, AnswersAgree, MinStack2Inv
<1>10. QED
  BY <1>7, <1>8, <1>9 DEF StackCall

-----------------------------------------------------------------------------
(* The queue of two stacks.                                                *)

\* The elements of q from the oldest: s2 downwards from its top, then s1 upwards.
TwoStacks(x, q) ==
  /\ x \in [s1 : Seq(Val), s2 : Seq(Val)]
  /\ Len(q) = Len(x.s1) + Len(x.s2)
  /\ \A i \in 1 .. Len(x.s2) : q[i] = x.s2[Len(x.s2) + 1 - i]
  /\ \A i \in 1 .. Len(x.s1) : q[Len(x.s2) + i] = x.s1[i]

CQueueInv == m \in Seq(Val) /\ TwoStacks(s, m)

\* Turning s1 over leaves the queue the same.
LEMMA TurnedOver ==
  ASSUME NEW q \in Seq(Val), NEW x, TwoStacks(x, q), x.s2 = <<>>
  PROVE  TwoStacks([s1 |-> <<>>, s2 |-> Reverse(x.s1)], q)
<1> DEFINE n == Len(x.s1)
           r == Reverse(x.s1)
<1>1. x.s1 \in Seq(Val) /\ n \in Nat /\ \A i \in 1 .. n : x.s1[i] \in Val
  <2>1. x.s1 \in Seq(Val)
    BY DEF TwoStacks
  <2>2. QED
    BY <2>1, SeqIs
<1>2. Len(x.s2) = 0
  OBVIOUS
<1>3. Len(q) = n /\ \A i \in 1 .. n : q[i] = x.s1[i]
  <2>1. Len(q) = n + 0 /\ \A i \in 1 .. n : q[0 + i] = x.s1[i]
    BY <1>2 DEF TwoStacks
  <2>2. n + 0 = n /\ \A i \in 1 .. n : 0 + i = i
    BY <1>1
  <2>3. QED
    BY <2>1, <2>2
<1>4. r = [i \in 1 .. n |-> x.s1[n - i + 1]]
  BY DEF Reverse
<1> HIDE DEF n, r
<1>5. \A i \in 1 .. n : n - i + 1 \in 1 .. n /\ n + 1 - i \in 1 .. n
  BY <1>1
<1>6. r \in Seq(Val) /\ Len(r) = n
  <2>1. \A i \in 1 .. n : x.s1[n - i + 1] \in Val
    BY <1>1, <1>5
  <2>2. r \in [1 .. n -> Val]
    BY <1>4, <2>1
  <2>3. QED
    BY <1>1, <2>2
<1>7. ASSUME NEW i \in 1 .. n
      PROVE  q[i] = r[n + 1 - i]
  <2>1. r[n + 1 - i] = x.s1[n - (n + 1 - i) + 1] /\ n - (n + 1 - i) + 1 = i
    BY <1>1, <1>4, <1>5
  <2>2. QED
    BY <1>3, <2>1
<1>8. <<>> \in Seq(Val) /\ Len(<<>>) = 0
  OBVIOUS
<1> DEFINE y == [s1 |-> <<>>, s2 |-> r]
<1>9. y \in [s1 : Seq(Val), s2 : Seq(Val)] /\ y.s1 = <<>> /\ y.s2 = r
  BY <1>6, <1>8
<1>10. Len(q) = Len(y.s1) + Len(y.s2)
  BY <1>1, <1>3, <1>6, <1>8, <1>9
<1>11. \A i \in 1 .. Len(y.s2) : q[i] = y.s2[Len(y.s2) + 1 - i]
  BY <1>6, <1>7, <1>9
<1>12. \A i \in 1 .. Len(y.s1) : q[Len(y.s2) + i] = y.s1[i]
  BY <1>8, <1>9
<1>13. TwoStacks(y, q)
  BY <1>9, <1>10, <1>11, <1>12 DEF TwoStacks
<1>14. QED
  BY <1>13 DEF r

LEMMA PoppedStack ==
  ASSUME NEW q \in Seq(Val), NEW x, TwoStacks(x, q), x.s2 # <<>>
  PROVE  /\ q # <<>> /\ Last(x.s2) = Head(q)
         /\ TwoStacks([x EXCEPT !.s2 = Front(@)], Tail(q))
<1> DEFINE a == Len(x.s1)
           b == Len(x.s2)
           f == Front(x.s2)
           t == Tail(q)
<1>1. x.s1 \in Seq(Val) /\ a \in Nat /\ x.s2 \in Seq(Val)
  <2>1. x.s1 \in Seq(Val) /\ x.s2 \in Seq(Val)
    BY DEF TwoStacks
  <2>2. QED
    BY <2>1, SeqIs
<1>2. /\ b \in Nat \ {0} /\ f \in Seq(Val) /\ Len(f) = b - 1
      /\ \A i \in 1 .. b - 1 : f[i] = x.s2[i]
      /\ Last(x.s2) = x.s2[b]
  BY <1>1, FrontLastIs
<1>3. /\ Len(q) = a + b
      /\ \A i \in 1 .. b : q[i] = x.s2[b + 1 - i]
      /\ \A i \in 1 .. a : q[b + i] = x.s1[i]
  BY DEF TwoStacks
<1>4. q # <<>>
  <2> HIDE DEF a, b
  <2>1. Len(q) # 0
    BY <1>1, <1>2, <1>3
  <2>2. QED
    BY <2>1, SeqIs
<1>5. /\ Head(q) = q[1] /\ t \in Seq(Val) /\ Len(t) = a + b - 1
      /\ \A i \in 1 .. a + b - 1 : t[i] = q[i + 1]
  <2>1. /\ Head(q) = q[1] /\ t \in Seq(Val) /\ Len(t) = Len(q) - 1
        /\ \A i \in 1 .. Len(q) - 1 : t[i] = q[i + 1]
    BY <1>4, TailIs
  <2> HIDE DEF a, b, t
  <2>2. Len(q) - 1 = a + b - 1
    BY <1>1, <1>2, <1>3
  <2>3. QED
    BY <2>1, <2>2
<1> HIDE DEF a, b, f, t
<1>6. q[1] = x.s2[b]
  <2>1. 1 \in 1 .. b /\ b + 1 - 1 = b
    BY <1>2
  <2>2. QED
    BY <1>3, <2>1
<1>7. ASSUME NEW i \in 1 .. b - 1
      PROVE  t[i] = f[b - i]
  <2>1. /\ i + 1 \in 1 .. b /\ i \in 1 .. a + b - 1 /\ b + 1 - (i + 1) = b - i
        /\ b - i \in 1 .. b - 1
    BY <1>1, <1>2
  <2>2. t[i] = x.s2[b - i]
    BY <1>3, <1>5, <2>1
  <2>3. QED
    BY <1>2, <2>1, <2>2
<1>8. ASSUME NEW i \in 1 .. a
      PROVE  t[b - 1 + i] = x.s1[i]
  <2>1. b - 1 + i \in 1 .. a + b - 1 /\ b - 1 + i + 1 = b + i
    BY <1>1, <1>2
  <2>2. QED
    BY <1>3, <1>5, <2>1
<1> DEFINE y == [x EXCEPT !.s2 = Front(@)]
<1>9. x \in [s1 : Seq(Val), s2 : Seq(Val)]
  BY DEF TwoStacks
<1>10. y \in [s1 : Seq(Val), s2 : Seq(Val)] /\ y.s1 = x.s1 /\ y.s2 = f
  BY <1>2, <1>9 DEF f
<1> HIDE DEF y
<1>11. Len(y.s1) = a /\ Len(y.s2) = b - 1
  BY <1>2, <1>10 DEF a
<1>12. Len(t) = Len(y.s1) + Len(y.s2)
  BY <1>1, <1>2, <1>5, <1>11
<1>13. ASSUME NEW i \in 1 .. Len(y.s2)
       PROVE  t[i] = y.s2[Len(y.s2) + 1 - i]
  <2>1. i \in 1 .. b - 1 /\ Len(y.s2) + 1 - i = b - i
    BY <1>2, <1>11
  <2>2. QED
    BY <1>7, <1>10, <2>1
<1>14. \A i \in 1 .. Len(y.s1) : t[Len(y.s2) + i] = y.s1[i]
  BY <1>8, <1>10, <1>11
<1>15. TwoStacks(y, t)
  BY <1>10, <1>12, <1>13, <1>14 DEF TwoStacks
<1>16. QED
  BY <1>2, <1>4, <1>5, <1>6, <1>15 DEF y, t

LEMMA CQueuePush ==
  ASSUME CQueueInv, NEW v \in Val, s' = [s EXCEPT !.s1 = Append(@, v)], m' = Append(m, v)
  PROVE  CQueueInv'
<1> DEFINE a == Len(s.s1)
           b == Len(s.s2)
           f == Append(s.s1, v)
           q == Append(m, v)
<1>1. /\ m \in Seq(Val) /\ s \in [s1 : Seq(Val), s2 : Seq(Val)]
      /\ Len(m) = a + b
      /\ \A i \in 1 .. b : m[i] = s.s2[b + 1 - i]
      /\ \A i \in 1 .. a : m[b + i] = s.s1[i]
  BY DEF CQueueInv, TwoStacks
<1>2. a \in Nat /\ b \in Nat
  BY <1>1, SeqIs
<1>3. /\ f \in Seq(Val) /\ Len(f) = a + 1 /\ f[a + 1] = v
      /\ \A i \in 1 .. a : f[i] = s.s1[i]
  BY <1>1, AppendIs
<1>4. /\ q \in Seq(Val) /\ Len(q) = a + b + 1 /\ q[a + b + 1] = v
      /\ \A i \in 1 .. a + b : q[i] = m[i]
  BY <1>1, AppendIs
<1>5. s' \in [s1 : Seq(Val), s2 : Seq(Val)] /\ s'.s1 = f /\ s'.s2 = s.s2 /\ m' = q
  BY <1>1, <1>3
<1> HIDE DEF a, b, f, q
<1>6. ASSUME NEW i \in 1 .. b
      PROVE  q[i] = s.s2[b + 1 - i]
  <2>1. i \in 1 .. a + b
    BY <1>2
  <2>2. QED
    BY <1>1, <1>4, <2>1
<1>7. ASSUME NEW i \in 1 .. a + 1
      PROVE  q[b + i] = f[i]
  <2>1. CASE i = a + 1
    <3>1. b + i = a + b + 1
      BY <1>2, <2>1
    <3>2. QED
      BY <1>3, <1>4, <2>1, <3>1
  <2>2. CASE i # a + 1
    <3>1. i \in 1 .. a /\ b + i \in 1 .. a + b
      BY <1>2, <2>2
    <3>2. QED
      BY <1>1, <1>3, <1>4, <3>1
  <2>3. QED
    BY <2>1, <2>2
<1>8. Len(q) = Len(f) + b
  BY <1>2, <1>3, <1>4
<1>9. Len(s'.s1) = a + 1 /\ Len(s'.s2) = b
  BY <1>3, <1>5 DEF b
<1>10. TwoStacks(s', q)
  <2>1. \A i \in 1 .. Len(s'.s2) : q[i] = s'.s2[Len(s'.s2) + 1 - i]
    BY <1>5, <1>6, <1>9
  <2>2. \A i \in 1 .. Len(s'.s1) : q[Len(s'.s2) + i] = s'.s1[i]
    BY <1>5, <1>7, <1>9
  <2>3. Len(q) = Len(s'.s1) + Len(s'.s2)
    BY <1>3, <1>5, <1>8, <1>9
  <2>4. QED
    BY <1>5, <2>1, <2>2, <2>3, Zenon DEF TwoStacks
<1>11. QED
  BY <1>4, <1>5, <1>10 DEF CQueueInv, TwoStacks

LEMMA CQueueStep ==
  ASSUME CQueueInv, CQueueCall
  PROVE  CQueueInv' /\ AnswersAgree'
<1> DEFINE y == IF s.s2 = <<>> THEN [s1 |-> <<>>, s2 |-> Reverse(s.s1)] ELSE s
           got == DeleteHead(s)
<1>1. m \in Seq(Val) /\ TwoStacks(s, m)
  BY DEF CQueueInv
<1>2. TwoStacks(y, m)
  BY <1>1, TurnedOver
<1>3. got = IF y.s2 = <<>> THEN <<y, -1>> ELSE <<[y EXCEPT !.s2 = Front(@)], Last(y.s2)>>
  BY DEF DeleteHead
<1>4. y.s2 = <<>> => m = <<>>
  <2>1. ASSUME y.s2 = <<>>
        PROVE  m = <<>>
    <3>1. s.s2 = <<>>
      BY <2>1
    <3>2. y = [s1 |-> <<>>, s2 |-> Reverse(s.s1)]
      BY <3>1
    <3>3. y.s1 = <<>>
      BY <3>2
    <3>4. Len(m) = 0 + 0
      BY <1>2, <2>1, <3>3 DEF TwoStacks
    <3>5. QED
      BY <1>1, <3>4, SeqIs
  <2>2. QED
    BY <2>1
<1> HIDE DEF y, got
<1>5. CASE \E v \in Val : Call([s EXCEPT !.s1 = Append(@, v)], Append(m, v), Void, Void)
  BY <1>5, CQueuePush DEF Call, AnswersAgree
<1>6. CASE m = <<>> /\ Call(got[1], m, got[2], -1)
  <2>1. y.s2 = <<>>
    BY <1>1, <1>2, <1>6, PoppedStack
  <2>2. s' = y /\ m' = m /\ AnswersAgree'
    BY <1>3, <1>6, <2>1 DEF Call, AnswersAgree
  <2>3. TwoStacks(s', m)
    BY <1>2, <2>2
  <2>4. QED
    BY <1>1, <2>2, <2>3 DEF CQueueInv, TwoStacks
<1>7. CASE m # <<>> /\ Call(got[1], Tail(m), got[2], Head(m))
  <2>1. y.s2 # <<>>
    BY <1>4, <1>7
  <2>2. Last(y.s2) = Head(m) /\ TwoStacks([y EXCEPT !.s2 = Front(@)], Tail(m))
    BY <1>1, <1>2, <2>1, PoppedStack
  <2>3. s' = [y EXCEPT !.s2 = Front(@)] /\ m' = Tail(m) /\ AnswersAgree'
    BY <1>3, <1>7, <2>1, <2>2 DEF Call, AnswersAgree
  <2>4. TwoStacks(s', Tail(m)) /\ Tail(m) \in Seq(Val)
    BY <1>1, <1>7, <2>2, <2>3, TailIs
  <2>5. QED
    BY <2>3, <2>4 DEF CQueueInv, TwoStacks
<1>8. QED
  BY <1>5, <1>6, <1>7 DEF CQueueCall, got


-----------------------------------------------------------------------------
(* The pool of blocks of one size.                                         *)

\* The free blocks and the blocks held are all the blocks there are, each once.
Blocks(x, held) ==
  /\ x \in [free : Seq(Int), fresh : Nat, lock : 0 .. 2]
  /\ IsInjective(x.free) /\ ToSet(x.free) \cap held = {} /\ ToSet(x.free) \cup held = 1 .. x.fresh

MemoryPoolInv == Blocks(s, m)

LEMMA PoolRecord ==
  ASSUME NEW x \in [free : Seq(Int), fresh : Nat, lock : 0 .. 2], NEW f, NEW l
  PROVE  [[x EXCEPT !.free = f] EXCEPT !.lock = l] = [free |-> f, fresh |-> x.fresh, lock |-> l]
<1> DEFINE y == [x EXCEPT !.free = f]
<1>1. y = [free |-> f, fresh |-> x.fresh, lock |-> x.lock]
  OBVIOUS
<1> HIDE DEF y
<1>2. [y EXCEPT !.lock = l] = [free |-> f, fresh |-> x.fresh, lock |-> l]
  BY <1>1
<1>3. QED
  BY <1>2 DEF y

LEMMA PoolExpanded ==
  ASSUME NEW x, NEW held, Blocks(x, held), x.free = <<>>
  PROVE  Blocks(ExpandTheFreeList(x), held) /\ ExpandTheFreeList(x).free # <<>>
<1> DEFINE e == Expansion + 1
           n == x.fresh
           f == [j \in 1 .. e |-> n + j]
           y == ExpandTheFreeList(x)
<1>1. e \in Nat \ {0} /\ n \in Nat
  BY PoolsAssumption DEF Blocks
<1>2. /\ y \in [free : Seq(Int), fresh : Nat, lock : 0 .. 2]
      /\ y.free = f /\ y.fresh = n + e
  <2>1. f \in [1 .. e -> Int]
    BY <1>1
  <2>2. f \in Seq(Int)
    BY <1>1, <2>1
  <2>3. x \in [free : Seq(Int), fresh : Nat, lock : 0 .. 2]
    BY DEF Blocks
  <2>4. y = [x EXCEPT !.free = f, !.fresh = n + Expansion + 1] /\ n + Expansion + 1 = n + e
    BY <1>1, PoolsAssumption DEF ExpandTheFreeList
  <2> HIDE DEF f, y
  <2>5. y = [free |-> f, fresh |-> n + e, lock |-> x.lock]
    BY <2>3, <2>4
  <2>6. n + e \in Nat
    BY <1>1
  <2>7. QED
    BY <2>2, <2>3, <2>5, <2>6
<1>3. DOMAIN f = 1 .. e /\ \A j \in 1 .. e : f[j] = n + j
  OBVIOUS
<1>4. held = 1 .. n
  <2>1. ToSet(x.free) = {}
    BY DEF ToSet
  <2>2. QED
    BY <2>1 DEF Blocks
<1> HIDE DEF e, n, f, y
<1>5. f # <<>>
  BY <1>1, <1>3
<1>6. IsInjective(f)
  BY <1>1, <1>3 DEF IsInjective
<1>7. ToSet(f) = n + 1 .. n + e
  <2>1. ASSUME NEW b \in n + 1 .. n + e
        PROVE  b \in ToSet(f)
    <3>1. b - n \in 1 .. e /\ f[b - n] = b
      BY <1>1, <1>3
    <3>2. QED
      BY <1>3, <3>1 DEF ToSet
  <2>2. \A j \in 1 .. e : f[j] \in n + 1 .. n + e
    BY <1>1, <1>3
  <2>3. QED
    BY <1>3, <2>1, <2>2 DEF ToSet
<1>8. ToSet(f) \cap held = {} /\ ToSet(f) \cup held = 1 .. n + e
  BY <1>1, <1>4, <1>7
<1>9. Blocks(y, held)
  BY <1>2, <1>6, <1>8 DEF Blocks
<1>10. QED
  BY <1>2, <1>5, <1>9 DEF y

LEMMA PoolTaken ==
  ASSUME NEW x, NEW held, Blocks(x, held), x.free # <<>>
  PROVE  /\ Head(x.free) \notin held
         /\ Blocks([[x EXCEPT !.free = Tail(@)] EXCEPT !.lock = 0], held \cup {Head(x.free)})
<1> DEFINE q == x.free
           n == Len(q) - 1
           t == Tail(q)
           b == Head(q)
           y == [[x EXCEPT !.free = Tail(@)] EXCEPT !.lock = 0]
<1>1. x \in [free : Seq(Int), fresh : Nat, lock : 0 .. 2] /\ q \in Seq(Int) /\ q # <<>>
  BY DEF Blocks
<1>2. /\ b = q[1] /\ t \in Seq(Int) /\ Len(t) = n /\ Len(q) \in Nat \ {0}
      /\ \A i \in 1 .. n : t[i] = q[i + 1]
  BY <1>1, TailIs
<1>3. DOMAIN q = 1 .. Len(q) /\ DOMAIN t = 1 .. n
  BY <1>1, <1>2, SeqIs
<1>4. n \in Nat /\ DOMAIN q = 1 .. n + 1
  BY <1>2, <1>3
<1>5. IsInjective(q) /\ ToSet(q) \cap held = {} /\ ToSet(q) \cup held = 1 .. x.fresh
  BY DEF Blocks
<1>6. /\ y \in [free : Seq(Int), fresh : Nat, lock : 0 .. 2] /\ y.free = t /\ y.fresh = x.fresh
  <2>1. y = [free |-> t, fresh |-> x.fresh, lock |-> 0]
    BY <1>1, PoolRecord
  <2> HIDE DEF t, y
  <2>2. QED
    BY <1>1, <1>2, <2>1
<1> HIDE DEF q, n, t, b, y
<1>7. ToSet(q) = ToSet(t) \cup {b}
  <2>1. \A i \in 1 .. n + 1 : i = 1 \/ (i - 1 \in 1 .. n /\ i - 1 + 1 = i)
    BY <1>4
  <2>2. \A i \in 1 .. n + 1 : q[i] = b \/ (i - 1 \in 1 .. n /\ q[i] = t[i - 1])
    BY <1>2, <2>1
  <2>3. \A i \in 1 .. n : i + 1 \in 1 .. n + 1
    BY <1>4
  <2>4. \A i \in 1 .. n : t[i] \in ToSet(q)
    BY <1>2, <1>4, <2>3 DEF ToSet
  <2>5. b \in ToSet(q)
    BY <1>2, <1>4 DEF ToSet
  <2>6. \A i \in 1 .. n + 1 : q[i] \in ToSet(t) \cup {b}
    <3>1. \A i \in 1 .. n : t[i] \in ToSet(t)
      BY <1>3 DEF ToSet
    <3>2. QED
      BY <2>2, <3>1
  <2>7. QED
    BY <1>3, <1>4, <2>4, <2>5, <2>6 DEF ToSet
<1>8. b \notin ToSet(t)
  <2>1. \A i \in 1 .. n : i + 1 \in 1 .. n + 1 /\ 1 \in 1 .. n + 1 /\ i + 1 # 1
    BY <1>4
  <2>2. \A i \in 1 .. n : t[i] # b
    BY <1>2, <1>4, <1>5, <2>1, Zenon DEF IsInjective
  <2>3. QED
    BY <1>3, <2>2 DEF ToSet
<1>9. IsInjective(t)
  <2>1. ASSUME NEW i \in 1 .. n, NEW j \in 1 .. n, t[i] = t[j]
        PROVE  i = j
    <3>1. i + 1 \in 1 .. n + 1 /\ j + 1 \in 1 .. n + 1
      BY <1>4
    <3>2. i + 1 = j + 1
      BY <1>2, <1>4, <1>5, <2>1, <3>1, Zenon DEF IsInjective
    <3>3. QED
      BY <1>4, <3>2
  <2>2. QED
    BY <1>3, <2>1 DEF IsInjective
<1>10. ToSet(t) \cap (held \cup {b}) = {} /\ ToSet(t) \cup (held \cup {b}) = 1 .. x.fresh
  BY <1>5, <1>7, <1>8
<1>11. Blocks(y, held \cup {b})
  BY <1>6, <1>9, <1>10 DEF Blocks
<1>12. QED
  BY <1>5, <1>7, <1>11 DEF y, b, q

LEMMA PoolGivenBack ==
  ASSUME NEW x, NEW held, Blocks(x, held), NEW b \in held
  PROVE  Blocks([PoolFree(x, b) EXCEPT !.lock = 0], held \ {b})
<1> DEFINE q == x.free
           n == Len(q)
           t == <<b>> \o q
           y == [PoolFree(x, b) EXCEPT !.lock = 0]
<1>1. x \in [free : Seq(Int), fresh : Nat, lock : 0 .. 2] /\ q \in Seq(Int)
  BY DEF Blocks
<1>2. IsInjective(q) /\ ToSet(q) \cap held = {} /\ ToSet(q) \cup held = 1 .. x.fresh
  BY DEF Blocks
<1>3. b \in Int /\ b \notin ToSet(q)
  BY <1>1, <1>2
<1>4. /\ t \in Seq(Int) /\ Len(t) = n + 1 /\ t[1] = b
      /\ \A i \in 1 .. n : t[i + 1] = q[i]
  BY <1>1, <1>3, ConsIs
<1>5. n \in Nat /\ DOMAIN q = 1 .. n /\ DOMAIN t = 1 .. n + 1
  BY <1>1, <1>4, SeqIs
<1>6. y \in [free : Seq(Int), fresh : Nat, lock : 0 .. 2] /\ y.free = t /\ y.fresh = x.fresh
  <2>1. y = [[x EXCEPT !.free = t] EXCEPT !.lock = 0]
    BY DEF PoolFree
  <2>2. y = [free |-> t, fresh |-> x.fresh, lock |-> 0]
    <3> HIDE DEF t, y
    <3>1. QED
      BY <1>1, <2>1, PoolRecord
  <2> HIDE DEF t, y
  <2>3. QED
    BY <1>1, <1>4, <2>2
<1> HIDE DEF q, n, t, y
<1>7. \A i \in 1 .. n + 1 : i = 1 \/ (i - 1 \in 1 .. n /\ i - 1 + 1 = i)
  BY <1>5
<1>8. \A i \in 1 .. n + 1 : i # 1 => t[i] = q[i - 1] /\ t[i] \in ToSet(q)
  BY <1>4, <1>5, <1>7 DEF ToSet
<1>9. ToSet(t) = ToSet(q) \cup {b}
  <2>1. \A i \in 1 .. n + 1 : t[i] \in ToSet(q) \cup {b}
    BY <1>4, <1>8
  <2>2. \A i \in 1 .. n : i + 1 \in 1 .. n + 1 /\ q[i] = t[i + 1]
    BY <1>4, <1>5
  <2>3. \A i \in 1 .. n : q[i] \in ToSet(t)
    BY <1>5, <2>2 DEF ToSet
  <2>4. 1 \in 1 .. n + 1
    BY <1>5
  <2>5. b \in ToSet(t)
    BY <1>4, <1>5, <2>4 DEF ToSet
  <2>6. QED
    BY <1>5, <2>1, <2>3, <2>5 DEF ToSet
<1>10. IsInjective(t)
  <2>1. ASSUME NEW i \in 1 .. n + 1, NEW j \in 1 .. n + 1, t[i] = t[j]
        PROVE  i = j
    <3>1. CASE i = 1 \/ j = 1
      BY <1>3, <1>4, <1>8, <2>1, <3>1
    <3>2. CASE i # 1 /\ j # 1
      <4>1. i - 1 \in 1 .. n /\ j - 1 \in 1 .. n /\ q[i - 1] = q[j - 1]
        BY <1>7, <1>8, <2>1, <3>2
      <4>2. i - 1 = j - 1
        BY <1>2, <1>5, <4>1 DEF IsInjective
      <4>3. QED
        BY <1>5, <4>2
    <3>3. QED
      BY <3>1, <3>2
  <2>2. QED
    BY <1>5, <2>1 DEF IsInjective
<1>11. ToSet(t) \cap (held \ {b}) = {} /\ ToSet(t) \cup (held \ {b}) = 1 .. x.fresh
  BY <1>2, <1>3, <1>9
<1>12. Blocks(y, held \ {b})
  BY <1>6, <1>10, <1>11 DEF Blocks
<1>13. QED
  BY <1>12 DEF y

LEMMA MemoryPoolStep ==
  ASSUME MemoryPoolInv, PoolCall
  PROVE  MemoryPoolInv' /\ AnswersAgree'
<1> DEFINE y == IF s.free = <<>> THEN ExpandTheFreeList(s) ELSE s
           got == PoolAlloc(s)
<1>1. Blocks(s, m)
  BY DEF MemoryPoolInv
<1>2. Blocks(y, m) /\ y.free # <<>>
  BY <1>1, PoolExpanded
<1>3. got = <<[y EXCEPT !.free = Tail(@)], Head(y.free)>>
  BY DEF PoolAlloc
<1> HIDE DEF y, got
<1>4. CASE \E t \in {1, 2} : s.lock = 0 /\ Call([s EXCEPT !.lock = t], m, Void, Void)
  <2>1. PICK t \in {1, 2} : s' = [s EXCEPT !.lock = t] /\ m' = m /\ AnswersAgree'
    BY <1>4 DEF Call, AnswersAgree
  <2>2. /\ s' \in [free : Seq(Int), fresh : Nat, lock : 0 .. 2]
        /\ s'.free = s.free /\ s'.fresh = s.fresh
    BY <1>1, <2>1 DEF Blocks
  <2>3. Blocks(s', m)
    BY <1>1, <2>2 DEF Blocks
  <2>4. QED
    BY <2>1, <2>3 DEF MemoryPoolInv, Blocks
<1>5. CASE Call([got[1] EXCEPT !.lock = 0], m \cup {got[2]}, got[2] \in m, FALSE)
  <2>1. /\ s' = [[y EXCEPT !.free = Tail(@)] EXCEPT !.lock = 0] /\ m' = m \cup {Head(y.free)}
        /\ ans' = <<Head(y.free) \in m, FALSE>>
    BY <1>3, <1>5 DEF Call
  <2>2. Head(y.free) \notin m /\ Blocks(s', m \cup {Head(y.free)})
    BY <1>2, <2>1, PoolTaken
  <2>3. ans'[1] = ans'[2]
    <3>1. (Head(y.free) \in m) = FALSE
      BY <2>2
    <3>2. ans' = <<FALSE, FALSE>>
      BY <2>1, <3>1
    <3>3. QED
      BY <3>2
  <2>4. QED
    BY <2>1, <2>2, <2>3 DEF Blocks, MemoryPoolInv, AnswersAgree
<1>6. CASE \E b \in m : Call([PoolFree(s, b) EXCEPT !.lock = 0], m \ {b}, Void, Void)
  <2>1. PICK b \in m : /\ s' = [PoolFree(s, b) EXCEPT !.lock = 0] /\ m' = m \ {b}
                       /\ ans' = <<Void, Void>>
    BY <1>6 DEF Call
  <2>2. Blocks(s', m \ {b})
    BY <1>1, <2>1, PoolGivenBack
  <2>3. QED
    BY <2>1, <2>2 DEF Blocks, MemoryPoolInv, AnswersAgree
<1>7. QED
  BY <1>4, <1>5, <1>6 DEF PoolCall, got

-----------------------------------------------------------------------------
(* The pool of bytes.                                                      *)

Chunk == [id : Int, used : Int]
Block == [chunk : Int, at : Int, len : Int]

\* While blocks are given back in the opposite order: the blocks lie end to end, those
\* in the head chunk up to the bytes used, each within its chunk; newer blocks lie in
\* newer chunks, and behind the older ones of their chunk.
Stacked(id, used, q) ==
  /\ used \in 0 .. ChunkSize
  /\ q # <<>> /\ q[1].chunk = id => used = q[1].at + q[1].len
  /\ \A i \in 1 .. Len(q) :
       /\ q[i].len > 0 /\ q[i].at >= 0 /\ q[i].at + q[i].len <= ChunkSize
       /\ i + 1 \in 1 .. Len(q) /\ q[i + 1].chunk = q[i].chunk =>
            q[i].at = q[i + 1].at + q[i + 1].len
  /\ \A i, j \in 1 .. Len(q) :
       i < j => /\ q[j].chunk <= q[i].chunk
                /\ q[j].chunk = q[i].chunk => q[j].at + q[j].len <= q[i].at

BytePoolInv ==
  /\ m \in Seq(Block)
  /\ s \in [chunks : Seq(Chunk), orderly : BOOLEAN]
  /\ s.chunks # <<>> /\ s.chunks[1].id = Len(s.chunks)
  /\ \A i \in 1 .. Len(m) : m[i].chunk <= Len(s.chunks)
  /\ s.orderly => Stacked(s.chunks[1].id, s.chunks[1].used, m)

LEMMA ChunkIs ==
  ASSUME NEW c \in Chunk
  PROVE  c.id \in Int /\ c.used \in Int
BY DEF Chunk

LEMMA BlockIs ==
  ASSUME NEW b \in Block
  PROVE  b.chunk \in Int /\ b.at \in Int /\ b.len \in Int
BY DEF Block

LEMMA SizeTIs ==
  ASSUME NEW a \in Int
  PROVE  a % SizeT \in Int /\ (a \in 0 .. ChunkSize => a % SizeT = a)
BY PoolsAssumption

LEMMA HeadUsed ==
  ASSUME NEW x \in [chunks : Seq(Chunk), orderly : BOOLEAN], x.chunks # <<>>, NEW u \in Int
  PROVE  \E c \in Seq(Chunk) :
           /\ [x EXCEPT !.chunks[1].used = u] = [chunks |-> c, orderly |-> x.orderly]
           /\ Len(c) = Len(x.chunks) /\ c # <<>>
           /\ c[1] = [id |-> x.chunks[1].id, used |-> u]
<1> DEFINE q == x.chunks
           h == [q[1] EXCEPT !.used = u]
           c == [q EXCEPT ![1] = h]
<1>1. q \in Seq(Chunk) /\ Len(q) \in Nat \ {0} /\ q[1] \in Chunk /\ 1 \in 1 .. Len(q)
  BY TailIs
<1>2. h = [id |-> q[1].id, used |-> u] /\ h \in Chunk
  BY <1>1 DEF Chunk
<1> HIDE DEF h
<1>3. c \in Seq(Chunk) /\ Len(c) = Len(q) /\ c[1] = h
  <2> HIDE DEF q
  <2>1. QED
    BY <1>1, <1>2, ExceptSeq
<1>4. c # <<>>
  BY <1>1, <1>3
<1>5. [x EXCEPT !.chunks[1].used = u] = [chunks |-> c, orderly |-> x.orderly]
  <2>1. [x EXCEPT !.chunks[1].used = u] = [x EXCEPT !.chunks = c]
    BY DEF h
  <2> HIDE DEF c
  <2>2. QED
    BY <2>1
<1>6. QED
  BY <1>2, <1>3, <1>4, <1>5

\* A block at the end of the bytes used of the head chunk, or of a fresh one.
LEMMA StackedMore ==
  ASSUME NEW id \in Int, NEW used \in Int, NEW n \in 1 .. ChunkSize, NEW q \in Seq(Block),
         Stacked(id, used, q), used + n <= ChunkSize, \A i \in 1 .. Len(q) : q[i].chunk <= id
  PROVE  Stacked(id, used + n, <<[chunk |-> id, at |-> used, len |-> n]>> \o q)
<1> DEFINE b == [chunk |-> id, at |-> used, len |-> n]
           l == Len(q)
           t == <<b>> \o q
<1>1. n \in Int /\ n > 0 /\ ChunkSize \in Nat
  BY PoolsAssumption
<1>2. b \in Block /\ b.chunk = id /\ b.at = used /\ b.len = n
  BY <1>1 DEF Block
<1>3. l \in Nat /\ \A i \in 1 .. l : q[i] \in Block
  BY SeqIs
<1>4. t \in Seq(Block) /\ t # <<>> /\ Len(t) = l + 1 /\ t[1] = b /\ \A i \in 1 .. l : t[i + 1] = q[i]
  BY <1>2, ConsIs
<1>5. /\ used \in 0 .. ChunkSize
      /\ q # <<>> /\ q[1].chunk = id => used = q[1].at + q[1].len
      /\ \A i \in 1 .. l :
           /\ q[i].len > 0 /\ q[i].at >= 0 /\ q[i].at + q[i].len <= ChunkSize
           /\ i + 1 \in 1 .. l /\ q[i + 1].chunk = q[i].chunk =>
                q[i].at = q[i + 1].at + q[i + 1].len
      /\ \A i, j \in 1 .. l :
           i < j => /\ q[j].chunk <= q[i].chunk
                    /\ q[j].chunk = q[i].chunk => q[j].at + q[j].len <= q[i].at
      /\ \A i \in 1 .. l : q[i].chunk <= id
  BY DEF Stacked
<1>6. l > 0 => q # <<>>
  BY SeqIs
<1> HIDE DEF b, l, t
<1>7. \A i \in 1 .. l + 1 : i = 1 \/ (i - 1 \in 1 .. l /\ i - 1 + 1 = i /\ t[i] = q[i - 1])
  <2>1. \A i \in 1 .. l + 1 : i = 1 \/ (i - 1 \in 1 .. l /\ i - 1 + 1 = i)
    BY <1>3
  <2>2. QED
    BY <1>4, <2>1
\* All older blocks of the head chunk end before the bytes used.
<1>8. \A i \in 1 .. l : q[i].chunk = id => q[i].at + q[i].len <= used
  <2>1. ASSUME NEW i \in 1 .. l, q[i].chunk = id
        PROVE  q[i].at + q[i].len <= used
    <3>1. 1 \in 1 .. l /\ q # <<>>
      BY <1>3, <1>6
    <3>2. q[1] \in Block /\ q[i] \in Block
      BY <1>3, <3>1
    <3>3. CASE i = 1
      BY <1>5, <2>1, <3>1, <3>2, <3>3 DEF Block
    <3>4. CASE i # 1
      <4>1. 1 < i
        BY <1>3, <3>4
      <4>2. q[i].chunk <= q[1].chunk /\ q[1].chunk <= id
        BY <1>5, <3>1, <4>1
      <4>3. q[1].chunk = id
        BY <2>1, <3>2, <4>2 DEF Block
      <4>4. q[i].at + q[i].len <= q[1].at
        BY <1>5, <2>1, <3>1, <4>1, <4>3
      <4>5. q[1].len > 0 /\ used = q[1].at + q[1].len
        BY <1>5, <3>1, <4>3
      <4> DEFINE end == q[i].at + q[i].len
                 top == q[1].at
                 size == q[1].len
      <4>6. end \in Int /\ top \in Int /\ size \in Int
        BY <3>2, BlockIs
      <4>7. end <= top /\ size > 0 /\ used = top + size
        BY <4>4, <4>5
      <4> HIDE DEF end, top, size
      <4>8. end <= used
        BY <4>6, <4>7
      <4>9. QED
        BY <4>8 DEF end
    <3>5. QED
      BY <3>3, <3>4
  <2>2. QED
    BY <2>1
<1>9. ASSUME NEW i \in 1 .. l + 1
      PROVE  /\ t[i].len > 0 /\ t[i].at >= 0 /\ t[i].at + t[i].len <= ChunkSize
             /\ i + 1 \in 1 .. l + 1 /\ t[i + 1].chunk = t[i].chunk =>
                  t[i].at = t[i + 1].at + t[i + 1].len
  <2>1. CASE i = 1
    <3>1. b.len > 0 /\ b.at >= 0 /\ b.at + b.len <= ChunkSize
      BY <1>1, <1>2, <1>5
    <3>2. ASSUME i + 1 \in 1 .. l + 1, t[i + 1].chunk = t[i].chunk
          PROVE  t[i].at = t[i + 1].at + t[i + 1].len
      <4>1. 1 \in 1 .. l /\ q # <<>>
        BY <1>3, <1>6, <2>1, <3>2
      <4>2. t[i + 1] = q[1]
        BY <1>4, <2>1, <4>1
      <4>3. QED
        BY <1>2, <1>4, <1>5, <2>1, <3>2, <4>1, <4>2
    <3>3. QED
      BY <1>4, <2>1, <3>1, <3>2
  <2>2. CASE i # 1
    <3>1. i - 1 \in 1 .. l /\ t[i] = q[i - 1]
      BY <1>7, <2>2
    <3>2. ASSUME i + 1 \in 1 .. l + 1
          PROVE  i - 1 + 1 \in 1 .. l /\ t[i + 1] = q[i - 1 + 1]
      <4>1. i - 1 + 1 = i /\ i \in 1 .. l
        BY <1>3, <3>2
      <4>2. QED
        BY <1>4, <4>1
    <3>3. QED
      BY <1>5, <3>1, <3>2
  <2>3. QED
    BY <2>1, <2>2
<1>10. ASSUME NEW i \in 1 .. l + 1, NEW j \in 1 .. l + 1, i < j
       PROVE  /\ t[j].chunk <= t[i].chunk
              /\ t[j].chunk = t[i].chunk => t[j].at + t[j].len <= t[i].at
  <2>1. j - 1 \in 1 .. l /\ t[j] = q[j - 1]
    <3>1. j # 1
      BY <1>3, <1>10
    <3>2. QED
      BY <1>7, <3>1
  <2>2. CASE i = 1
    BY <1>2, <1>4, <1>5, <1>8, <2>1, <2>2
  <2>3. CASE i # 1
    <3>1. i - 1 \in 1 .. l /\ t[i] = q[i - 1] /\ i - 1 < j - 1
      BY <1>3, <1>7, <1>10, <2>3
    <3>2. QED
      BY <1>5, <2>1, <3>1
  <2>4. QED
    BY <2>2, <2>3
<1>11. used + n \in 0 .. ChunkSize /\ (t[1].chunk = id => used + n = t[1].at + t[1].len)
  BY <1>1, <1>2, <1>4, <1>5
<1>12. Stacked(id, used + n, t)
  BY <1>4, <1>9, <1>10, <1>11 DEF Stacked
<1>13. QED
  BY <1>12 DEF t, b

\* The newest block leaves the head chunk.
LEMMA StackedLess ==
  ASSUME NEW id \in Int, NEW used \in Int, NEW q \in Seq(Block),
         Stacked(id, used, q), 1 \in 1 .. Len(q), q[1].chunk = id
  PROVE  used - q[1].len \in 0 .. ChunkSize /\ Stacked(id, used - q[1].len, RemoveAt(q, 1))
<1> DEFINE l == Len(q) - 1
           t == RemoveAt(q, 1)
           u == used - q[1].len
<1>1. Len(q) \in Nat /\ \A i \in 1 .. Len(q) : q[i] \in Block
  BY SeqIs
<1>2. l \in Nat /\ Len(q) = l + 1 /\ q # <<>> /\ \A i \in 1 .. l + 1 : q[i] \in Block
  BY <1>1, SeqIs
<1>3. t \in Seq(Block) /\ Len(t) = l /\ \A i \in 1 .. l : t[i] = IF i < 1 THEN q[i] ELSE q[i + 1]
  BY RemoveAtIs
<1>4. /\ used \in 0 .. ChunkSize
      /\ used = q[1].at + q[1].len
      /\ \A i \in 1 .. l + 1 :
           /\ q[i].len > 0 /\ q[i].at >= 0 /\ q[i].at + q[i].len <= ChunkSize
           /\ i + 1 \in 1 .. l + 1 /\ q[i + 1].chunk = q[i].chunk =>
                q[i].at = q[i + 1].at + q[i + 1].len
      /\ \A i, j \in 1 .. l + 1 :
           i < j => /\ q[j].chunk <= q[i].chunk
                    /\ q[j].chunk = q[i].chunk => q[j].at + q[j].len <= q[i].at
  BY <1>2 DEF Stacked
<1> HIDE DEF l, t, u
<1>5. \A i \in 1 .. l : t[i] = q[i + 1] /\ i + 1 \in 1 .. l + 1
  <2>1. \A i \in 1 .. l : ~(i < 1) /\ i + 1 \in 1 .. l + 1
    BY <1>2
  <2>2. QED
    BY <1>3, <2>1
<1>6. 1 \in 1 .. l + 1
  BY <1>2
<1>7. q[1] \in Block
  BY <1>2, <1>6
<1>8. u \in 0 .. ChunkSize /\ u = q[1].at
  <2>1. q[1].at \in Int /\ q[1].len \in Int /\ q[1].len > 0 /\ q[1].at >= 0
    BY <1>4, <1>6, <1>7 DEF Block
  <2>2. QED
    BY <1>4, <2>1, PoolsAssumption DEF u
<1>9. t # <<>> /\ t[1].chunk = id => u = t[1].at + t[1].len
  <2>1. ASSUME t # <<>>, t[1].chunk = id
        PROVE  u = t[1].at + t[1].len
    <3>1. l # 0
      BY <1>3, <2>1, SeqIs
    <3>2. 1 \in 1 .. l /\ 1 + 1 \in 1 .. l + 1
      BY <1>2, <3>1
    <3>3. t[1] = q[1 + 1]
      BY <1>5, <3>2
    <3>4. QED
      BY <1>4, <1>6, <1>8, <2>1, <3>2, <3>3
  <2>2. QED
    BY <2>1
<1>10. ASSUME NEW i \in 1 .. l
       PROVE  /\ t[i].len > 0 /\ t[i].at >= 0 /\ t[i].at + t[i].len <= ChunkSize
              /\ i + 1 \in 1 .. l /\ t[i + 1].chunk = t[i].chunk =>
                   t[i].at = t[i + 1].at + t[i + 1].len
  <2>1. t[i] = q[i + 1] /\ i + 1 \in 1 .. l + 1
    BY <1>5
  <2>2. i + 1 \in 1 .. l => t[i + 1] = q[i + 1 + 1] /\ i + 1 + 1 \in 1 .. l + 1
    BY <1>5
  <2>3. QED
    BY <1>4, <2>1, <2>2
<1>11. ASSUME NEW i \in 1 .. l, NEW j \in 1 .. l, i < j
       PROVE  /\ t[j].chunk <= t[i].chunk
              /\ t[j].chunk = t[i].chunk => t[j].at + t[j].len <= t[i].at
  <2>1. t[i] = q[i + 1] /\ i + 1 \in 1 .. l + 1 /\ t[j] = q[j + 1] /\ j + 1 \in 1 .. l + 1
    BY <1>5
  <2>2. i + 1 < j + 1
    BY <1>2, <1>11
  <2>3. QED
    BY <1>4, <2>1, <2>2
<1>12. Stacked(id, u, t)
  BY <1>3, <1>8, <1>9, <1>10, <1>11 DEF Stacked
<1>13. QED
  BY <1>8, <1>12 DEF u, t

\* A fresh chunk is empty, and no block lies in it.
LEMMA StackedFresh ==
  ASSUME NEW id \in Int, NEW used \in Int, NEW q \in Seq(Block), NEW new \in Int,
         Stacked(id, used, q), \A i \in 1 .. Len(q) : q[i].chunk < new
  PROVE  Stacked(new, 0, q)
<1>1. q # <<>> => q[1].chunk # new
  <2>1. ASSUME q # <<>>
        PROVE  q[1].chunk # new
    <3>1. Len(q) \in Nat \ {0}
      BY <2>1, SeqIs
    <3>2. 1 \in 1 .. Len(q)
      BY <3>1
    <3>3. q[1].chunk < new
      BY <3>2
    <3>4. QED
      BY <3>3
  <2>2. QED
    BY <2>1
<1>2. 0 \in 0 .. ChunkSize
  BY PoolsAssumption
<1>3. QED
  BY <1>1, <1>2 DEF Stacked

LEMMA BelowIsApart ==
  ASSUME NEW b \in Block, NEW c \in Block, c.chunk = b.chunk => c.at + c.len <= b.at
  PROVE  ~Overlap(b, c) /\ ~Overlap(c, b)
<1>1. b.at \in Int /\ c.at \in Int /\ c.len \in Int
  BY SMT DEF Block
<1>2. CASE c.chunk = b.chunk
  <2>1. ~(b.at < c.at + c.len)
    BY <1>1, <1>2
  <2>2. QED
    BY <2>1, Zenon DEF Overlap
<1>3. CASE c.chunk # b.chunk
  BY <1>3, Zenon DEF Overlap
<1>4. QED
  BY <1>2, <1>3

LEMMA StackedIsSound ==
  ASSUME NEW id, NEW used, NEW q \in Seq(Block), Stacked(id, used, q)
  PROVE  /\ \A i, j \in DOMAIN q : Overlap(q[i], q[j]) => i = j
         /\ \A i \in DOMAIN q : q[i].at + q[i].len <= ChunkSize
<1>1. Len(q) \in Nat /\ DOMAIN q = 1 .. Len(q) /\ \A i \in 1 .. Len(q) : q[i] \in Block
  BY SeqIs
<1>2. ASSUME NEW i \in 1 .. Len(q), NEW j \in 1 .. Len(q), i < j
      PROVE  ~Overlap(q[i], q[j]) /\ ~Overlap(q[j], q[i])
  <2>1. q[i] \in Block /\ q[j] \in Block
    BY <1>1
  <2>2. q[j].chunk = q[i].chunk => q[j].at + q[j].len <= q[i].at
    BY <1>2 DEF Stacked
  <2>3. QED
    BY <2>1, <2>2, BelowIsApart
<1>3. \A i, j \in 1 .. Len(q) : i = j \/ i < j \/ j < i
  OBVIOUS
<1>4. QED
  BY <1>1, <1>2, <1>3 DEF Stacked

LEMMA ByteAllocKeeps ==
  ASSUME BytePoolInv, NEW n \in 1 .. ChunkSize,
         s' = ByteAlloc(s, n)[1], m' = <<ByteAlloc(s, n)[2]>> \o m
  PROVE  BytePoolInv'
<1> DEFINE fresh == (ChunkSize - Head(s.chunks).used) % SizeT < n
           new == [id |-> Len(s.chunks) + 1, used |-> 0]
           y == IF fresh THEN [s EXCEPT !.chunks = <<new>> \o @] ELSE s
           c == y.chunks[1]
<1>1. /\ m \in Seq(Block)
      /\ s \in [chunks : Seq(Chunk), orderly : BOOLEAN]
      /\ s.chunks # <<>> /\ s.chunks[1].id = Len(s.chunks)
      /\ \A i \in 1 .. Len(m) : m[i].chunk <= Len(s.chunks)
      /\ s.orderly => Stacked(s.chunks[1].id, s.chunks[1].used, m)
  BY DEF BytePoolInv
<1>2. /\ s.chunks \in Seq(Chunk) /\ Len(s.chunks) \in Nat /\ Head(s.chunks) = s.chunks[1]
      /\ s.chunks[1] \in Chunk /\ s.chunks[1].used \in Int
  <2>1. s.chunks \in Seq(Chunk) /\ s.chunks # <<>>
    BY <1>1
  <2>2. QED
    BY <2>1, TailIs, ChunkIs
<1>3. new \in Chunk
  BY <1>2 DEF Chunk
<1>4. /\ <<new>> \o s.chunks \in Seq(Chunk) /\ <<new>> \o s.chunks # <<>>
      /\ Len(<<new>> \o s.chunks) = Len(s.chunks) + 1 /\ (<<new>> \o s.chunks)[1] = new
  BY <1>2, <1>3, ConsIs
<1>5. Len(m) \in Nat /\ \A i \in 1 .. Len(m) : m[i] \in Block /\ m[i].chunk \in Int
  BY <1>1, SeqIs, BlockIs
<1>6. /\ y \in [chunks : Seq(Chunk), orderly : BOOLEAN] /\ y.orderly = s.orderly
      /\ y.chunks # <<>> /\ c.id = Len(y.chunks)
      /\ Len(y.chunks) \in Nat /\ Len(s.chunks) <= Len(y.chunks)
      /\ y.orderly => Stacked(c.id, c.used, m) /\ c.used + n <= ChunkSize
  <2>1. CASE fresh
    <3> DEFINE q == <<new>> \o s.chunks
    <3> HIDE DEF q
    <3>1. y = [s EXCEPT !.chunks = q]
      BY <2>1 DEF q
    <3>2. y \in [chunks : Seq(Chunk), orderly : BOOLEAN] /\ y.orderly = s.orderly /\ y.chunks = q
      BY <1>1, <1>4, <3>1 DEF q
    <3>3. c.id = Len(s.chunks) + 1 /\ c.used = 0 /\ Len(q) = Len(s.chunks) + 1 /\ q # <<>>
      BY <1>4, <3>2 DEF q
    <3>4. ASSUME s.orderly
          PROVE  Stacked(c.id, c.used, m) /\ c.used + n <= ChunkSize
      <4>1. /\ Stacked(s.chunks[1].id, s.chunks[1].used, m) /\ m \in Seq(Block)
            /\ s.chunks[1].id \in Int /\ s.chunks[1].used \in Int /\ Len(s.chunks) + 1 \in Int
        BY <1>1, <1>2, <3>4
      <4>2. \A i \in 1 .. Len(m) : m[i].chunk < Len(s.chunks) + 1
        BY <1>1, <1>2, <1>5
      <4>3. Stacked(Len(s.chunks) + 1, 0, m)
        BY <4>1, <4>2, StackedFresh
      <4>4. QED
        BY <3>3, <4>3, PoolsAssumption
    <3>5. QED
      BY <1>2, <3>2, <3>3, <3>4
  <2>2. CASE ~fresh
    <3>1. y = s
      BY <2>2
    <3>2. ASSUME s.orderly
          PROVE  s.chunks[1].used + n <= ChunkSize
      <4>1. s.chunks[1].used \in 0 .. ChunkSize
        BY <1>1, <3>2 DEF Stacked
      <4>2. ChunkSize - s.chunks[1].used \in 0 .. ChunkSize
        BY <4>1, PoolsAssumption
      <4>3. ~(ChunkSize - s.chunks[1].used < n)
        <5> DEFINE a == ChunkSize - s.chunks[1].used
        <5>1. a \in Int
          BY <1>2, PoolsAssumption
        <5>2. a \in 0 .. ChunkSize
          BY <4>2
        <5>3. ~(a % SizeT < n)
          BY <1>2, <2>2
        <5> HIDE DEF a
        <5>4. a % SizeT = a
          BY <5>1, <5>2, SizeTIs
        <5>5. ~(a < n)
          BY <5>3, <5>4
        <5>6. QED
          BY <5>5 DEF a
      <4>4. QED
        BY <4>1, <4>3, PoolsAssumption
    <3>3. QED
      BY <1>1, <1>2, <3>1, <3>2
  <2>3. QED
    BY <2>1, <2>2
<1>7. Head(y.chunks) = c /\ c \in Chunk /\ c.used \in Int /\ c.id \in Int
  <2>1. y.chunks \in Seq(Chunk) /\ y.chunks # <<>>
    BY <1>6, Zenon
  <2> HIDE DEF y
  <2>2. Head(y.chunks) = c /\ c \in Chunk
    BY <2>1, TailIs
  <2>3. QED
    BY <2>2, ChunkIs
<1> DEFINE b == [chunk |-> c.id, at |-> c.used, len |-> n]
           u == (c.used + n) % SizeT
<1>8. s' = [y EXCEPT !.chunks[1].used = u] /\ m' = <<b>> \o m
  <2>1. ByteAlloc(s, n) = <<[y EXCEPT !.chunks[1].used = (@ + n) % SizeT],
                            [chunk |-> Head(y.chunks).id, at |-> Head(y.chunks).used, len |-> n]>>
    BY DEF ByteAlloc
  <2> HIDE DEF y
  <2>2. QED
    BY <1>7, <2>1
<1> HIDE DEF y
<1>9. c.used + n \in Int /\ u \in Int
  <2>1. c.used + n \in Int
    BY <1>7
  <2> HIDE DEF c
  <2>2. QED
    BY <2>1, SizeTIs
<1>10. PICK d \in Seq(Chunk) :
         /\ s' = [chunks |-> d, orderly |-> y.orderly]
         /\ Len(d) = Len(y.chunks) /\ d # <<>> /\ d[1] = [id |-> c.id, used |-> u]
  <2>1. y \in [chunks : Seq(Chunk), orderly : BOOLEAN] /\ y.chunks # <<>>
    BY <1>6
  <2> HIDE DEF u
  <2>2. \E d \in Seq(Chunk) :
          /\ [y EXCEPT !.chunks[1].used = u] = [chunks |-> d, orderly |-> y.orderly]
          /\ Len(d) = Len(y.chunks) /\ d # <<>>
          /\ d[1] = [id |-> y.chunks[1].id, used |-> u]
    BY <1>9, <2>1, HeadUsed
  <2>3. QED
    BY <1>8, <2>2
<1> HIDE DEF c
<1>11. b \in Block
  BY <1>7 DEF Block
<1>12. /\ m' \in Seq(Block) /\ Len(m') = Len(m) + 1 /\ m'[1] = b
       /\ \A i \in 1 .. Len(m) : m'[i + 1] = m[i]
  BY <1>1, <1>8, <1>11, ConsIs
<1>13. \A i \in 1 .. Len(m) : m[i].chunk <= c.id
  BY <1>1, <1>2, <1>5, <1>6
<1>14. ASSUME NEW i \in 1 .. Len(m')
       PROVE  m'[i].chunk <= Len(d)
  <2>1. i = 1 \/ (i - 1 \in 1 .. Len(m) /\ i - 1 + 1 = i)
    BY <1>5, <1>12
  <2>2. CASE i = 1
    BY <1>6, <1>7, <1>10, <1>12, <2>2
  <2>3. CASE i # 1
    <3>1. m'[i] = m[i - 1] /\ i - 1 \in 1 .. Len(m)
      BY <1>12, <2>1, <2>3
    <3>2. QED
      BY <1>6, <1>10, <1>13, <3>1
  <2>4. QED
    BY <2>2, <2>3
<1>15. ASSUME y.orderly
       PROVE  Stacked(c.id, u, m')
  <2>1. Stacked(c.id, c.used, m) /\ c.used + n <= ChunkSize
    BY <1>6, <1>15
  <2>2. c.used + n \in 0 .. ChunkSize
    BY <1>7, <2>1 DEF Stacked
  <2>3. u = c.used + n
    BY <1>9, <2>2, SizeTIs
  <2>4. Stacked(c.id, c.used + n, <<b>> \o m)
    BY <1>1, <1>7, <1>13, <2>1, StackedMore
  <2>5. QED
    BY <1>8, <2>3, <2>4
<1>16. /\ s' \in [chunks : Seq(Chunk), orderly : BOOLEAN] /\ s'.chunks = d /\ s'.orderly = y.orderly
       /\ d[1].id = c.id /\ d[1].used = u
  BY <1>6, <1>10
<1>17. QED
  BY <1>6, <1>10, <1>12, <1>14, <1>15, <1>16 DEF BytePoolInv

LEMMA ByteFreeKeeps ==
  ASSUME BytePoolInv, NEW j \in 1 .. Len(m),
         s' = [ByteFree(s, m[j].len) EXCEPT
                 !.orderly = @ /\ j = 1 /\ m[1].chunk = Head(s.chunks).id],
         m' = RemoveAt(m, j)
  PROVE  BytePoolInv'
<1> DEFINE h == s.chunks[1]
           u == (h.used - m[j].len) % SizeT
           l == Len(m)
<1>1. /\ m \in Seq(Block)
      /\ s \in [chunks : Seq(Chunk), orderly : BOOLEAN]
      /\ s.chunks # <<>> /\ h.id = Len(s.chunks)
      /\ \A i \in 1 .. l : m[i].chunk <= Len(s.chunks)
      /\ s.orderly => Stacked(h.id, h.used, m)
  BY DEF BytePoolInv
<1>2. /\ s.chunks \in Seq(Chunk) /\ Len(s.chunks) \in Nat /\ Head(s.chunks) = h
      /\ h \in Chunk /\ h.used \in Int /\ h.id \in Int
  <2>1. s.chunks \in Seq(Chunk) /\ s.chunks # <<>>
    BY <1>1
  <2>2. QED
    BY <2>1, TailIs, ChunkIs
<1>3. l \in Nat /\ m[j] \in Block /\ m[j].len \in Int
  BY <1>1, SeqIs, BlockIs
<1>4. u \in Int
  <2>1. h.used - m[j].len \in Int
    BY <1>2, <1>3
  <2>2. QED
    BY <2>1, SizeTIs
<1>5. PICK d \in Seq(Chunk) :
         /\ [s EXCEPT !.chunks[1].used = u] = [chunks |-> d, orderly |-> s.orderly]
         /\ Len(d) = Len(s.chunks) /\ d # <<>> /\ d[1] = [id |-> h.id, used |-> u]
  BY <1>1, <1>4, HeadUsed
<1>6. ByteFree(s, m[j].len) = [chunks |-> d, orderly |-> s.orderly]
  BY <1>5 DEF ByteFree
<1>7. s' = [chunks |-> d, orderly |-> s.orderly /\ j = 1 /\ m[1].chunk = h.id]
  BY <1>2, <1>6
<1> HIDE DEF h, u
<1>8. /\ s' \in [chunks : Seq(Chunk), orderly : BOOLEAN] /\ s'.chunks = d
      /\ s'.orderly => s.orderly /\ j = 1 /\ m[1].chunk = h.id
      /\ d[1].id = h.id /\ d[1].used = u
  <2> DEFINE o == s.orderly /\ j = 1 /\ m[1].chunk = h.id
  <2>1. o \in BOOLEAN /\ s' = [chunks |-> d, orderly |-> o]
    BY <1>7
  <2>2. o => s.orderly /\ j = 1 /\ m[1].chunk = h.id
    OBVIOUS
  <2> HIDE DEF o
  <2>3. s' \in [chunks : Seq(Chunk), orderly : BOOLEAN] /\ s'.chunks = d /\ s'.orderly = o
    BY <2>1
  <2>4. QED
    BY <1>5, <2>2, <2>3
<1>9. /\ m' \in Seq(Block) /\ Len(m') = l - 1
      /\ \A i \in 1 .. l - 1 : m'[i] = IF i < j THEN m[i] ELSE m[i + 1]
  BY <1>1, RemoveAtIs
<1> HIDE DEF l
<1>10. \A i \in 1 .. Len(m') : m'[i].chunk <= Len(d)
  <2>1. \A i \in 1 .. l - 1 : i \in 1 .. l /\ i + 1 \in 1 .. l
    BY <1>3
  <2>2. \A i \in 1 .. l - 1 : m[i].chunk <= Len(d) /\ m[i + 1].chunk <= Len(d)
    BY <1>1, <1>5, <2>1
  <2>3. QED
    BY <1>9, <2>2
<1>11. ASSUME s'.orderly
       PROVE  Stacked(h.id, u, m')
  <2>1. Stacked(h.id, h.used, m) /\ j = 1 /\ m[1].chunk = h.id
    BY <1>1, <1>8, <1>11
  <2>2. /\ h.used - m[1].len \in 0 .. ChunkSize
        /\ Stacked(h.id, h.used - m[1].len, RemoveAt(m, 1))
    BY <1>1, <1>2, <2>1, StackedLess
  <2>3. u = h.used - m[1].len
    BY <2>1, <2>2, SizeTIs DEF u
  <2>4. QED
    BY <2>1, <2>2, <2>3
<1>12. QED
  BY <1>1, <1>5, <1>8, <1>9, <1>10, <1>11 DEF BytePoolInv

LEMMA BytePoolStep ==
  ASSUME BytePoolInv, ByteCall
  PROVE  BytePoolInv' /\ AnswersAgree'
<1>1. DOMAIN m = 1 .. Len(m)
  BY SeqIs DEF BytePoolInv
<1>2. CASE \E n \in 1 .. ChunkSize : Call(ByteAlloc(s, n)[1], <<ByteAlloc(s, n)[2]>> \o m, Void, Void)
  BY <1>2, ByteAllocKeeps DEF Call, AnswersAgree
<1>3. CASE \E j \in DOMAIN m :
             Call([ByteFree(s, m[j].len) EXCEPT
                     !.orderly = @ /\ j = 1 /\ m[1].chunk = Head(s.chunks).id],
                  RemoveAt(m, j), Void, Void)
  BY <1>1, <1>3, ByteFreeKeeps DEF Call, AnswersAgree
<1>4. QED
  BY <1>2, <1>3 DEF ByteCall

-----------------------------------------------------------------------------
(* The caches: what the object does.                                       *)

\* The keys present were last used at different calls, of the first n.
Timed(mm, n) ==
  /\ DOMAIN mm \subseteq Key /\ IsFiniteSet(DOMAIN mm)
  /\ \A k \in DOMAIN mm : mm[k].used \in 1 .. n /\ mm[k].val \in Val \ {-1}
  /\ \A j, k \in DOMAIN mm : mm[j].used = mm[k].used => j = k

\* u is mm after call n put v under k.
UsedNow(u, mm, k, v, n) ==
  /\ DOMAIN u = DOMAIN mm \cup {k}
  /\ u[k].used = n /\ u[k].val = v
  /\ \A j \in DOMAIN mm \ {k} : u[j] = mm[j]
  /\ \A j \in DOMAIN mm \ {k} : u[j].used < u[k].used
  /\ Timed(u, n)

LEMMA UseIs ==
  ASSUME NEW mm, ops \in Nat, Timed(mm, ops), NEW k \in Key, NEW v \in Val \ {-1}
  PROVE  UsedNow(Use(mm, k, v), mm, k, v, ops + 1)
<1> DEFINE u == Use(mm, k, v)
<1>1. /\ DOMAIN u = DOMAIN mm \cup {k} /\ u[k] = [used |-> ops + 1, val |-> v]
      /\ \A j \in DOMAIN mm \ {k} : u[j] = mm[j]
  BY DEF Use
<1>2. \A j \in DOMAIN mm : mm[j].used \in 1 .. ops /\ mm[j].val \in Val \ {-1}
  BY DEF Timed
<1> HIDE DEF u
<1>3. u[k].used = ops + 1 /\ u[k].val = v
  BY <1>1
<1>4. \A j \in DOMAIN mm \ {k} : u[j].used \in 1 .. ops /\ u[j].used < u[k].used
  BY <1>1, <1>2, <1>3
<1>5. IsFiniteSet(DOMAIN u) /\ DOMAIN u \subseteq Key
  BY <1>1, FS_AddElement DEF Timed
<1>6. ASSUME NEW j \in DOMAIN u
      PROVE  u[j].used \in 1 .. ops + 1 /\ u[j].val \in Val \ {-1}
  <2>1. CASE j = k
    BY <1>3, <2>1
  <2>2. CASE j # k
    <3>1. j \in DOMAIN mm \ {k} /\ u[j] = mm[j]
      BY <1>1, <2>2
    <3>2. QED
      BY <1>2, <3>1
  <2>3. QED
    BY <2>1, <2>2
<1>7. ASSUME NEW i \in DOMAIN u, NEW j \in DOMAIN u, u[i].used = u[j].used
      PROVE  i = j
  <2>1. CASE i = k \/ j = k
    BY <1>1, <1>3, <1>4, <1>7, <2>1
  <2>2. CASE i # k /\ j # k
    BY <1>1, <1>7, <2>2 DEF Timed
  <2>3. QED
    BY <2>1, <2>2
<1>8. Timed(u, ops + 1)
  BY <1>5, <1>6, <1>7 DEF Timed
<1>9. QED
  BY <1>1, <1>3, <1>4, <1>8 DEF u, UsedNow

LEMMA OldestIs ==
  ASSUME NEW mm, NEW n \in Nat, Timed(mm, n), NEW k \in DOMAIN mm,
         \A j \in DOMAIN mm : mm[k].used <= mm[j].used
  PROVE  Oldest(mm) = k
<1>1. \A i \in DOMAIN mm : mm[i].used \in Int
  BY DEF Timed
<1>2. \A i \in DOMAIN mm : (\A j \in DOMAIN mm : mm[i].used <= mm[j].used) => i = k
  BY <1>1 DEF Timed
<1>3. QED
  BY <1>2 DEF Oldest

LEMMA WithoutKeyIs ==
  ASSUME NEW mm, NEW n, Timed(mm, n), NEW k
  PROVE  /\ DOMAIN WithoutKey(mm, k) = DOMAIN mm \ {k}
         /\ \A j \in DOMAIN mm \ {k} : WithoutKey(mm, k)[j] = mm[j]
         /\ Timed(WithoutKey(mm, k), n)
<1> DEFINE w == WithoutKey(mm, k)
<1>1. DOMAIN w = DOMAIN mm \ {k} /\ \A j \in DOMAIN mm \ {k} : w[j] = mm[j]
  BY DEF WithoutKey
<1> HIDE DEF w
<1>2. IsFiniteSet(DOMAIN w)
  BY <1>1, FS_Subset DEF Timed
<1>3. Timed(w, n)
  BY <1>1, <1>2 DEF Timed
<1>4. QED
  BY <1>1, <1>3 DEF w

LEMMA TimedLater ==
  ASSUME NEW mm, ops \in Nat, Timed(mm, ops)
  PROVE  Timed(mm, ops + 1)
<1>1. \A k \in DOMAIN mm : mm[k].used \in 1 .. ops + 1
  BY DEF Timed
<1>2. QED
  BY <1>1 DEF Timed

-----------------------------------------------------------------------------
(* LRUCache-1: the list of keys.                                           *)

\* The keys present, the last one used first.
Listed(keys, mm) ==
  /\ keys \in Seq(Key) /\ ToSet(keys) = DOMAIN mm
  /\ \A i, j \in DOMAIN keys : i < j => mm[keys[j]].used < mm[keys[i]].used

Lru1Inv ==
  /\ ops \in Nat
  /\ Timed(m, ops) /\ Cardinality(DOMAIN m) <= Capacity
  /\ s \in [keys : Seq(Key), map : [DOMAIN m -> Val]]
  /\ Listed(s.keys, m)
  /\ \A k \in DOMAIN m : s.map[k] = m[k].val

LEMMA ListedIs ==
  ASSUME NEW keys, NEW mm, NEW n, Timed(mm, n), Listed(keys, mm)
  PROVE  /\ keys \in Seq(Key) /\ Len(keys) \in Nat /\ DOMAIN keys = 1 .. Len(keys)
         /\ \A i \in 1 .. Len(keys) : keys[i] \in DOMAIN mm /\ mm[keys[i]].used \in Int
         /\ \A k \in DOMAIN mm : \E i \in 1 .. Len(keys) : keys[i] = k
         /\ \A i, j \in 1 .. Len(keys) : i < j => mm[keys[j]].used < mm[keys[i]].used
         /\ IsInjective(keys) /\ Cardinality(DOMAIN mm) = Len(keys)
<1>1. keys \in Seq(Key) /\ Len(keys) \in Nat /\ DOMAIN keys = 1 .. Len(keys)
  BY SeqIs DEF Listed
<1>2. ToSet(keys) = DOMAIN mm /\ ToSet(keys) = {keys[i] : i \in 1 .. Len(keys)}
  BY <1>1, SeqIs DEF Listed
<1>3. /\ \A i \in 1 .. Len(keys) : keys[i] \in DOMAIN mm /\ mm[keys[i]].used \in Int
      /\ \A k \in DOMAIN mm : \E i \in 1 .. Len(keys) : keys[i] = k
  BY <1>2 DEF Timed
<1>4. \A i, j \in 1 .. Len(keys) : i < j => mm[keys[j]].used < mm[keys[i]].used
  BY <1>1 DEF Listed
<1>5. IsInjective(keys)
  <2>1. ASSUME NEW i \in 1 .. Len(keys), NEW j \in 1 .. Len(keys), keys[i] = keys[j]
        PROVE  i = j
    <3>1. ~(i < j) /\ ~(j < i)
      BY <1>3, <1>4, <2>1
    <3>2. QED
      BY <3>1
  <2>2. QED
    BY <1>1, <2>1 DEF IsInjective
<1>6. QED
  BY <1>1, <1>2, <1>3, <1>4, <1>5, LenOfInjective

\* A key in front of the first p of the keys other than it.
LEMMA ListedMore ==
  ASSUME NEW keys \in Seq(Key), NEW mm, NEW k \in DOMAIN mm, DOMAIN mm \subseteq Key,
         ToSet(keys) = DOMAIN mm \ {k},
         \A i, j \in DOMAIN keys : i < j => mm[keys[j]].used < mm[keys[i]].used,
         \A j \in DOMAIN mm \ {k} : mm[j].used < mm[k].used
  PROVE  Listed(<<k>> \o keys, mm)
<1> DEFINE l == Len(keys)
           t == <<k>> \o keys
<1>1. l \in Nat /\ DOMAIN keys = 1 .. l /\ ToSet(keys) = {keys[i] : i \in 1 .. l}
  BY SeqIs
<1>2. /\ t \in Seq(Key) /\ Len(t) = l + 1 /\ t[1] = k /\ \A i \in 1 .. l : t[i + 1] = keys[i]
  BY ConsIs
<1> HIDE DEF l, t
<1>3. DOMAIN t = 1 .. l + 1 /\ ToSet(t) = {t[i] : i \in 1 .. l + 1}
  <2>1. DOMAIN t = 1 .. Len(t) /\ ToSet(t) = {t[i] : i \in 1 .. Len(t)}
    BY <1>2, SeqIs
  <2>2. QED
    BY <1>2, <2>1
<1>4. \A i \in 1 .. l + 1 : i = 1 \/ (i - 1 \in 1 .. l /\ i - 1 + 1 = i /\ t[i] = keys[i - 1])
  <2>1. \A i \in 1 .. l + 1 : i = 1 \/ (i - 1 \in 1 .. l /\ i - 1 + 1 = i)
    BY <1>1
  <2>2. QED
    BY <1>2, <2>1
<1>5. \A i \in 1 .. l : keys[i] \in DOMAIN mm \ {k}
  BY <1>1
<1>6. ToSet(t) = DOMAIN mm
  <2>1. \A i \in 1 .. l + 1 : t[i] \in DOMAIN mm
    BY <1>2, <1>4, <1>5
  <2>2. ASSUME NEW j \in DOMAIN mm
        PROVE  j \in ToSet(t)
    <3>1. CASE j = k
      <4>1. 1 \in 1 .. l + 1
        BY <1>1
      <4>2. QED
        BY <1>2, <1>3, <3>1, <4>1
    <3>2. CASE j # k
      <4>1. PICK i \in 1 .. l : keys[i] = j
        BY <1>1, <3>2
      <4>2. i + 1 \in 1 .. l + 1 /\ t[i + 1] = j
        BY <1>1, <1>2, <4>1
      <4>3. QED
        BY <1>3, <4>2
    <3>3. QED
      BY <3>1, <3>2
  <2>3. QED
    BY <1>3, <2>1, <2>2
<1>7. ASSUME NEW i \in 1 .. l + 1, NEW j \in 1 .. l + 1, i < j
      PROVE  mm[t[j]].used < mm[t[i]].used
  <2>1. j - 1 \in 1 .. l /\ t[j] = keys[j - 1]
    <3>1. j # 1
      BY <1>1, <1>7
    <3>2. QED
      BY <1>4, <3>1
  <2>2. CASE i = 1
    BY <1>2, <1>5, <2>1, <2>2
  <2>3. CASE i # 1
    <3>1. i - 1 \in 1 .. l /\ t[i] = keys[i - 1] /\ i - 1 < j - 1
      BY <1>1, <1>4, <1>7, <2>3
    <3>2. QED
      BY <1>1, <2>1, <3>1
  <2>4. QED
    BY <2>2, <2>3
<1>8. Listed(t, mm)
  BY <1>2, <1>3, <1>6, <1>7 DEF Listed
<1>9. QED
  BY <1>8 DEF t

\* Using a key that is present brings it to the front.
LEMMA ListedUsed ==
  ASSUME NEW keys, NEW mm, ops \in Nat, Timed(mm, ops), Listed(keys, mm),
         NEW k \in DOMAIN mm, NEW v \in Val \ {-1}
  PROVE  Listed(<<k>> \o RemoveAt(keys, CHOOSE j \in DOMAIN keys : keys[j] = k), Use(mm, k, v))
<1> DEFINE p == CHOOSE j \in DOMAIN keys : keys[j] = k
           t == RemoveAt(keys, p)
           u == Use(mm, k, v)
           l == Len(keys)
<1>1. /\ keys \in Seq(Key) /\ l \in Nat /\ DOMAIN keys = 1 .. l
      /\ \A i \in 1 .. l : keys[i] \in DOMAIN mm
      /\ \A j \in DOMAIN mm : \E i \in 1 .. l : keys[i] = j
      /\ \A i, j \in 1 .. l : i < j => mm[keys[j]].used < mm[keys[i]].used
      /\ IsInjective(keys)
  BY ListedIs
<1>2. p \in 1 .. l /\ keys[p] = k
  <2>1. \E j \in DOMAIN keys : keys[j] = k
    BY <1>1
  <2>2. p \in DOMAIN keys /\ keys[p] = k
    BY <2>1
  <2>3. QED
    BY <1>1, <2>2
<1> HIDE DEF p
<1>3. /\ t \in Seq(Key) /\ Len(t) = l - 1
      /\ \A i \in 1 .. l - 1 : t[i] = IF i < p THEN keys[i] ELSE keys[i + 1]
  <2> HIDE DEF t
  <2>1. /\ RemoveAt(keys, p) \in Seq(Key) /\ Len(RemoveAt(keys, p)) = Len(keys) - 1
        /\ \A i \in 1 .. Len(keys) - 1 :
             RemoveAt(keys, p)[i] = IF i < p THEN keys[i] ELSE keys[i + 1]
    <3>1. p \in 1 .. Len(keys) /\ keys \in Seq(Key)
      BY <1>1, <1>2
    <3>2. QED
      BY <3>1, RemoveAtIs
  <2>2. QED
    BY <2>1 DEF t
<1>4. DOMAIN t = 1 .. l - 1 /\ ToSet(t) = {t[i] : i \in 1 .. l - 1}
  BY <1>3, SeqIs
<1>5. /\ k \in Key
      /\ DOMAIN u = DOMAIN mm \cup {k} /\ \A j \in DOMAIN mm \ {k} : u[j] = mm[j]
      /\ \A j \in DOMAIN mm \ {k} : u[j].used < u[k].used
      /\ DOMAIN mm \subseteq Key
  <2>1. k \in Key /\ DOMAIN mm \subseteq Key
    BY DEF Timed
  <2>2. UsedNow(u, mm, k, v, ops + 1)
    BY <2>1, UseIs
  <2>3. QED
    BY <2>1, <2>2 DEF UsedNow
<1> HIDE DEF t, u, l
\* Where the elements that stay are.
<1>6. \A i \in 1 .. l - 1 :
        /\ i \in Int /\ (IF i < p THEN i ELSE i + 1) \in 1 .. l /\ (IF i < p THEN i ELSE i + 1) # p
        /\ t[i] = keys[IF i < p THEN i ELSE i + 1]
  <2>1. \A i \in 1 .. l - 1 : i \in Int /\ i \in 1 .. l /\ i + 1 \in 1 .. l
    BY <1>1
  <2>2. QED
    BY <1>1, <1>2, <1>3, <2>1
<1>7. \A i \in 1 .. l - 1 : t[i] \in DOMAIN mm \ {k}
  <2>1. \A i \in 1 .. l : i # p => keys[i] # k
    BY <1>1, <1>2 DEF IsInjective
  <2>2. QED
    BY <1>1, <1>6, <2>1
<1>8. ToSet(t) = DOMAIN u \ {k}
  <2>1. ASSUME NEW j \in DOMAIN mm \ {k}
        PROVE  j \in ToSet(t)
    <3>1. PICK i \in 1 .. l : keys[i] = j
      BY <1>1
    <3>2. i # p
      BY <1>2, <3>1
    <3>3. \/ i < p /\ i \in 1 .. l - 1
          \/ ~(i - 1 < p) /\ i - 1 \in 1 .. l - 1 /\ i - 1 + 1 = i
      BY <1>1, <1>2, <3>2
    <3>4. \E e \in 1 .. l - 1 : t[e] = j
      BY <1>3, <3>1, <3>3
    <3>5. QED
      BY <1>4, <3>4
  <2>2. QED
    BY <1>4, <1>5, <1>7, <2>1
<1>9. ASSUME NEW i \in 1 .. l - 1, NEW j \in 1 .. l - 1, i < j
      PROVE  u[t[j]].used < u[t[i]].used
  <2> DEFINE a == IF i < p THEN i ELSE i + 1
             b == IF j < p THEN j ELSE j + 1
  <2>1. a \in 1 .. l /\ b \in 1 .. l /\ t[i] = keys[a] /\ t[j] = keys[b]
    BY <1>6
  <2>2. a < b
    BY <1>2, <1>6, <1>9
  <2> HIDE DEF a, b
  <2>3. mm[t[j]].used < mm[t[i]].used
    BY <1>1, <2>1, <2>2
  <2>4. u[t[i]] = mm[t[i]] /\ u[t[j]] = mm[t[j]]
    BY <1>5, <1>7
  <2>5. QED
    BY <2>3, <2>4
<1>10. Listed(<<k>> \o t, u)
  <2>1. k \in DOMAIN u /\ DOMAIN u \subseteq Key /\ \A j \in DOMAIN u \ {k} : u[j].used < u[k].used
    BY <1>5
  <2>2. \A i, j \in DOMAIN t : i < j => u[t[j]].used < u[t[i]].used
    BY <1>4, <1>9
  <2>3. QED
    BY <1>3, <1>8, <2>1, <2>2, ListedMore
<1>11. QED
  BY <1>10 DEF p, t, u

\* A new key goes in front of the first keys, and takes the place of the oldest when
\* the cache is full.
LEMMA ListedAdded ==
  ASSUME NEW keys, NEW mm, ops \in Nat, Timed(mm, ops), Listed(keys, mm),
         Cardinality(DOMAIN mm) <= Capacity,
         NEW k \in Key, k \notin DOMAIN mm, NEW v \in Val \ {-1}
  PROVE  LET kept == SubSeq(keys, 1, Min({Len(keys), Capacity - 1}))
             new == Use(mm, k, v)
             m2 == IF Cardinality(DOMAIN new) > Capacity THEN WithoutKey(new, Oldest(new)) ELSE new
         IN  /\ Timed(m2, ops + 1) /\ Cardinality(DOMAIN m2) <= Capacity
             /\ DOMAIN m2 = ToSet(kept) \cup {k} /\ ToSet(kept) \subseteq DOMAIN mm
             /\ m2[k].val = v /\ \A j \in ToSet(kept) : m2[j] = mm[j]
             /\ Listed(<<k>> \o kept, m2)
<1> DEFINE l == Len(keys)
           p == Min({l, Capacity - 1})
           kept == SubSeq(keys, 1, p)
           new == Use(mm, k, v)
           m2 == IF Cardinality(DOMAIN new) > Capacity THEN WithoutKey(new, Oldest(new)) ELSE new
<1> SUFFICES /\ Timed(m2, ops + 1) /\ Cardinality(DOMAIN m2) <= Capacity
             /\ DOMAIN m2 = ToSet(kept) \cup {k} /\ ToSet(kept) \subseteq DOMAIN mm
             /\ m2[k].val = v /\ \A j \in ToSet(kept) : m2[j] = mm[j]
             /\ Listed(<<k>> \o kept, m2)
  OBVIOUS
<1>1. /\ keys \in Seq(Key) /\ l \in Nat /\ DOMAIN keys = 1 .. l
      /\ \A i \in 1 .. l : keys[i] \in DOMAIN mm /\ mm[keys[i]].used \in Int
      /\ \A j \in DOMAIN mm : \E i \in 1 .. l : keys[i] = j
      /\ \A i, j \in 1 .. l : i < j => mm[keys[j]].used < mm[keys[i]].used
      /\ IsInjective(keys) /\ Cardinality(DOMAIN mm) = l
  BY ListedIs
<1>2. Capacity \in Nat \ {0} /\ l <= Capacity
  BY <1>1, CacheAssumption
<1> HIDE DEF new
<1>3. /\ DOMAIN new = DOMAIN mm \cup {k}
      /\ new[k].used = ops + 1 /\ new[k].val = v
      /\ \A j \in DOMAIN mm \ {k} : new[j] = mm[j]
      /\ \A j \in DOMAIN mm \ {k} : new[j].used < new[k].used
      /\ Timed(new, ops + 1)
  <2>1. UsedNow(new, mm, k, v, ops + 1)
    BY UseIs DEF new
  <2>2. QED
    BY <2>1 DEF UsedNow
<1>4. Cardinality(DOMAIN new) = l + 1
  <2>1. IsFiniteSet(DOMAIN mm)
    BY DEF Timed
  <2>2. Cardinality(DOMAIN mm \cup {k}) = Cardinality(DOMAIN mm) + 1
    BY <2>1, FS_AddElement
  <2>3. QED
    BY <1>1, <1>3, <2>2
<1> HIDE DEF l
<1>5. p = (IF l < Capacity THEN l ELSE l - 1) /\ p \in Nat
  <2>1. p = IF l <= Capacity - 1 THEN l ELSE Capacity - 1
    BY <1>1, <1>2, MinOfTwo
  <2>2. QED
    BY <1>1, <1>2, <2>1
<1> HIDE DEF p, m2
<1>6. /\ kept \in Seq(Key) /\ Len(kept) = p /\ \A i \in 1 .. p : kept[i] = keys[i]
  <2>1. \A i \in 1 .. p : i \in 1 .. l
    BY <1>1, <1>5
  <2>2. \A i \in 1 .. p : keys[i] \in Key
    BY <1>1, <2>1 DEF Timed
  <2>3. 1 \in Int /\ p \in Int
    BY <1>5
  <2>4. /\ kept \in Seq(Key)
        /\ Len(kept) = IF 1 <= p THEN p - 1 + 1 ELSE 0
        /\ \A i \in 1 .. p - 1 + 1 : kept[i] = keys[1 + i - 1]
    BY <2>2, <2>3, SubSeqProperties
  <2>5. (IF 1 <= p THEN p - 1 + 1 ELSE 0) = p /\ p - 1 + 1 = p /\ \A i \in 1 .. p : 1 + i - 1 = i
    BY <1>5
  <2>6. QED
    BY <2>4, <2>5
<1> HIDE DEF kept
<1>7. DOMAIN kept = 1 .. p /\ ToSet(kept) = {keys[i] : i \in 1 .. p}
  <2>1. DOMAIN kept = 1 .. Len(kept) /\ ToSet(kept) = {kept[i] : i \in 1 .. Len(kept)}
    BY <1>6, SeqIs
  <2>2. QED
    BY <1>6, <2>1
<1>8. CASE l < Capacity
  <2>1. m2 = new /\ p = l
    BY <1>1, <1>2, <1>4, <1>5, <1>8 DEF m2
  <2>2. ToSet(kept) = DOMAIN mm
    <3>1. ToSet(kept) = {keys[i] : i \in 1 .. l}
      BY <1>7, <2>1
    <3>2. QED
      BY <1>1, <3>1, Zenon
  <2>3. QED
    <3>1. /\ DOMAIN new \subseteq Key /\ ToSet(kept) = DOMAIN new \ {k} /\ k \in DOMAIN new
          /\ \A j \in DOMAIN new \ {k} : new[j].used < new[k].used
      BY <1>3, <2>2 DEF Timed
    <3>2. \A i, j \in DOMAIN kept : i < j => new[kept[j]].used < new[kept[i]].used
      <4>1. \A i \in 1 .. p : kept[i] = keys[i] /\ keys[i] \in DOMAIN mm
        BY <1>1, <1>6, <2>1
      <4>2. \A i \in 1 .. p : new[kept[i]] = mm[keys[i]]
        BY <1>3, <4>1
      <4>3. \A i, j \in 1 .. p : i < j => new[kept[j]].used < new[kept[i]].used
        <5>1. \A i, j \in 1 .. p : i < j => mm[keys[j]].used < mm[keys[i]].used
          BY <1>1, <2>1
        <5>2. QED
          BY <4>2, <5>1
      <4>4. QED
        BY <1>7, <4>3
    <3>3. Listed(<<k>> \o kept, new)
      BY <1>6, <3>1, <3>2, ListedMore
    <3>4. Cardinality(DOMAIN new) <= Capacity
      BY <1>1, <1>2, <1>4, <1>8
    <3>5. new[k].val = v
      BY <1>3
    <3>6. QED
      BY <1>3, <2>1, <2>2, <3>3, <3>4, <3>5
<1>9. CASE ~(l < Capacity)
  <2> DEFINE o == keys[l]
  <2>1. l \in 1 .. l /\ p = l - 1 /\ l = Capacity /\ \A i \in 1 .. p : i \in 1 .. l /\ i # l
    BY <1>1, <1>2, <1>5, <1>9
  <2>2. o \in DOMAIN mm /\ o # k
    BY <1>1, <2>1
  <2>3. o \in DOMAIN new /\ \A j \in DOMAIN new : new[o].used <= new[j].used
    <3>1. ASSUME NEW j \in DOMAIN mm
          PROVE  mm[o].used <= mm[j].used
      <4>1. PICK i \in 1 .. l : keys[i] = j
        BY <1>1
      <4>2. i = l \/ i < l
        BY <1>1
      <4>3. mm[o].used \in Int
        BY <1>1, <2>1
      <4>4. QED
        BY <1>1, <2>1, <4>1, <4>2, <4>3
    <3>2. \A j \in DOMAIN mm : new[j] = mm[j]
      BY <1>3
    <3>3. mm[o].used \in Int /\ new[k].used \in Int
      BY <1>1, <1>3, <2>1
    <3>4. new[o].used <= new[k].used
      BY <1>3, <2>2, <3>2, <3>3
    <3>5. QED
      BY <1>3, <2>2, <3>1, <3>2, <3>4
  <2> HIDE DEF o
  <2>4. Oldest(new) = o
    BY <1>3, <2>3, OldestIs
  <2>5. m2 = WithoutKey(new, o)
    BY <1>1, <1>4, <2>1, <2>4 DEF m2
  <2>6. /\ DOMAIN m2 = DOMAIN new \ {o} /\ \A j \in DOMAIN new \ {o} : m2[j] = new[j]
        /\ Timed(m2, ops + 1)
    <3>1. Timed(new, ops + 1)
      BY <1>3
    <3>2. QED
      BY <2>5, <3>1, WithoutKeyIs, Zenon
  <2>7. ToSet(kept) = DOMAIN mm \ {o}
    <3>1. \A i \in 1 .. p : keys[i] # o /\ keys[i] \in DOMAIN mm
      BY <1>1, <2>1 DEF o, IsInjective
    <3>2. ASSUME NEW j \in DOMAIN mm \ {o}
          PROVE  \E i \in 1 .. p : keys[i] = j
      <4>1. PICK i \in 1 .. l : keys[i] = j
        BY <1>1
      <4>2. i # l
        BY <4>1 DEF o
      <4>3. i \in 1 .. p
        BY <1>1, <2>1, <4>2
      <4>4. QED
        BY <4>1, <4>3
    <3>3. QED
      BY <1>7, <3>1, <3>2
  <2>8. DOMAIN m2 = ToSet(kept) \cup {k} /\ k \in DOMAIN m2 /\ ToSet(kept) = DOMAIN m2 \ {k}
    BY <1>3, <2>2, <2>6, <2>7
  <2>9. m2[k] = new[k] /\ \A j \in ToSet(kept) : m2[j] = mm[j] /\ m2[j] = new[j]
    BY <1>3, <2>2, <2>6, <2>7
  <2>10. Cardinality(DOMAIN m2) <= Capacity
    <3>1. IsFiniteSet(DOMAIN new)
      BY <1>3 DEF Timed
    <3>2. Cardinality(DOMAIN new \ {o}) = Cardinality(DOMAIN new) - 1
      BY <2>3, <3>1, FS_RemoveElement
    <3>3. Cardinality(DOMAIN m2) = Cardinality(DOMAIN new) - 1
      BY <2>6, <3>2
    <3>4. QED
      BY <1>1, <1>2, <1>4, <2>1, <3>3
  <2>11. Listed(<<k>> \o kept, m2)
    <3>1. DOMAIN m2 \subseteq Key
      BY <2>6 DEF Timed
    <3>2. \A j \in DOMAIN m2 \ {k} : m2[j].used < m2[k].used
      BY <1>3, <2>7, <2>8, <2>9
    <3>3. \A i, j \in DOMAIN kept : i < j => m2[kept[j]].used < m2[kept[i]].used
      <4>1. \A i \in 1 .. p : kept[i] = keys[i] /\ keys[i] \in ToSet(kept) /\ i \in 1 .. l
        BY <1>6, <1>7, <2>1
      <4>2. \A i \in 1 .. p : m2[kept[i]] = mm[keys[i]]
        BY <2>9, <4>1
      <4>3. \A i, j \in 1 .. p : i < j => m2[kept[j]].used < m2[kept[i]].used
        <5>1. \A i, j \in 1 .. p : i < j => mm[keys[j]].used < mm[keys[i]].used
          BY <1>1, <4>1
        <5>2. QED
          BY <4>2, <5>1
      <4>4. QED
        BY <1>7, <4>3
    <3>4. QED
      BY <1>6, <2>8, <3>1, <3>2, <3>3, ListedMore
  <2>12. m2[k].val = v /\ ToSet(kept) \subseteq DOMAIN mm
    BY <1>3, <2>7, <2>9
  <2>13. QED
    BY <2>6, <2>8, <2>9, <2>10, <2>11, <2>12
<1>10. QED
  BY <1>8, <1>9

LEMMA Lru1GetIs ==
  ASSUME Lru1Inv, NEW k \in DOMAIN m, NEW v \in Val \ {-1}
  PROVE  LET t == <<k>> \o RemoveAt(s.keys, CHOOSE j \in DOMAIN s.keys : s.keys[j] = k) IN
           /\ Lru1Get(s, k) = <<[keys |-> t, map |-> s.map], m[k].val>> /\ m[k].val # -1
           /\ t \in Seq(Key) /\ Listed(t, Use(m, k, v))
           /\ DOMAIN Use(m, k, v) = DOMAIN m
<1> DEFINE t == <<k>> \o RemoveAt(s.keys, CHOOSE j \in DOMAIN s.keys : s.keys[j] = k)
<1>1. /\ ops \in Nat /\ Timed(m, ops) /\ Listed(s.keys, m)
      /\ s \in [keys : Seq(Key), map : [DOMAIN m -> Val]]
      /\ s.map[k] = m[k].val /\ k \in DOMAIN s.map
  BY DEF Lru1Inv
<1>2. m[k].val # -1 /\ k \in Key
  BY <1>1 DEF Timed
<1>3. Listed(t, Use(m, k, v))
  BY <1>1, ListedUsed
<1> HIDE DEF t
<1>4. DOMAIN Use(m, k, v) = DOMAIN m \cup {k}
  <2>1. ops \in Nat /\ Timed(m, ops) /\ k \in Key
    BY <1>1, <1>2
  <2>2. UsedNow(Use(m, k, v), m, k, v, ops + 1)
    BY <2>1, UseIs
  <2>3. QED
    BY <2>2 DEF UsedNow
<1>5. Lru1Get(s, k) = <<[s EXCEPT !.keys = t], m[k].val>>
  BY <1>1 DEF Lru1Get, t
<1>6. [s EXCEPT !.keys = t] = [keys |-> t, map |-> s.map]
  BY <1>1
<1>7. DOMAIN m \cup {k} = DOMAIN m
  OBVIOUS
<1>8. QED
  BY <1>2, <1>3, <1>4, <1>5, <1>6, <1>7 DEF t, Listed

LEMMA Lru1Step ==
  ASSUME Lru1Inv, kind = "lru1", CacheCall
  PROVE  Lru1Inv' /\ AnswersAgree'
<1>1. /\ ops \in Nat /\ Timed(m, ops) /\ Listed(s.keys, m) /\ Cardinality(DOMAIN m) <= Capacity
      /\ s \in [keys : Seq(Key), map : [DOMAIN m -> Val]]
      /\ \A k \in DOMAIN m : s.map[k] = m[k].val
      /\ DOMAIN s.map = DOMAIN m
  BY DEF Lru1Inv
<1>2. ASSUME NEW k \in Key, CacheGet(k)
      PROVE  Lru1Inv' /\ AnswersAgree'
  <2>1. CASE k \in DOMAIN m
    <3> DEFINE t == <<k>> \o RemoveAt(s.keys, CHOOSE j \in DOMAIN s.keys : s.keys[j] = k)
               u == Use(m, k, m[k].val)
    <3>1. m[k].val \in Val \ {-1}
      BY <1>1, <2>1 DEF Timed
    <3>2. /\ Lru1Get(s, k) = <<[keys |-> t, map |-> s.map], m[k].val>>
          /\ t \in Seq(Key) /\ Listed(t, u) /\ DOMAIN u = DOMAIN m
      BY <2>1, <3>1, Lru1GetIs
    <3> HIDE DEF t
    <3>3. /\ Timed(u, ops + 1) /\ u[k].val = m[k].val
          /\ \A j \in DOMAIN m \ {k} : u[j] = m[j]
      <4>1. ops \in Nat /\ Timed(m, ops)
        BY <1>1
      <4>2. UsedNow(u, m, k, m[k].val, ops + 1)
        BY <3>1, <4>1, UseIs
      <4> HIDE DEF u
      <4>3. QED
        BY <4>2 DEF UsedNow
    <3> HIDE DEF u
    <3>4. /\ s' = [keys |-> t, map |-> s.map] /\ m' = u /\ ops' = ops + 1
          /\ ans' = <<m[k].val, m[k].val>>
      BY <1>2, <2>1, <3>2 DEF CacheGet, Call, u
    <3>5. s' \in [keys : Seq(Key), map : [DOMAIN m -> Val]] /\ s'.keys = t /\ s'.map = s.map
      BY <1>1, <3>2, <3>4
    <3>6. \A j \in DOMAIN u : s.map[j] = u[j].val
      BY <1>1, <3>2, <3>3
    <3>7. ops' \in Nat /\ Cardinality(DOMAIN u) <= Capacity
      BY <1>1, <3>2, <3>4
    <3>8. Timed(m', ops')
      BY <3>3, <3>4
    <3>9. QED
      BY <3>2, <3>4, <3>5, <3>6, <3>7, <3>8 DEF Lru1Inv, AnswersAgree, Timed, Listed
  <2>2. CASE k \notin DOMAIN m
    <3>1. Lru1Get(s, k) = <<s, -1>>
      BY <1>1, <2>2 DEF Lru1Get
    <3>2. s' = s /\ m' = m /\ ops' = ops + 1 /\ ans' = <<-1, -1>>
      BY <1>2, <2>2, <3>1 DEF CacheGet, Call
    <3>3. Timed(m, ops + 1) /\ ops + 1 \in Nat
      BY <1>1, TimedLater
    <3>4. QED
      BY <1>1, <3>2, <3>3 DEF Lru1Inv, AnswersAgree, Timed, Listed
  <2>3. QED
    BY <2>1, <2>2
<1>3. ASSUME NEW k \in Key, NEW v \in Val \ {-1}, CachePut(k, v)
      PROVE  Lru1Inv' /\ AnswersAgree'
  <2> DEFINE new == Use(m, k, v)
             m2 == IF Cardinality(DOMAIN new) > Capacity THEN WithoutKey(new, Oldest(new)) ELSE new
  <2>1. s' = Lru1Put(s, k, v) /\ m' = m2 /\ ops' = ops + 1 /\ ans' = <<Void, Void>>
    BY <1>3 DEF CachePut, Call
  <2>2. CASE k \in DOMAIN m
    <3> DEFINE t == <<k>> \o RemoveAt(s.keys, CHOOSE j \in DOMAIN s.keys : s.keys[j] = k)
               f == [s.map EXCEPT ![k] = v]
    <3>1. /\ Lru1Get(s, k) = <<[keys |-> t, map |-> s.map], m[k].val>> /\ m[k].val # -1
          /\ t \in Seq(Key) /\ Listed(t, new) /\ DOMAIN new = DOMAIN m
      BY <2>2, Lru1GetIs
    <3> HIDE DEF t
    <3>2. /\ Timed(new, ops + 1) /\ new[k].val = v
          /\ \A j \in DOMAIN m \ {k} : new[j] = m[j]
      <4>1. ops \in Nat /\ Timed(m, ops)
        BY <1>1
      <4>2. UsedNow(new, m, k, v, ops + 1)
        BY <4>1, UseIs
      <4> HIDE DEF new
      <4>3. QED
        BY <4>2 DEF UsedNow
    <3> HIDE DEF new
    <3>3. ~(Cardinality(DOMAIN new) > Capacity)
      <4>1. IsFiniteSet(DOMAIN m)
        BY <1>1 DEF Timed
      <4>2. Cardinality(DOMAIN m) \in Nat
        BY <4>1, FS_CardinalityType
      <4>3. QED
        BY <1>1, <3>1, <4>2, CacheAssumption
    <3>4. m' = new
      BY <2>1, <3>3
    <3>5. s' = [keys |-> t, map |-> f]
      <4>1. Lru1Get(s, k)[1] = [keys |-> t, map |-> s.map] /\ Lru1Get(s, k)[2] # -1
        BY <3>1
      <4>2. s' = [Lru1Get(s, k)[1] EXCEPT !.map[k] = v]
        BY <2>1, <4>1 DEF Lru1Put
      <4>3. s' = [[keys |-> t, map |-> s.map] EXCEPT !.map[k] = v]
        BY <4>1, <4>2
      <4>4. QED
        BY <4>3
    <3>6. f \in [DOMAIN m -> Val] /\ f[k] = v /\ \A j \in DOMAIN m \ {k} : f[j] = s.map[j]
      BY <1>1, <2>2
    <3> HIDE DEF f
    <3>7. s' \in [keys : Seq(Key), map : [DOMAIN m -> Val]] /\ s'.keys = t /\ s'.map = f
      BY <3>1, <3>5, <3>6
    <3>8. \A j \in DOMAIN new : f[j] = new[j].val
      BY <1>1, <3>1, <3>2, <3>6
    <3>9. ops' \in Nat /\ Cardinality(DOMAIN new) <= Capacity
      BY <1>1, <2>1, <3>1
    <3>10. Timed(m', ops')
      BY <2>1, <3>2, <3>4
    <3>11. QED
      BY <2>1, <3>1, <3>4, <3>7, <3>8, <3>9, <3>10 DEF Lru1Inv, AnswersAgree, Timed, Listed
  <2>3. CASE k \notin DOMAIN m
    <3> DEFINE kept == SubSeq(s.keys, 1, Min({Len(s.keys), Capacity - 1}))
               t == <<k>> \o kept
               f == [j \in ToSet(kept) \cup {k} |-> IF j = k THEN v ELSE s.map[j]]
    <3>1. Lru1Get(s, k) = <<s, -1>>
      BY <1>1, <2>3 DEF Lru1Get
    <3>2. s' = [keys |-> t, map |-> f]
      BY <2>1, <3>1 DEF Lru1Put
    <3>3. /\ Timed(m2, ops + 1) /\ Cardinality(DOMAIN m2) <= Capacity
          /\ DOMAIN m2 = ToSet(kept) \cup {k} /\ ToSet(kept) \subseteq DOMAIN m
          /\ m2[k].val = v /\ \A j \in ToSet(kept) : m2[j] = m[j]
          /\ Listed(t, m2)
      <4>1. /\ ops \in Nat /\ Timed(m, ops) /\ Listed(s.keys, m)
            /\ Cardinality(DOMAIN m) <= Capacity /\ k \notin DOMAIN m
        BY <1>1, <2>3
      <4> HIDE DEF f
      <4>2. QED
        BY <4>1, ListedAdded
    <3> HIDE DEF kept, new
    <3>4. f \in [DOMAIN m2 -> Val] /\ \A j \in DOMAIN m2 : f[j] = m2[j].val
      <4> HIDE DEF m2
      <4>1. \A j \in ToSet(kept) : s.map[j] \in Val /\ s.map[j] = m[j].val /\ j # k
        BY <1>1, <2>3, <3>3
      <4>2. QED
        BY <3>3, <4>1
    <3> HIDE DEF t, f, m2
    <3>5. t \in Seq(Key)
      BY <3>3 DEF Listed
    <3>6. s' \in [keys : Seq(Key), map : [DOMAIN m2 -> Val]] /\ s'.keys = t /\ s'.map = f
      BY <3>2, <3>4, <3>5
    <3>7. ops' \in Nat
      BY <1>1, <2>1
    <3>8. Timed(m', ops')
      BY <2>1, <3>3
    <3>9. QED
      BY <2>1, <3>3, <3>4, <3>6, <3>7, <3>8 DEF Lru1Inv, AnswersAgree, Timed, Listed
  <2>4. QED
    BY <2>2, <2>3
<1>4. QED
  BY <1>2, <1>3 DEF CacheCall

-----------------------------------------------------------------------------
(* LRUCache: the doubly linked list.                                       *)

\* The list runs from the head node through C to the tail node, and back; and each
\* key in it was used after the next one.
Linked(l, C) ==
  /\ \A n \in C \cup {HeadNode} : l.next[n] \in C \cup {TailNode} /\ l.prev[l.next[n]] = n
  /\ \A n \in C \cup {TailNode} : l.prev[n] \in C \cup {HeadNode} /\ l.next[l.prev[n]] = n

Falling(l, C, mm) == \A n \in C : l.next[n] # TailNode => mm[l.next[n]].used < mm[n].used

ListState == [next : [LruNode -> LruNode], prev : [LruNode -> LruNode],
              cache : SUBSET Key, value : [Key -> Int]]

LruInv ==
  /\ ops \in Nat
  /\ Timed(m, ops) /\ Cardinality(DOMAIN m) <= Capacity
  /\ s \in ListState /\ s.cache = DOMAIN m
  /\ Linked(s, s.cache) /\ Falling(s, s.cache, m)
  /\ \A k \in s.cache : s.value[k] = m[k].val

LEMMA ListStateIs ==
  ASSUME NEW l \in ListState
  PROVE  /\ l.next \in [LruNode -> LruNode] /\ l.prev \in [LruNode -> LruNode]
         /\ l.cache \subseteq Key /\ l.value \in [Key -> Int]
BY DEF ListState

LEMMA NodesAre ==
  /\ HeadNode \in LruNode /\ TailNode \in LruNode /\ HeadNode # TailNode
  /\ \A k \in Key : k \in LruNode /\ k # HeadNode /\ k # TailNode
BY CacheAssumption DEF LruNode

\* What came before n in l now leads to what came after it.
Bypassed(r, l, n) ==
  /\ r.next[l.prev[n]] = l.next[n]
  /\ \A x \in LruNode \ {l.prev[n]} : r.next[x] = l.next[x]

LEMMA RemoveNodeIs ==
  ASSUME NEW l \in ListState, NEW C, C \subseteq Key, NEW n \in C, Linked(l, C), l.next[n] # n
  PROVE  /\ RemoveNode(l, n) \in ListState
         /\ RemoveNode(l, n).cache = l.cache /\ RemoveNode(l, n).value = l.value
         /\ Linked(RemoveNode(l, n), C \ {n})
         /\ Bypassed(RemoveNode(l, n), l, n)
<1> DEFINE a == l.prev[n]
           b == l.next[n]
           r == RemoveNode(l, n)
<1>1. /\ l.next \in [LruNode -> LruNode] /\ l.prev \in [LruNode -> LruNode]
      /\ l.cache \subseteq Key /\ l.value \in [Key -> Int]
  BY ListStateIs
<1>2. n \in LruNode /\ n # HeadNode /\ n # TailNode /\ C \subseteq LruNode
      /\ HeadNode \in LruNode /\ TailNode \in LruNode /\ HeadNode \notin C /\ TailNode \notin C
  BY NodesAre
<1>3. a \in C \cup {HeadNode} /\ b \in C \cup {TailNode} /\ l.next[a] = n /\ l.prev[b] = n
  BY DEF Linked
<1>4. a \in LruNode /\ b \in LruNode
  BY <1>1, <1>2
<1> DEFINE f == [l.next EXCEPT ![a] = b]
           g == [l.prev EXCEPT ![b] = a]
<1>5. /\ f \in [LruNode -> LruNode] /\ f[a] = b /\ \A x \in LruNode \ {a} : f[x] = l.next[x]
      /\ g \in [LruNode -> LruNode] /\ g[b] = a /\ \A x \in LruNode \ {b} : g[x] = l.prev[x]
  BY <1>1, <1>4
<1>6. r = [l EXCEPT !.next = f, !.prev = g]
  BY DEF RemoveNode
<1> HIDE DEF f, g, r
<1>7. /\ r \in ListState /\ r.next = f /\ r.prev = g /\ r.cache = l.cache /\ r.value = l.value
  BY <1>5, <1>6 DEF ListState
<1> HIDE DEF a, b
<1>8. a # n /\ b # n
  <2>1. b # n
    BY DEF b
  <2>2. QED
    BY <1>3, <2>1 DEF b
<1> DEFINE D == C \ {n}
<1>9. ASSUME NEW x \in D \cup {HeadNode}
      PROVE  f[x] \in D \cup {TailNode} /\ g[f[x]] = x
  <2>1. CASE x = a
    BY <1>2, <1>3, <1>5, <1>8, <2>1
  <2>2. CASE x # a
    <3>1. x \in LruNode /\ x \in C \cup {HeadNode} /\ x # n
      BY <1>2
    <3>2. f[x] = l.next[x] /\ l.next[x] \in C \cup {TailNode} /\ l.prev[l.next[x]] = x
      BY <1>5, <2>2, <3>1 DEF Linked
    <3>3. f[x] # n
      BY <2>2, <3>2 DEF a
    <3>4. f[x] # b
      BY <1>3, <3>1, <3>2
    <3>5. f[x] \in LruNode
      BY <1>2, <3>2
    <3>6. QED
      BY <1>5, <3>2, <3>3, <3>4, <3>5
  <2>3. QED
    BY <2>1, <2>2
<1>10. ASSUME NEW x \in D \cup {TailNode}
       PROVE  g[x] \in D \cup {HeadNode} /\ f[g[x]] = x
  <2>1. CASE x = b
    BY <1>2, <1>3, <1>5, <1>8, <2>1
  <2>2. CASE x # b
    <3>1. x \in LruNode /\ x \in C \cup {TailNode} /\ x # n
      BY <1>2
    <3>2. g[x] = l.prev[x] /\ l.prev[x] \in C \cup {HeadNode} /\ l.next[l.prev[x]] = x
      BY <1>5, <2>2, <3>1 DEF Linked
    <3>3. g[x] # n
      BY <2>2, <3>2 DEF b
    <3>4. g[x] # a
      BY <1>3, <3>1, <3>2
    <3>5. g[x] \in LruNode
      BY <1>2, <3>2
    <3>6. QED
      BY <1>5, <3>2, <3>3, <3>4, <3>5
  <2>3. QED
    BY <2>1, <2>2
<1>11. Linked(r, D)
  BY <1>7, <1>9, <1>10 DEF Linked
<1>12. QED
  BY <1>5, <1>7, <1>11 DEF r, a, b, Bypassed

\* r is the list l of the keys C with n at its head.
Headed(r, l, C, n) ==
  /\ r \in ListState /\ r.cache = l.cache /\ r.value = l.value
  /\ Linked(r, C \cup {n})
  /\ r.next[n] \in C \cup {TailNode}
  /\ \A x \in C : r.next[x] = l.next[x]

LEMMA AddToHeadIs ==
  ASSUME NEW l \in ListState, NEW C, C \subseteq Key, NEW n \in Key \ C, Linked(l, C)
  PROVE  Headed(AddToHead(l, n), l, C, n)
<1> DEFINE b == l.next[HeadNode]
           r == AddToHead(l, n)
<1>1. /\ l.next \in [LruNode -> LruNode] /\ l.prev \in [LruNode -> LruNode]
      /\ l.cache \subseteq Key /\ l.value \in [Key -> Int]
  BY ListStateIs
<1>2. n \in LruNode /\ n # HeadNode /\ n # TailNode /\ C \subseteq LruNode /\ HeadNode # TailNode
      /\ HeadNode \in LruNode /\ TailNode \in LruNode /\ HeadNode \notin C /\ TailNode \notin C
  BY NodesAre
<1>3. b \in C \cup {TailNode} /\ l.prev[b] = HeadNode
  BY DEF Linked
<1>4. b \in LruNode /\ b # n /\ b # HeadNode
  BY <1>2, <1>3
<1> DEFINE f == [[l.next EXCEPT ![n] = b] EXCEPT ![HeadNode] = n]
           g == [[l.prev EXCEPT ![n] = HeadNode] EXCEPT ![b] = n]
<1>5. /\ f \in [LruNode -> LruNode] /\ f[n] = b /\ f[HeadNode] = n
      /\ \A x \in LruNode \ {n, HeadNode} : f[x] = l.next[x]
  BY <1>1, <1>2, <1>4
<1>6. /\ g \in [LruNode -> LruNode] /\ g[n] = HeadNode /\ g[b] = n
      /\ \A x \in LruNode \ {n, b} : g[x] = l.prev[x]
  BY <1>1, <1>2, <1>4
<1>7. r = [l EXCEPT !.next = f, !.prev = g]
  BY DEF AddToHead
<1> HIDE DEF f, g, r
<1>8. /\ r \in ListState /\ r.next = f /\ r.prev = g /\ r.cache = l.cache /\ r.value = l.value
  BY <1>5, <1>6, <1>7 DEF ListState
<1> HIDE DEF b
<1> DEFINE D == C \cup {n}
<1>9. ASSUME NEW x \in D \cup {HeadNode}
      PROVE  f[x] \in D \cup {TailNode} /\ g[f[x]] = x
  <2>1. CASE x = n
    BY <1>2, <1>3, <1>5, <1>6, <2>1
  <2>2. CASE x = HeadNode
    BY <1>2, <1>5, <1>6, <2>2
  <2>3. CASE x \in C
    <3>1. x \in LruNode /\ x # n /\ x # HeadNode
      BY <1>2, <2>3
    <3>2. f[x] = l.next[x] /\ l.next[x] \in C \cup {TailNode} /\ l.prev[l.next[x]] = x
      BY <1>5, <2>3, <3>1 DEF Linked
    <3>3. f[x] # n /\ f[x] # b /\ f[x] \in LruNode
      BY <1>2, <1>3, <3>1, <3>2
    <3>4. QED
      BY <1>6, <3>2, <3>3
  <2>4. QED
    BY <2>1, <2>2, <2>3
<1>10. ASSUME NEW x \in D \cup {TailNode}
       PROVE  g[x] \in D \cup {HeadNode} /\ f[g[x]] = x
  <2>1. CASE x = n
    BY <1>2, <1>5, <1>6, <2>1
  <2>2. CASE x = b
    BY <1>2, <1>5, <1>6, <2>2
  <2>3. CASE x # n /\ x # b
    <3>1. x \in LruNode /\ x \in C \cup {TailNode}
      BY <1>2, <2>3
    <3>2. g[x] = l.prev[x] /\ l.prev[x] \in C \cup {HeadNode} /\ l.next[l.prev[x]] = x
      BY <1>6, <2>3, <3>1 DEF Linked
    <3>3. g[x] # HeadNode
      BY <2>3, <3>2 DEF b
    <3>4. g[x] \in C /\ g[x] # n /\ g[x] \in LruNode
      BY <1>2, <3>2, <3>3
    <3>5. QED
      BY <1>5, <3>2, <3>3, <3>4
  <2>4. QED
    BY <2>1, <2>2, <2>3
<1>11. Linked(r, D)
  BY <1>8, <1>9, <1>10 DEF Linked
<1>12. \A x \in C : f[x] = l.next[x]
  BY <1>2, <1>5
<1>13. Headed(r, l, C, n)
  BY <1>3, <1>5, <1>8, <1>11, <1>12 DEF Headed
<1>14. QED
  BY <1>13 DEF r

LEMMA LastIsOldest ==
  ASSUME NEW l, NEW C, C # {}, TailNode \notin C, Linked(l, C),
         NEW mm, Falling(l, C, mm), \A k \in C : mm[k].used \in Nat
  PROVE  l.prev[TailNode] \in C /\ \A j \in C : mm[l.prev[TailNode]].used <= mm[j].used
<1> DEFINE T == {mm[k].used : k \in C}
<1>1. T \subseteq Nat /\ T # {}
  OBVIOUS
<1>2. PICK t \in T : \A u \in T : t <= u
  <2> HIDE DEF T
  <2> QED
    BY <1>1, LeastOf
<1>3. PICK k \in C : mm[k].used = t
  OBVIOUS
<1>4. \A j \in C : mm[k].used <= mm[j].used
  BY <1>2, <1>3
<1>5. l.next[k] = TailNode
  <2>1. SUFFICES ASSUME l.next[k] # TailNode PROVE FALSE
    OBVIOUS
  <2>2. l.next[k] \in C
    BY <2>1 DEF Linked
  <2>3. mm[l.next[k]].used < mm[k].used
    BY <2>1 DEF Falling
  <2>4. mm[k].used <= mm[l.next[k]].used
    BY <1>4, <2>2
  <2>5. QED
    BY <2>2, <2>3, <2>4
<1>6. l.prev[TailNode] = k
  BY <1>5 DEF Linked
<1>7. QED
  BY <1>4, <1>6

LEMMA FallingWithout ==
  ASSUME NEW l \in ListState, NEW C, C \subseteq Key, NEW n \in C, Linked(l, C),
         NEW mm, Falling(l, C, mm), \A k \in C : mm[k].used \in Nat
  PROVE  l.next[n] # n /\ Falling(RemoveNode(l, n), C \ {n}, mm)
<1> DEFINE a == l.prev[n]
           b == l.next[n]
           r == RemoveNode(l, n)
<1>1. n # TailNode /\ TailNode \notin C /\ HeadNode \notin C /\ C \subseteq LruNode
  BY NodesAre
<1>2. b # n
  BY <1>1 DEF Falling
<1>3. /\ r.next[a] = b /\ \A x \in LruNode \ {a} : r.next[x] = l.next[x]
  <2>1. l.next[n] # n
    BY <1>2
  <2>2. Bypassed(r, l, n)
    BY <2>1, RemoveNodeIs
  <2>3. QED
    BY <2>2 DEF Bypassed
<1>4. a \in C \cup {HeadNode} /\ b \in C \cup {TailNode} /\ l.next[a] = n
  BY DEF Linked
<1>5. b # TailNode => mm[b].used < mm[n].used
  BY DEF Falling
<1>6. ASSUME NEW x \in C \ {n}, r.next[x] # TailNode
      PROVE  mm[r.next[x]].used < mm[x].used
  <2>1. CASE x = a
    <3>1. r.next[x] = b /\ b \in C
      BY <1>3, <1>4, <1>6, <2>1
    <3>2. mm[n].used < mm[x].used
      BY <1>1, <1>4, <2>1 DEF Falling
    <3>3. mm[b].used < mm[n].used
      BY <1>3, <1>5, <1>6, <2>1
    <3>4. mm[b].used \in Nat /\ mm[n].used \in Nat /\ mm[x].used \in Nat
      BY <3>1
    <3> HIDE DEF b
    <3>5. QED
      BY <3>1, <3>2, <3>3, <3>4
  <2>2. CASE x # a
    <3>1. r.next[x] = l.next[x]
      BY <1>1, <1>3, <2>2
    <3>2. QED
      BY <1>6, <3>1 DEF Falling
  <2>3. QED
    BY <2>1, <2>2
<1>7. QED
  BY <1>2, <1>6 DEF Falling

LEMMA FallingWith ==
  ASSUME NEW l \in ListState, NEW C, C \subseteq Key, NEW n \in Key \ C, Linked(l, C),
         NEW mm, Falling(l, C, mm),
         NEW u, \A x \in C : u[x] = mm[x] /\ u[x].used < u[n].used
  PROVE  Falling(AddToHead(l, n), C \cup {n}, u)
<1> DEFINE r == AddToHead(l, n)
<1>1. r.next[n] \in C \cup {TailNode} /\ \A x \in C : r.next[x] = l.next[x]
  <2>1. Headed(r, l, C, n)
    BY AddToHeadIs
  <2> HIDE DEF r
  <2>2. QED
    BY <2>1 DEF Headed
<1>2. \A x \in C : l.next[x] \in C \cup {TailNode}
  BY DEF Linked
<1> HIDE DEF r
<1>3. ASSUME NEW x \in C, r.next[x] # TailNode
      PROVE  u[r.next[x]].used < u[x].used
  <2>1. r.next[x] = l.next[x] /\ l.next[x] \in C
    BY <1>1, <1>2, <1>3
  <2>2. mm[l.next[x]].used < mm[x].used
    BY <1>3, <2>1 DEF Falling
  <2>3. u[l.next[x]] = mm[l.next[x]] /\ u[x] = mm[x]
    BY <2>1
  <2>4. QED
    BY <2>1, <2>2, <2>3
<1>4. Falling(r, C \cup {n}, u)
  BY <1>1, <1>3 DEF Falling
<1>5. QED
  BY <1>4 DEF r

\* Using a key that is present.
LEMMA MovedToHead ==
  ASSUME NEW l \in ListState, NEW mm, ops \in Nat, Timed(mm, ops),
         Linked(l, DOMAIN mm), Falling(l, DOMAIN mm, mm),
         NEW k \in DOMAIN mm, NEW v \in Val \ {-1}
  PROVE  /\ MoveToHead(l, k) \in ListState
         /\ MoveToHead(l, k).cache = l.cache /\ MoveToHead(l, k).value = l.value
         /\ Linked(MoveToHead(l, k), DOMAIN mm)
         /\ Falling(MoveToHead(l, k), DOMAIN mm, Use(mm, k, v))
<1> DEFINE C == DOMAIN mm
           D == C \ {k}
           r == RemoveNode(l, k)
           t == AddToHead(r, k)
           u == Use(mm, k, v)
<1>1. C \subseteq Key /\ k \in Key /\ \A j \in C : mm[j].used \in Nat
  BY DEF Timed
<1>2. UsedNow(u, mm, k, v, ops + 1)
  BY <1>1, UseIs
<1> HIDE DEF u
<1>3. \A j \in D : u[j] = mm[j] /\ u[j].used < u[k].used
  BY <1>2 DEF UsedNow
<1> HIDE DEF C
<1>4. l.next[k] # k /\ Falling(r, D, mm)
  BY <1>1, FallingWithout DEF C
<1>5. /\ r \in ListState /\ r.cache = l.cache /\ r.value = l.value /\ Linked(r, D)
  BY <1>1, <1>4, RemoveNodeIs DEF C
<1>6. k \in Key \ D /\ D \subseteq Key /\ D \cup {k} = C
  BY <1>1 DEF C
<1> HIDE DEF D, r
<1>7. t \in ListState /\ t.cache = r.cache /\ t.value = r.value /\ Linked(t, D \cup {k})
  <2>1. Headed(t, r, D, k)
    BY <1>5, <1>6, AddToHeadIs
  <2> HIDE DEF t
  <2>2. QED
    BY <2>1 DEF Headed
<1>8. Falling(t, D \cup {k}, u)
  BY <1>3, <1>4, <1>5, <1>6, FallingWith
<1>9. MoveToHead(l, k) = t
  BY DEF MoveToHead, r
<1> HIDE DEF t
<1>10. QED
  BY <1>5, <1>6, <1>7, <1>8, <1>9 DEF u, C

LEMMA LruGetKeeps ==
  ASSUME LruInv, NEW k \in DOMAIN m, NEW v \in Val \ {-1},
         NEW l \in ListState, Linked(l, DOMAIN m), Falling(l, DOMAIN m, m), l.cache = DOMAIN m,
         l.value[k] = v, \A j \in DOMAIN m \ {k} : l.value[j] = m[j].val,
         s' = MoveToHead(l, k), m' = Use(m, k, v), ops' = ops + 1
  PROVE  LruInv'
<1> DEFINE t == MoveToHead(l, k)
           u == Use(m, k, v)
<1>1. ops \in Nat /\ Timed(m, ops) /\ Cardinality(DOMAIN m) <= Capacity
  BY DEF LruInv
<1>2. /\ t \in ListState /\ t.cache = l.cache /\ t.value = l.value
      /\ Linked(t, DOMAIN m) /\ Falling(t, DOMAIN m, u)
  BY <1>1, MovedToHead
<1>3. UsedNow(u, m, k, v, ops + 1)
  <2>1. k \in Key
    BY <1>1 DEF Timed
  <2>2. QED
    BY <1>1, <2>1, UseIs
<1> HIDE DEF t, u
<1>4. s' = t /\ m' = u
  BY DEF t, u
<1>5. DOMAIN u = DOMAIN m /\ u[k].val = v /\ \A j \in DOMAIN m \ {k} : u[j] = m[j]
  BY <1>3 DEF UsedNow
<1>6. \A j \in DOMAIN m : t.value[j] = u[j].val
  BY <1>2, <1>5
<1>7. ops' \in Nat /\ Timed(u, ops')
  BY <1>1, <1>3 DEF UsedNow
<1>8. QED
  BY <1>1, <1>2, <1>4, <1>5, <1>6, <1>7 DEF LruInv, Timed, Linked, Falling

\* A new key, and the oldest one goes when there are too many.
LEMMA LruAdds ==
  ASSUME LruInv, NEW k \in Key, k \notin DOMAIN m, NEW v \in Val \ {-1},
         NEW new, UsedNow(new, m, k, v, ops + 1),
         s' = LruPut(s, k, v), ops' = ops + 1,
         m' = IF Cardinality(DOMAIN new) > Capacity THEN WithoutKey(new, Oldest(new)) ELSE new
  PROVE  LruInv'
<1> DEFINE l == [s EXCEPT !.cache = @ \cup {k}, !.value[k] = v]
           t == AddToHead(l, k)
           C == DOMAIN m
           D == C \cup {k}
           o == t.prev[TailNode]
<1>1. /\ ops \in Nat /\ Timed(m, ops) /\ Cardinality(C) <= Capacity
      /\ s \in ListState /\ s.cache = C /\ Linked(s, C) /\ Falling(s, C, m)
      /\ \A j \in C : s.value[j] = m[j].val
  BY DEF LruInv
<1>2. /\ DOMAIN new = D /\ new[k].val = v
      /\ \A j \in C : new[j] = m[j] /\ new[j].used < new[k].used
      /\ Timed(new, ops + 1)
  BY DEF UsedNow
<1>3. C \subseteq Key /\ IsFiniteSet(C) /\ v \in Int
  BY <1>1, ValAssumption DEF Timed
<1>4. /\ l \in ListState /\ l.next = s.next /\ l.prev = s.prev /\ l.cache = D
      /\ l.value[k] = v /\ \A j \in C : l.value[j] = s.value[j]
  <2> DEFINE f == [s.value EXCEPT ![k] = v]
             c == s.cache \cup {k}
  <2>1. f \in [Key -> Int] /\ f[k] = v /\ \A j \in C : f[j] = s.value[j]
    BY <1>1, <1>3, ListStateIs
  <2>2. c \in SUBSET Key /\ c = D
    BY <1>1, <1>3
  <2>3. l = [s EXCEPT !.cache = c, !.value = f]
    OBVIOUS
  <2> HIDE DEF f, c, l
  <2>4. l \in ListState /\ l.next = s.next /\ l.prev = s.prev /\ l.cache = c /\ l.value = f
    BY <1>1, <2>1, <2>2, <2>3 DEF ListState
  <2>5. QED
    BY <2>1, <2>2, <2>4
<1> HIDE DEF l, C
<1>5. Linked(l, C) /\ Falling(l, C, m)
  BY <1>1, <1>4 DEF Linked, Falling
<1>6. k \in Key \ C
  BY DEF C
<1>7. t \in ListState /\ t.cache = l.cache /\ t.value = l.value /\ Linked(t, D)
  <2>1. Headed(t, l, C, k)
    BY <1>3, <1>4, <1>5, <1>6, AddToHeadIs
  <2> HIDE DEF t
  <2>2. QED
    BY <2>1 DEF Headed
<1>8. Falling(t, D, new)
  BY <1>2, <1>3, <1>4, <1>5, <1>6, FallingWith
<1>9. LruPut(s, k, v) = IF Cardinality(t.cache) > Capacity
                        THEN [RemoveNode(t, o) EXCEPT !.cache = @ \ {o}] ELSE t
  BY <1>1, <1>6 DEF LruPut, l
<1> HIDE DEF t
<1>10. \A j \in D : t.value[j] = new[j].val
  BY <1>1, <1>2, <1>4, <1>7
<1>11. IsFiniteSet(D) /\ Cardinality(D) = Cardinality(C) + 1 /\ Cardinality(C) \in Nat /\ D \subseteq Key
  <2>1. Cardinality(C \cup {k}) = Cardinality(C) + 1 /\ IsFiniteSet(C \cup {k})
    BY <1>3, <1>6, FS_AddElement
  <2>2. QED
    BY <1>3, <2>1, FS_CardinalityType
<1> HIDE DEF D
<1>12. ops' \in Nat /\ Timed(new, ops') /\ ops' = ops + 1
  BY <1>1, <1>2
<1>13. t.cache = D
  BY <1>4, <1>7
<1>14. CASE ~(Cardinality(D) > Capacity)
  <2>1. s' = t /\ m' = new
    BY <1>2, <1>9, <1>13, <1>14
  <2>2. Cardinality(D) <= Capacity
    BY <1>11, <1>14, CacheAssumption
  <2>3. QED
    BY <1>2, <1>7, <1>8, <1>10, <1>12, <1>13, <2>1, <2>2 DEF LruInv, Timed, Linked, Falling
<1>15. CASE Cardinality(D) > Capacity
  <2>1. o \in D /\ \A j \in D : new[o].used <= new[j].used
    <3>1. D # {} /\ TailNode \notin D /\ \A j \in D : new[j].used \in Nat
      BY <1>2, <1>11, NodesAre DEF D, Timed
    <3>2. QED
      BY <1>7, <1>8, <3>1, LastIsOldest
  <2> HIDE DEF o
  <2>2. Oldest(new) = o
    <3>1. ops + 1 \in Nat
      BY <1>1
    <3>2. QED
      BY <1>2, <2>1, <3>1, OldestIs
  <2> DEFINE w == WithoutKey(new, o)
             r == RemoveNode(t, o)
             E == D \ {o}
  <2>3. DOMAIN w = E /\ (\A j \in E : w[j] = new[j]) /\ Timed(w, ops')
    BY <1>2, <1>12, WithoutKeyIs
  <2>4. t.next[o] # o /\ Falling(r, E, new)
    <3>1. \A j \in D : new[j].used \in Nat
      BY <1>2 DEF Timed
    <3>2. QED
      BY <1>7, <1>8, <1>11, <2>1, <3>1, FallingWithout
  <2>5. r \in ListState /\ r.cache = t.cache /\ r.value = t.value /\ Linked(r, E)
    BY <1>7, <1>11, <2>1, <2>4, RemoveNodeIs
  <2>6. m' = w /\ s' = [r EXCEPT !.cache = @ \ {o}]
    BY <1>2, <1>9, <1>13, <1>15, <2>2 DEF o
  <2> HIDE DEF w, r
  <2>7. /\ s' \in ListState /\ s'.next = r.next /\ s'.prev = r.prev /\ s'.value = r.value
        /\ s'.cache = E
    <3>1. r.cache \ {o} = E /\ E \in SUBSET Key
      BY <1>11, <1>13, <2>5
    <3>2. s' = [r EXCEPT !.cache = E]
      BY <2>6, <3>1
    <3> HIDE DEF E
    <3>3. QED
      BY <2>5, <3>1, <3>2 DEF ListState
  <2>8. Linked(s', E)
    BY <2>5, <2>7 DEF Linked
  <2>9. Falling(s', E, w)
    <3>1. \A x \in E : r.next[x] \in E \cup {TailNode}
      BY <2>5 DEF Linked
    <3>2. QED
      BY <2>3, <2>4, <2>7, <3>1 DEF Falling
  <2>10. Cardinality(E) <= Capacity
    <3>1. Cardinality(E) = Cardinality(D) - 1
      BY <1>11, <2>1, FS_RemoveElement
    <3>2. QED
      BY <1>1, <1>11, <3>1
  <2>11. \A j \in E : s'.value[j] = w[j].val
    BY <1>10, <2>3, <2>5, <2>7
  <2> HIDE DEF E
  <2>12. QED
    BY <1>12, <2>3, <2>6, <2>7, <2>8, <2>9, <2>10, <2>11 DEF LruInv, Timed, Linked, Falling
<1>16. QED
  BY <1>14, <1>15

LEMMA LruStep ==
  ASSUME LruInv, kind = "lru", CacheCall
  PROVE  LruInv' /\ AnswersAgree'
<1>1. /\ ops \in Nat /\ Timed(m, ops) /\ Cardinality(DOMAIN m) <= Capacity
      /\ s \in ListState /\ s.cache = DOMAIN m
      /\ Linked(s, DOMAIN m) /\ Falling(s, DOMAIN m, m)
      /\ \A k \in DOMAIN m : s.value[k] = m[k].val
  BY DEF LruInv
<1>2. ASSUME NEW k \in Key, CacheGet(k)
      PROVE  LruInv' /\ AnswersAgree'
  <2>1. CASE k \in DOMAIN m
    <3>1. /\ s' = MoveToHead(s, k) /\ m' = Use(m, k, m[k].val) /\ ops' = ops + 1
          /\ ans' = <<s.value[k], m[k].val>>
      BY <1>1, <1>2, <2>1 DEF CacheGet, LruGet, Call
    <3>2. m[k].val \in Val \ {-1}
      BY <1>1, <2>1 DEF Timed
    <3>3. LruInv'
      BY <1>1, <2>1, <3>1, <3>2, LruGetKeeps
    <3>4. QED
      BY <1>1, <2>1, <3>1, <3>3 DEF AnswersAgree
  <2>2. CASE k \notin DOMAIN m
    <3>1. s' = s /\ m' = m /\ ops' = ops + 1 /\ ans' = <<-1, -1>>
      BY <1>1, <1>2, <2>2 DEF CacheGet, LruGet, Call
    <3>2. Timed(m, ops + 1) /\ ops + 1 \in Nat
      BY <1>1, TimedLater
    <3>3. QED
      BY <1>1, <3>1, <3>2 DEF LruInv, AnswersAgree, Timed, Linked, Falling
  <2>3. QED
    BY <2>1, <2>2
<1>3. ASSUME NEW k \in Key, NEW v \in Val \ {-1}, CachePut(k, v)
      PROVE  LruInv' /\ AnswersAgree'
  <2> DEFINE new == Use(m, k, v)
  <2>1. /\ s' = LruPut(s, k, v) /\ ops' = ops + 1 /\ ans' = <<Void, Void>>
        /\ m' = IF Cardinality(DOMAIN new) > Capacity THEN WithoutKey(new, Oldest(new)) ELSE new
    BY <1>3 DEF CachePut, Call
  <2>2. UsedNow(new, m, k, v, ops + 1)
    BY <1>1, UseIs
  <2>3. AnswersAgree'
    BY <2>1 DEF AnswersAgree
  <2>4. CASE k \notin DOMAIN m
    <3> HIDE DEF new
    <3>1. QED
      BY <2>1, <2>2, <2>3, <2>4, LruAdds
  <2>5. CASE k \in DOMAIN m
    <3> DEFINE l == [s EXCEPT !.value[k] = v]
               f == [s.value EXCEPT ![k] = v]
    <3>1. f \in [Key -> Int] /\ f[k] = v /\ \A j \in DOMAIN m \ {k} : f[j] = m[j].val
      <4>1. s.value \in [Key -> Int] /\ v \in Int /\ DOMAIN m \subseteq Key
        BY <1>1, ListStateIs, ValAssumption
      <4>2. QED
        BY <1>1, <4>1
    <3>2. l = [s EXCEPT !.value = f]
      OBVIOUS
    <3>3. s' = MoveToHead(l, k)
      BY <1>1, <2>1, <2>5 DEF LruPut
    <3>4. DOMAIN new = DOMAIN m
      BY <2>2, <2>5 DEF UsedNow
    <3>5. ~(Cardinality(DOMAIN m) > Capacity)
      <4>1. Cardinality(DOMAIN m) \in Nat
        BY <1>1, FS_CardinalityType DEF Timed
      <4>2. QED
        BY <1>1, <4>1, CacheAssumption
    <3>6. m' = new
      BY <2>1, <3>4, <3>5
    <3> HIDE DEF f, l
    <3>7. l \in ListState /\ l.next = s.next /\ l.prev = s.prev /\ l.cache = s.cache /\ l.value = f
      BY <1>1, <3>1, <3>2 DEF ListState
    <3>8. Linked(l, DOMAIN m) /\ Falling(l, DOMAIN m, m)
      BY <1>1, <3>7 DEF Linked, Falling
    <3>9. LruInv'
      <4>1. l.cache = DOMAIN m /\ l.value[k] = v /\ \A j \in DOMAIN m \ {k} : l.value[j] = m[j].val
        BY <1>1, <3>1, <3>7
      <4>2. QED
        BY <2>1, <2>5, <3>3, <3>6, <3>7, <3>8, <4>1, LruGetKeeps
    <3>10. QED
      BY <2>3, <3>9
  <2>6. QED
    BY <2>4, <2>5
<1>4. QED
  BY <1>2, <1>3 DEF CacheCall

-----------------------------------------------------------------------------
(* The queue with a maximum, which is right while no two elements are equal.*)

\* q holds the elements, big those that no later one exceeds, in their order: they
\* fall, and each element has one of them at its place or behind it.
Peaks(big, q) ==
  /\ \A i, j \in 1 .. Len(big) : i < j => big[j] < big[i]
  /\ \A i \in 1 .. Len(big) :
       \E p \in 1 .. Len(q) : q[p] = big[i] /\ \A j \in 1 .. Len(q) : j > p => q[j] < q[p]
  /\ \A j \in 1 .. Len(q) :
       \E i \in 1 .. Len(big), p \in 1 .. Len(q) : p >= j /\ q[p] = big[i] /\ q[j] <= big[i]

MaxQueueInv ==
  /\ m \in Seq(Val) /\ IsInjective(m)
  /\ s \in [nums : Seq(Val), maxQ : Seq(Val)]
  /\ s.nums = m /\ Peaks(s.maxQ, m)

LEMMA MaxQueueAnswers ==
  ASSUME MaxQueueInv
  PROVE  MaxValue(s) = IF m = <<>> THEN -1 ELSE Max(ToSet(m))
<1>1. m \in Seq(Val) /\ s.nums = m /\ s.maxQ \in Seq(Val) /\ Peaks(s.maxQ, m)
  BY DEF MaxQueueInv
<1>2. CASE m = <<>>
  BY <1>1, <1>2 DEF MaxValue
<1>3. CASE m # <<>>
  <2> DEFINE big == s.maxQ
             l == Len(m)
             n == Len(big)
  <2>1. /\ l \in Nat \ {0} /\ ToSet(m) = {m[i] : i \in 1 .. l} /\ ToSet(m) \subseteq Int
        /\ \A i \in 1 .. l : m[i] \in Int
    BY <1>1, <1>3, SeqIs, SetsOfInt
  <2>2. /\ n \in Nat /\ \A i \in 1 .. n : big[i] \in Int
        /\ big = <<>> <=> n = 0
        /\ big # <<>> => Head(big) = big[1]
    BY <1>1, SeqIs, SetsOfInt, TailIs
  <2>3. /\ \A i, j \in 1 .. n : i < j => big[j] < big[i]
        /\ \A i \in 1 .. n : \E p \in 1 .. l : m[p] = big[i]
        /\ \A j \in 1 .. l : \E i \in 1 .. n : m[j] <= big[i]
    BY <1>1 DEF Peaks
  <2> HIDE DEF big, l, n
  <2>4. n # 0 /\ 1 \in 1 .. n
    <3>1. 1 \in 1 .. l
      BY <2>1
    <3>2. QED
      BY <2>2, <2>3, <3>1
  <2>5. \A j \in 1 .. l : m[j] <= big[1]
    <3>1. ASSUME NEW j \in 1 .. l
          PROVE  m[j] <= big[1]
      <4>1. PICK i \in 1 .. n : m[j] <= big[i]
        BY <2>3
      <4>2. big[i] \in Int /\ big[1] \in Int
        BY <2>2, <2>4
      <4>3. big[i] <= big[1]
        <5>1. CASE i = 1
          BY <4>2, <5>1
        <5>2. CASE 1 < i
          <6>1. big[i] < big[1]
            BY <2>3, <2>4, <5>2
          <6>2. QED
            BY <4>2, <6>1
        <5>3. QED
          BY <5>1, <5>2
      <4>4. QED
        BY <2>1, <4>1, <4>2, <4>3
    <3>2. QED
      BY <3>1
  <2>6. big[1] \in ToSet(m) /\ \A y \in ToSet(m) : big[1] >= y
    <3>1. big[1] \in ToSet(m)
      BY <2>1, <2>3, <2>4
    <3>2. QED
      BY <2>1, <2>2, <2>4, <2>5, <3>1
  <2>7. Max(ToSet(m)) = big[1]
    BY <2>1, <2>6, MaxIs
  <2>8. MaxValue(s) = Head(big)
    BY <1>1, <1>3, <2>2, <2>4 DEF MaxValue, big
  <2>9. QED
    BY <1>3, <2>2, <2>4, <2>7, <2>8
<1>4. QED
  BY <1>2, <1>3

LEMMA MaxQueuePushKeeps ==
  ASSUME MaxQueueInv, NEW v \in Val, v \notin ToSet(m),
         s' = MaxQueuePush(s, v), m' = Append(m, v)
  PROVE  MaxQueueInv'
<1> DEFINE big == s.maxQ
           l == Len(m)
           n == Len(big)
           S == {0} \cup {j \in DOMAIN big : big[j] > v}
           k == Max(S)
           c == SubSeq(big, 1, k)
           big2 == Append(c, v)
           q == Append(m, v)
<1>1. m \in Seq(Val) /\ s.nums = m /\ big \in Seq(Val) /\ IsInjective(m) /\ Peaks(big, m)
  BY DEF MaxQueueInv
<1>2. /\ l \in Nat /\ DOMAIN m = 1 .. l /\ ToSet(m) = {m[i] : i \in 1 .. l}
      /\ \A i \in 1 .. l : m[i] \in Int
      /\ v \in Int
  BY <1>1, SeqIs, SetsOfInt, ValAssumption
<1>3. n \in Nat /\ DOMAIN big = 1 .. n /\ \A i \in 1 .. n : big[i] \in Int /\ big[i] \in Val
  BY <1>1, SeqIs, SetsOfInt
<1>4. /\ q \in Seq(Val) /\ Len(q) = l + 1 /\ q[l + 1] = v /\ \A i \in 1 .. l : q[i] = m[i]
  BY <1>1, AppendIs
<1>5. /\ \A i, j \in 1 .. n : i < j => big[j] < big[i]
      /\ \A i \in 1 .. n :
           \E p \in 1 .. l : m[p] = big[i] /\ \A j \in 1 .. l : j > p => m[j] < m[p]
      /\ \A j \in 1 .. l :
           \E i \in 1 .. n, p \in 1 .. l : p >= j /\ m[p] = big[i] /\ m[j] <= big[i]
  BY <1>1 DEF Peaks
<1>6. /\ s' = [nums |-> q, maxQ |-> big2] /\ m' = q
  BY <1>1 DEF MaxQueuePush
<1> HIDE DEF big, l, n, q
<1>7. k \in 0 .. n /\ (k # 0 => big[k] > v) /\ \A j \in 1 .. n : big[j] > v => j <= k
  <2>1. S \subseteq 0 .. n /\ S # {}
    BY <1>3
  <2>2. k \in S /\ \A y \in S : y <= k
    <3> HIDE DEF S
    <3> QED
      BY <1>3, <2>1, MaxOfPlaces
  <2>3. QED
    BY <1>3, <2>1, <2>2
<1> HIDE DEF k
<1>8. \A j \in 1 .. k : j \in 1 .. n /\ big[j] > v
  <2>1. ASSUME NEW j \in 1 .. k
        PROVE  j \in 1 .. n /\ big[j] > v
    <3>1. j \in 1 .. n /\ k \in 1 .. n /\ k # 0 /\ (j = k \/ j < k)
      BY <1>3, <1>7
    <3>2. big[k] > v /\ (j = k \/ big[k] < big[j])
      BY <1>5, <1>7, <3>1
    <3>3. big[j] \in Int /\ big[k] \in Int
      BY <1>3, <3>1
    <3>4. QED
      BY <1>2, <3>1, <3>2, <3>3
  <2>2. QED
    BY <2>1
<1>9. c \in Seq(Val) /\ Len(c) = k /\ \A i \in 1 .. k : c[i] = big[i]
  <2>1. 1 \in Int /\ k \in Int /\ \A i \in 1 .. k : big[i] \in Val
    BY <1>3, <1>7, <1>8
  <2>2. /\ c \in Seq(Val)
        /\ Len(c) = IF 1 <= k THEN k - 1 + 1 ELSE 0
        /\ \A i \in 1 .. k - 1 + 1 : c[i] = big[1 + i - 1]
    BY <2>1, SubSeqProperties
  <2>3. (IF 1 <= k THEN k - 1 + 1 ELSE 0) = k /\ k - 1 + 1 = k /\ \A i \in 1 .. k : 1 + i - 1 = i
    BY <1>7
  <2>4. QED
    BY <2>2, <2>3
<1> HIDE DEF c
<1>10. /\ big2 \in Seq(Val) /\ Len(big2) = k + 1 /\ big2[k + 1] = v
       /\ \A i \in 1 .. k : big2[i] = big[i]
  <2>1. /\ big2 \in Seq(Val) /\ Len(big2) = Len(c) + 1 /\ big2[Len(c) + 1] = v
        /\ \A i \in 1 .. Len(c) : big2[i] = c[i]
    BY <1>9, AppendIs
  <2>2. QED
    BY <1>9, <2>1
<1> HIDE DEF big2
<1>11. \A i \in 1 .. k + 1 : i = k + 1 \/ i \in 1 .. k
  BY <1>7
<1>12. \A i \in 1 .. l + 1 : i = l + 1 \/ i \in 1 .. l
  BY <1>2
<1>13. ASSUME NEW i \in 1 .. k + 1, NEW j \in 1 .. k + 1, i < j
       PROVE  big2[j] < big2[i]
  <2>1. i \in 1 .. k
    BY <1>7, <1>13
  <2>2. big2[i] = big[i] /\ i \in 1 .. n /\ big[i] > v /\ big[i] \in Int
    BY <1>3, <1>8, <1>10, <2>1
  <2>3. CASE j = k + 1
    BY <1>2, <1>10, <2>2, <2>3
  <2>4. CASE j \in 1 .. k
    <3>1. big2[j] = big[j] /\ j \in 1 .. n
      BY <1>8, <1>10, <2>4
    <3>2. QED
      BY <1>5, <1>13, <2>2, <3>1
  <2>5. QED
    BY <1>11, <2>3, <2>4
<1>14. ASSUME NEW i \in 1 .. k + 1
       PROVE  \E p \in 1 .. l + 1 :
                q[p] = big2[i] /\ \A j \in 1 .. l + 1 : j > p => q[j] < q[p]
  <2>1. CASE i = k + 1
    <3>1. l + 1 \in 1 .. l + 1 /\ q[l + 1] = big2[i] /\ \A j \in 1 .. l + 1 : ~(j > l + 1)
      BY <1>2, <1>4, <1>10, <2>1
    <3>2. QED
      BY <3>1
  <2>2. CASE i \in 1 .. k
    <3>1. i \in 1 .. n /\ big2[i] = big[i] /\ big[i] > v
      BY <1>8, <1>10, <2>2
    <3>2. PICK p \in 1 .. l : m[p] = big[i] /\ \A j \in 1 .. l : j > p => m[j] < m[p]
      BY <1>5, <3>1
    <3>3. p \in 1 .. l + 1 /\ q[p] = big2[i]
      BY <1>2, <1>4, <3>1, <3>2
    <3>4. ASSUME NEW j \in 1 .. l + 1, j > p
          PROVE  q[j] < q[p]
      <4>1. CASE j = l + 1
        BY <1>2, <1>3, <1>4, <3>1, <3>3, <4>1
      <4>2. CASE j \in 1 .. l
        BY <1>4, <3>2, <3>4, <4>2
      <4>3. QED
        BY <1>12, <4>1, <4>2
    <3>5. QED
      BY <3>3, <3>4
  <2>3. QED
    BY <1>11, <2>1, <2>2
<1>15. ASSUME NEW j \in 1 .. l + 1
       PROVE  \E i \in 1 .. k + 1, p \in 1 .. l + 1 :
                p >= j /\ q[p] = big2[i] /\ q[j] <= big2[i]
  <2>1. /\ k + 1 \in 1 .. k + 1 /\ l + 1 \in 1 .. l + 1 /\ l + 1 >= j
        /\ q[l + 1] = v /\ big2[k + 1] = v
    BY <1>2, <1>4, <1>7, <1>10
  <2>2. CASE j = l + 1
    BY <1>2, <2>1, <2>2
  <2>3. CASE j \in 1 .. l
    <3>1. PICK i \in 1 .. n, p \in 1 .. l : p >= j /\ m[p] = big[i] /\ m[j] <= big[i]
      BY <1>5, <2>3
    <3>2. q[j] = m[j] /\ q[p] = m[p] /\ p \in 1 .. l + 1 /\ m[j] \in Int /\ big[i] \in Int
      BY <1>2, <1>3, <1>4, <2>3
    <3>3. CASE i \in 1 .. k
      <4>1. i \in 1 .. k + 1 /\ big2[i] = big[i]
        BY <1>7, <1>10, <3>3
      <4>2. QED
        BY <3>1, <3>2, <4>1
    <3>4. CASE i \notin 1 .. k
      <4>1. ~(i <= k)
        BY <3>4
      <4>2. ~(big[i] > v)
        BY <1>7, <4>1
      <4>3. q[j] <= v
        BY <1>2, <3>1, <3>2, <4>2
      <4>4. QED
        BY <2>1, <4>3
    <3>5. QED
      BY <3>3, <3>4
  <2>4. QED
    BY <1>12, <2>2, <2>3
<1>16. Peaks(big2, q)
  BY <1>4, <1>10, <1>13, <1>14, <1>15 DEF Peaks
<1>17. IsInjective(q)
  <2>1. \A i \in 1 .. l : q[i] # v
    BY <1>2, <1>4
  <2>2. ASSUME NEW i \in 1 .. l + 1, NEW j \in 1 .. l + 1, q[i] = q[j]
        PROVE  i = j
    <3>1. CASE i = l + 1 \/ j = l + 1
      BY <1>4, <1>12, <2>1, <2>2, <3>1
    <3>2. CASE i \in 1 .. l /\ j \in 1 .. l
      BY <1>1, <1>2, <1>4, <2>2, <3>2 DEF IsInjective
    <3>3. QED
      BY <1>12, <3>1, <3>2
  <2>3. DOMAIN q = 1 .. l + 1
    BY <1>4, SeqIs
  <2>4. QED
    BY <2>2, <2>3 DEF IsInjective
<1>18. s' \in [nums : Seq(Val), maxQ : Seq(Val)] /\ s'.nums = q /\ s'.maxQ = big2
  BY <1>4, <1>6, <1>10
<1> HIDE DEF Peaks
<1>19. m' \in Seq(Val) /\ IsInjective(m') /\ s'.nums = m' /\ Peaks(s'.maxQ, m')
  BY <1>4, <1>6, <1>16, <1>17, <1>18
<1>20. QED
  BY <1>18, <1>19 DEF MaxQueueInv, IsInjective, Peaks

LEMMA MaxQueuePopKeeps ==
  ASSUME MaxQueueInv, m # <<>>, s' = MaxQueuePop(s)[1], m' = Tail(m)
  PROVE  MaxQueueInv' /\ MaxQueuePop(s)[2] = Head(m)
<1> DEFINE big == s.maxQ
           l == Len(m)
           n == Len(big)
           q == Tail(m)
           big2 == IF big # <<>> /\ Head(big) = Head(m) THEN Tail(big) ELSE big
<1>1. m \in Seq(Val) /\ s.nums = m /\ big \in Seq(Val) /\ IsInjective(m) /\ Peaks(big, m)
  BY DEF MaxQueueInv
<1>2. /\ l \in Nat \ {0} /\ DOMAIN m = 1 .. l
      /\ \A i \in 1 .. l : m[i] \in Int
      /\ Head(m) = m[1] /\ q \in Seq(Val) /\ Len(q) = l - 1 /\ \A i \in 1 .. l - 1 : q[i] = m[i + 1]
  BY <1>1, TailIs, SeqIs, SetsOfInt
<1>3. /\ n \in Nat /\ DOMAIN big = 1 .. n /\ \A i \in 1 .. n : big[i] \in Int
      /\ big = <<>> <=> n = 0
      /\ big # <<>> => /\ Head(big) = big[1] /\ Tail(big) \in Seq(Val) /\ Len(Tail(big)) = n - 1
                       /\ \A i \in 1 .. n - 1 : Tail(big)[i] = big[i + 1]
  BY <1>1, TailIs, SeqIs, SetsOfInt
<1>4. /\ \A i, j \in 1 .. n : i < j => big[j] < big[i]
      /\ \A i \in 1 .. n :
           \E p \in 1 .. l : m[p] = big[i] /\ \A j \in 1 .. l : j > p => m[j] < m[p]
      /\ \A j \in 1 .. l :
           \E i \in 1 .. n, p \in 1 .. l : p >= j /\ m[p] = big[i] /\ m[j] <= big[i]
  BY <1>1 DEF Peaks
<1>5. MaxQueuePop(s) = <<[nums |-> q, maxQ |-> big2], m[1]>>
  BY <1>1, <1>2 DEF MaxQueuePop
<1>6. s' = [nums |-> q, maxQ |-> big2] /\ m' = q
  BY <1>5
<1> HIDE DEF l, n, q
<1>7. \A i \in 1 .. l, j \in 1 .. l : m[i] = m[j] => i = j
  BY <1>1, <1>2 DEF IsInjective
\* Which element of big stays at which place.
<1>8. \E d \in {0, 1} :
        /\ big2 \in Seq(Val) /\ Len(big2) = n - d /\ n - d \in Nat
        /\ \A i \in 1 .. n - d : i + d \in 1 .. n /\ big2[i] = big[i + d]
        /\ \A i \in 1 .. n : big[i] # m[1] => i - d \in 1 .. n - d /\ i - d + d = i
        /\ \A i \in 1 .. n - d : big[i + d] # m[1]
  <2>1. CASE big # <<>> /\ Head(big) = Head(m)
    <3>1. big2 = Tail(big) /\ n # 0 /\ big[1] = m[1]
      BY <1>2, <1>3, <2>1
    <3>2. \A i \in 1 .. n : i # 1 => big[i] # m[1]
      <4>1. ASSUME NEW i \in 1 .. n, i # 1
            PROVE  big[i] # m[1]
        <5>1. 1 \in 1 .. n /\ 1 < i
          BY <1>3, <3>1, <4>1
        <5>2. big[i] < big[1] /\ big[i] \in Int /\ big[1] \in Int
          BY <1>3, <1>4, <5>1
        <5>3. QED
          BY <3>1, <5>2
      <4>2. QED
        BY <4>1
    <3>3. /\ big2 \in Seq(Val) /\ Len(big2) = n - 1 /\ n - 1 \in Nat
          /\ \A i \in 1 .. n - 1 : big2[i] = big[i + 1]
      BY <1>3, <2>1, <3>1
    <3>4. /\ \A i \in 1 .. n - 1 : i + 1 \in 1 .. n /\ i + 1 # 1
          /\ \A i \in 1 .. n : i # 1 => i - 1 \in 1 .. n - 1 /\ i - 1 + 1 = i
      BY <1>3
    <3>5. QED
      BY <3>1, <3>2, <3>3, <3>4
  <2>2. CASE ~(big # <<>> /\ Head(big) = Head(m))
    <3>1. big2 = big
      BY <2>2
    <3>2. \A i \in 1 .. n : big[i] # m[1]
      <4>1. SUFFICES ASSUME NEW i \in 1 .. n, big[i] = m[1] PROVE FALSE
        OBVIOUS
      <4>2. 1 \in 1 .. n /\ 1 \in 1 .. l /\ big[1] # m[1]
        BY <1>2, <1>3, <2>2
      <4>3. 1 < i
        BY <4>1, <4>2
      <4>4. big[i] < big[1] /\ big[1] \in Int /\ big[i] \in Int
        BY <1>3, <1>4, <4>2, <4>3
      <4>5. PICK p \in 1 .. l : m[p] = big[1]
        BY <1>4, <4>2
      <4>6. PICK o \in 1 .. l : m[o] = big[i] /\ \A j \in 1 .. l : j > o => m[j] < m[o]
        BY <1>4
      <4>7. o = 1 /\ p # 1
        BY <1>7, <4>1, <4>2, <4>5, <4>6
      <4>8. m[p] < m[1]
        BY <4>6, <4>7
      <4>9. QED
        BY <4>1, <4>4, <4>5, <4>8
    <3>3. /\ n - 0 = n /\ \A i \in 1 .. n : i + 0 = i /\ i - 0 = i
      BY <1>3
    <3>4. big2 \in Seq(Val) /\ Len(big2) = n - 0 /\ n - 0 \in Nat
      BY <1>1, <1>3, <3>1, <3>3 DEF n
    <3>5. \A i \in 1 .. n : i + 0 \in 1 .. n /\ big2[i] = big[i + 0] /\ i - 0 \in 1 .. n - 0 /\ i - 0 + 0 = i
      BY <3>1, <3>3
    <3>6. \A i \in 1 .. n - 0 : big[i + 0] # m[1]
      BY <3>2, <3>3
    <3>7. QED
      BY <3>3, <3>4, <3>5, <3>6
  <2>3. QED
    BY <2>1, <2>2
<1>9. PICK d \in {0, 1} :
        /\ big2 \in Seq(Val) /\ Len(big2) = n - d /\ n - d \in Nat
        /\ \A i \in 1 .. n - d : i + d \in 1 .. n /\ big2[i] = big[i + d]
        /\ \A i \in 1 .. n : big[i] # m[1] => i - d \in 1 .. n - d /\ i - d + d = i
        /\ \A i \in 1 .. n - d : big[i + d] # m[1]
  BY <1>8
<1> HIDE DEF big, big2
<1> DEFINE n2 == n - d
           l2 == l - 1
<1>10. n2 \in Nat /\ l2 \in Nat /\ d \in Int
  BY <1>2, <1>9
<1>11. \A i \in 1 .. l2 : i + 1 \in 1 .. l /\ q[i] = m[i + 1] /\ m[i + 1] \in Int
  BY <1>2
<1>12. \A p \in 1 .. l : p # 1 => p - 1 \in 1 .. l2 /\ p - 1 + 1 = p /\ q[p - 1] = m[p]
  <2>1. \A p \in 1 .. l : p # 1 => p - 1 \in 1 .. l2 /\ p - 1 + 1 = p
    BY <1>2
  <2>2. QED
    BY <1>11, <2>1
<1>13. ASSUME NEW i \in 1 .. n2, NEW j \in 1 .. n2, i < j
       PROVE  big2[j] < big2[i]
  <2>1. i + d \in 1 .. n /\ j + d \in 1 .. n /\ i + d < j + d
    BY <1>9, <1>10, <1>13
  <2>2. QED
    BY <1>4, <1>9, <2>1, Zenon
<1>14. ASSUME NEW i \in 1 .. n2
       PROVE  \E p \in 1 .. l2 : q[p] = big2[i] /\ \A j \in 1 .. l2 : j > p => q[j] < q[p]
  <2>1. i + d \in 1 .. n /\ big2[i] = big[i + d] /\ big[i + d] # m[1]
    BY <1>9
  <2>2. PICK p \in 1 .. l : m[p] = big[i + d] /\ \A j \in 1 .. l : j > p => m[j] < m[p]
    BY <1>4, <2>1
  <2>3. p # 1
    BY <2>1, <2>2
  <2>4. p - 1 \in 1 .. l2 /\ q[p - 1] = m[p]
    BY <1>12, <2>3
  <2>5. ASSUME NEW j \in 1 .. l2, j > p - 1
        PROVE  q[j] < q[p - 1]
    <3>1. j + 1 \in 1 .. l /\ j + 1 > p /\ q[j] = m[j + 1]
      BY <1>11, <2>5
    <3>2. QED
      BY <2>2, <2>4, <3>1
  <2>6. QED
    BY <2>1, <2>2, <2>4, <2>5
<1>15. ASSUME NEW j \in 1 .. l2
       PROVE  \E i \in 1 .. n2, p \in 1 .. l2 : p >= j /\ q[p] = big2[i] /\ q[j] <= big2[i]
  <2>1. j + 1 \in 1 .. l /\ q[j] = m[j + 1] /\ j + 1 # 1 /\ 1 \in 1 .. l
    BY <1>2, <1>11
  <2>2. PICK i \in 1 .. n, p \in 1 .. l : p >= j + 1 /\ m[p] = big[i] /\ m[j + 1] <= big[i]
    BY <1>4, <2>1
  <2>3. p # 1 /\ p - 1 \in 1 .. l2 /\ q[p - 1] = m[p] /\ p - 1 >= j
    <3>1. p # 1 /\ p - 1 >= j
      BY <2>2
    <3>2. QED
      BY <1>12, <3>1
  <2>4. big[i] # m[1]
    BY <1>7, <2>1, <2>2, <2>3
  <2>5. i - d \in 1 .. n2 /\ big2[i - d] = big[i]
    BY <1>9, <2>4
  <2>6. QED
    BY <2>1, <2>2, <2>3, <2>5
<1>16. Peaks(big2, q)
  BY <1>2, <1>9, <1>13, <1>14, <1>15 DEF Peaks
<1>17. IsInjective(q)
  <2>1. DOMAIN q = 1 .. l2
    BY <1>2, SeqIs
  <2>2. ASSUME NEW i \in 1 .. l2, NEW j \in 1 .. l2, q[i] = q[j]
        PROVE  i = j
    <3>1. i + 1 = j + 1
      BY <1>7, <1>11, <2>2
    <3>2. QED
      BY <3>1
  <2>3. QED
    BY <2>1, <2>2 DEF IsInjective
<1>18. s' \in [nums : Seq(Val), maxQ : Seq(Val)] /\ s'.nums = q /\ s'.maxQ = big2
  BY <1>2, <1>6, <1>9
<1>19. m' \in Seq(Val) /\ IsInjective(m') /\ s'.nums = m' /\ Peaks(s'.maxQ, m')
  BY <1>2, <1>6, <1>16, <1>17, <1>18
<1>20. MaxQueueInv'
  BY <1>18, <1>19 DEF MaxQueueInv, IsInjective, Peaks
<1>21. MaxQueuePop(s)[2] = Head(m)
  BY <1>2, <1>5
<1>22. QED
  BY <1>20, <1>21

LEMMA MaxQueueStep ==
  ASSUME ~Repeats, MaxQueueInv, MaxQueueCall
  PROVE  MaxQueueInv' /\ AnswersAgree'
<1> DEFINE got == MaxQueuePop(s)
<1>1. CASE \E v \in Val : (Repeats \/ v \notin ToSet(m)) /\ Call(MaxQueuePush(s, v), Append(m, v), Void, Void)
  BY <1>1, MaxQueuePushKeeps DEF Call, AnswersAgree
<1>2. CASE Call(s, m, MaxValue(s), IF m = <<>> THEN -1 ELSE Max(ToSet(m)))
  <2>1. s' = s /\ m' = m /\ AnswersAgree'
    BY <1>2, MaxQueueAnswers DEF Call, AnswersAgree
  <2>2. QED
    BY <2>1, Zenon DEF MaxQueueInv, Peaks, IsInjective
<1>3. CASE m = <<>> /\ Call(got[1], m, got[2], -1)
  <2>1. got = <<s, -1>>
    BY <1>3 DEF MaxQueuePop, MaxQueueInv
  <2>2. s' = s /\ m' = m /\ AnswersAgree'
    BY <1>3, <2>1 DEF Call, AnswersAgree
  <2>3. QED
    BY <2>2 DEF MaxQueueInv, Peaks, IsInjective
<1>4. CASE m # <<>> /\ Call(got[1], Tail(m), got[2], Head(m))
  BY <1>4, MaxQueuePopKeeps DEF Call, AnswersAgree
<1>5. QED
  BY <1>1, <1>2, <1>3, <1>4 DEF MaxQueueCall

-----------------------------------------------------------------------------
(* KthLargest.                                                             *)

\* The heap holds pairs of a value and its place, as many as Rank allows, and what is
\* not in it is no larger than what is.
Kept(heap, q) ==
  /\ IsFiniteSet(heap)
  /\ Cardinality(heap) = IF Len(q) < Rank THEN Len(q) ELSE Rank
  /\ \A e \in heap : e[2] \in 1 .. Len(q) /\ e = <<q[e[2]], e[2]>>
  /\ \A e \in heap, j \in 1 .. Len(q) : <<q[j], j>> \notin heap => q[j] <= e[1]

KthInv == m \in Seq(Val) /\ s = [n |-> Len(m), heap |-> s.heap] /\ Kept(s.heap, m)

LEMMA PlacesOfHeap ==
  ASSUME NEW q, NEW heap, IsFiniteSet(heap), \A e \in heap : e = <<q[e[2]], e[2]>>
  PROVE  IsFiniteSet({e[2] : e \in heap}) /\ Cardinality({e[2] : e \in heap}) = Cardinality(heap)
<1> DEFINE J == {e[2] : e \in heap}
           f == [e \in heap |-> e[2]]
<1>1. f \in [heap -> J] /\ \A e \in heap : f[e] = e[2]
  OBVIOUS
<1>2. \A j \in J : \E e \in heap : f[e] = j
  OBVIOUS
<1>3. \A d, e \in heap : f[d] = f[e] => d = e
  <2>1. ASSUME NEW d \in heap, NEW e \in heap, f[d] = f[e]
        PROVE  d = e
    <3>1. d = <<q[d[2]], d[2]>> /\ e = <<q[e[2]], e[2]>> /\ d[2] = e[2]
      BY <2>1
    <3>2. QED
      BY <3>1
  <2>2. QED
    BY <2>1
<1> HIDE DEF J, f
<1>4. f \in Surjection(heap, J)
  BY <1>1, <1>2 DEF Surjection
<1>5. f \in Injection(heap, J)
  BY <1>1, <1>3 DEF Injection, IsInjective
<1>6. IsFiniteSet(J) /\ Cardinality(J) = Cardinality(heap)
  BY <1>4, <1>5, FS_Surjection
<1>7. QED
  BY <1>6 DEF J

\* The top of such a heap.
LEMMA TopIs ==
  ASSUME NEW q \in Seq(Val), NEW heap, Kept(heap, q), heap # {}
  PROVE  HeapTop(heap) \in heap /\ \A e \in heap : HeapTop(heap)[1] <= e[1]
<1>1. \A e \in heap : e[2] \in 1 .. Len(q) /\ e = <<q[e[2]], e[2]>>
  BY DEF Kept
<1>2. \A i \in 1 .. Len(q) : q[i] \in Int
  BY SetsOfInt
<1>3. \A e \in heap : e[1] \in Int
  <2>1. ASSUME NEW e \in heap
        PROVE  e[1] \in Int
    <3>1. e[2] \in 1 .. Len(q) /\ e = <<q[e[2]], e[2]>>
      BY <1>1
    <3>2. e[1] = q[e[2]]
      BY <3>1
    <3>3. QED
      BY <1>2, <3>1, <3>2
  <2>2. QED
    BY <2>1
<1> DEFINE f == [e \in heap |-> e[1]]
<1>4. IsFiniteSet(heap) /\ \A e \in heap : f[e] = e[1] /\ f[e] \in Int
  BY <1>3 DEF Kept
<1>5. PICK t \in heap : \A e \in heap : f[t] <= f[e]
  <2> HIDE DEF f
  <2> QED
    BY <1>4, LowestOf
<1>6. \A e \in heap : t[1] <= e[1]
  BY <1>4, <1>5
<1>7. QED
  BY <1>6 DEF HeapTop

\* The top of such a heap is the answer, and the only one.
LEMMA TopIsKthLargest ==
  ASSUME NEW q \in Seq(Val), NEW heap, Kept(heap, q), heap # {}
  PROVE  KthLargest(q) = HeapTop(heap)[1]
<1> DEFINE l == Len(q)
           r == Min({Rank, l})
           top == HeapTop(heap)
           t == top[1]
           Above(x) == {j \in DOMAIN q : q[j] > x}
           AtLeast(x) == {j \in DOMAIN q : q[j] >= x}
           Right(x) == Cardinality(Above(x)) < r /\ Cardinality(AtLeast(x)) >= r
           J == {e[2] : e \in heap}
<1>1. /\ l \in Nat /\ DOMAIN q = 1 .. l /\ ToSet(q) = {q[i] : i \in 1 .. l}
      /\ \A i \in 1 .. l : q[i] \in Int
  BY SeqIs, SetsOfInt
<1>2. /\ IsFiniteSet(heap) /\ Cardinality(heap) = IF l < Rank THEN l ELSE Rank
      /\ \A e \in heap : e[2] \in 1 .. l /\ e = <<q[e[2]], e[2]>>
      /\ \A e \in heap, j \in 1 .. l : <<q[j], j>> \notin heap => q[j] <= e[1]
  BY DEF Kept
<1>3. top \in heap /\ \A e \in heap : top[1] <= e[1]
  BY TopIs
<1>4. r = Cardinality(heap) /\ r \in Nat
  <2>1. r = IF Rank <= l THEN Rank ELSE l
    BY <1>1, MinOfTwo, RankAssumption
  <2> HIDE DEF r, l
  <2>2. QED
    BY <1>1, <1>2, <2>1, RankAssumption
<1> HIDE DEF l, r, top
<1>5. t = q[top[2]] /\ top[2] \in 1 .. l /\ top = <<t, top[2]>>
  BY <1>2, <1>3
<1>6. t \in ToSet(q) /\ t \in Int
  BY <1>1, <1>5
<1> HIDE DEF t
<1>7. IsFiniteSet(1 .. l)
  BY <1>1, FS_Interval
<1>8. \A x : /\ IsFiniteSet(Above(x)) /\ Cardinality(Above(x)) \in Nat
             /\ IsFiniteSet(AtLeast(x)) /\ Cardinality(AtLeast(x)) \in Nat
  <2>1. \A x : Above(x) \in SUBSET (1 .. l) /\ AtLeast(x) \in SUBSET (1 .. l)
    BY <1>1
  <2>2. QED
    BY <1>7, <2>1, FS_Subset, FS_CardinalityType
<1>9. IsFiniteSet(J) /\ Cardinality(J) = r
  BY <1>2, <1>4, PlacesOfHeap
<1>10. Cardinality(AtLeast(t)) >= r
  <2>1. ASSUME NEW e \in heap
        PROVE  e[2] \in AtLeast(t)
    <3>1. e[2] \in 1 .. l /\ e = <<q[e[2]], e[2]>> /\ t <= e[1]
      BY <1>2, <1>3 DEF t
    <3>2. q[e[2]] = e[1] /\ q[e[2]] \in Int
      BY <1>1, <3>1
    <3>3. QED
      BY <1>1, <1>6, <3>1, <3>2
  <2>2. J \in SUBSET AtLeast(t)
    BY <2>1
  <2> HIDE DEF J, AtLeast
  <2>3. Cardinality(J) <= Cardinality(AtLeast(t))
    BY <1>8, <2>2, FS_Subset
  <2>4. QED
    BY <1>4, <1>8, <1>9, <2>3
<1>11. Cardinality(Above(t)) < r
  <2>1. ASSUME NEW j \in Above(t)
        PROVE  j \in J \ {top[2]}
    <3>1. j \in 1 .. l /\ q[j] > t /\ q[j] \in Int
      BY <1>1
    <3>2. <<q[j], j>> \in heap
      <4>1. ~(q[j] <= top[1])
        BY <1>6, <3>1 DEF t
      <4>2. QED
        BY <1>2, <1>3, <3>1, <4>1
    <3>3. <<q[j], j>>[2] = j
      OBVIOUS
    <3>4. j \in J
      BY <3>2, <3>3
    <3>5. j # top[2]
      BY <1>5, <1>6, <3>1
    <3>6. QED
      BY <3>4, <3>5
  <2>2. top[2] \in J
    BY <1>3
  <2>3. Above(t) \in SUBSET (J \ {top[2]})
    BY <2>1
  <2> HIDE DEF J, Above
  <2>4. IsFiniteSet(J \ {top[2]}) /\ Cardinality(J \ {top[2]}) = r - 1
    BY <1>9, <2>2, FS_RemoveElement
  <2>5. Cardinality(Above(t)) <= Cardinality(J \ {top[2]})
    BY <2>3, <2>4, FS_Subset
  <2>6. Cardinality(Above(t)) \in Nat
    BY <1>8
  <2>7. QED
    BY <1>4, <2>4, <2>5, <2>6
<1>12. ASSUME NEW x \in ToSet(q), NEW y \in ToSet(q), Right(x), Right(y), x < y
       PROVE  FALSE
  <2>1. x \in Int /\ y \in Int
    BY <1>1
  <2>2. AtLeast(y) \in SUBSET Above(x)
    BY <1>1, <1>12, <2>1
  <2> HIDE DEF Above, AtLeast
  <2>3. Cardinality(AtLeast(y)) <= Cardinality(Above(x))
    BY <1>8, <2>2, FS_Subset
  <2>4. QED
    BY <1>4, <1>8, <1>12, <2>3
<1>13. \A x \in ToSet(q) : Right(x) => x = t
  <2>1. Right(t)
    BY <1>10, <1>11
  <2> HIDE DEF Right
  <2>2. ASSUME NEW x \in ToSet(q), Right(x)
        PROVE  x = t
    <3>1. x \in Int /\ ~(x < t) /\ ~(t < x)
      BY <1>1, <1>6, <1>12, <2>1, <2>2
    <3>2. QED
      BY <1>6, <3>1
  <2>3. QED
    BY <2>2
<1>14. KthLargest(q) = CHOOSE x \in ToSet(q) : Right(x)
  BY DEF KthLargest, r, l
<1>15. Right(t)
  BY <1>10, <1>11
<1> HIDE DEF Right
<1>16. (CHOOSE x \in ToSet(q) : Right(x)) = t
  BY <1>6, <1>13, <1>15
<1>17. QED
  BY <1>14, <1>16 DEF t, top

LEMMA KthKeeps ==
  ASSUME KthInv, NEW v \in Val
  PROVE  Kept(KthAdd(s, v).heap, Append(m, v)) /\ KthAdd(s, v).heap # {}
<1> DEFINE heap == s.heap
           n == Len(m)
           q == Append(m, v)
           new == KthAdd(s, v).heap
           top == HeapTop(heap)
           added == <<v, n + 1>>
<1>1. m \in Seq(Val) /\ s.n = n /\ Kept(heap, m)
  BY DEF KthInv
<1>2. /\ n \in Nat /\ \A i \in 1 .. n : m[i] \in Int
      /\ v \in Int
  BY <1>1, SeqIs, SetsOfInt, ValAssumption
<1>3. /\ IsFiniteSet(heap) /\ Cardinality(heap) = IF n < Rank THEN n ELSE Rank
      /\ \A e \in heap : e[2] \in 1 .. n /\ e = <<m[e[2]], e[2]>>
      /\ \A e \in heap, j \in 1 .. n : <<m[j], j>> \notin heap => m[j] <= e[1]
  BY <1>1 DEF Kept
<1>4. q \in Seq(Val) /\ Len(q) = n + 1 /\ q[n + 1] = v /\ \A i \in 1 .. n : q[i] = m[i]
  BY <1>1, AppendIs
<1>5. new = IF Cardinality(heap) < Rank THEN heap \cup {added}
            ELSE IF v > top[1] THEN (heap \ {top}) \cup {added}
            ELSE heap
  BY <1>1 DEF KthAdd
<1>6. added \notin heap /\ added = <<q[n + 1], n + 1>> /\ added[1] = v /\ added[2] = n + 1
  <2>1. \A e \in heap : e[2] # n + 1
    BY <1>2, <1>3
  <2>2. QED
    BY <1>4, <2>1
<1>7. Cardinality(heap) >= Rank => heap # {}
  BY <1>3, FS_EmptySet, RankAssumption
<1>8. Cardinality(heap) >= Rank => top \in heap /\ \A e \in heap : top[1] <= e[1]
  BY <1>1, <1>7, TopIs
<1> HIDE DEF heap, n, q, new, top
<1> SUFFICES Kept(new, q) /\ new # {}
  BY DEF new, q
<1>9. \A i \in 1 .. n + 1 : i = n + 1 \/ i \in 1 .. n
  BY <1>2
<1>10. \A e \in heap : e[1] \in Int /\ e[1] = m[e[2]] /\ e[2] \in 1 .. n
  <2>1. ASSUME NEW e \in heap
        PROVE  e[1] \in Int /\ e[1] = m[e[2]] /\ e[2] \in 1 .. n
    <3>1. e[2] \in 1 .. n /\ e = <<m[e[2]], e[2]>>
      BY <1>3
    <3>2. e[1] = m[e[2]]
      BY <3>1
    <3>3. QED
      BY <1>2, <3>1, <3>2
  <2>2. QED
    BY <2>1
\* What a new heap must satisfy besides having the right size.
<1>11. ASSUME new # {}, IsFiniteSet(new), new \subseteq heap \cup {added},
              Cardinality(new) = IF n + 1 < Rank THEN n + 1 ELSE Rank,
              \A e \in new : added \notin new => v <= e[1],
              \A e \in new, d \in heap : d \notin new => d[1] <= e[1],
              \A j \in 1 .. n : <<m[j], j>> \notin heap => (added \in new => m[j] <= v)
       PROVE  Kept(new, q) /\ new # {}
  <2> HIDE DEF added
  <2>1. \A e \in new : e[2] \in 1 .. n + 1 /\ e = <<q[e[2]], e[2]>>
    <3>1. ASSUME NEW e \in new
          PROVE  e[2] \in 1 .. n + 1 /\ e = <<q[e[2]], e[2]>>
      <4>1. CASE e = added
        BY <1>2, <1>6, <4>1
      <4>2. CASE e \in heap
        <5>1. e[2] \in 1 .. n /\ e = <<m[e[2]], e[2]>>
          BY <1>3, <4>2
        <5>2. q[e[2]] = m[e[2]] /\ e[2] \in 1 .. n + 1
          BY <1>2, <1>4, <5>1
        <5>3. QED
          BY <5>1, <5>2
      <4>3. QED
        BY <1>11, <4>1, <4>2
    <3>2. QED
      BY <3>1
  <2>2. ASSUME NEW e \in new, NEW j \in 1 .. n + 1, <<q[j], j>> \notin new
        PROVE  q[j] <= e[1]
    <3>1. CASE j = n + 1
      <4>1. added \notin new /\ q[j] = v
        BY <1>4, <1>6, <2>2, <3>1
      <4>2. QED
        BY <1>11, <4>1
    <3>2. CASE j \in 1 .. n
      <4>1. q[j] = m[j] /\ <<m[j], j>> \notin new
        BY <1>4, <2>2, <3>2
      <4>2. CASE <<m[j], j>> \in heap
        <5>1. <<m[j], j>>[1] = m[j]
          OBVIOUS
        <5>2. QED
          BY <1>11, <4>1, <4>2, <5>1
      <4>3. CASE <<m[j], j>> \notin heap
        <5>1. CASE e \in heap
          BY <1>3, <3>2, <4>1, <4>3, <5>1
        <5>2. CASE e = added
          BY <1>6, <1>11, <3>2, <4>1, <4>3, <5>2
        <5>3. QED
          BY <1>11, <5>1, <5>2
      <4>4. QED
        BY <4>2, <4>3
    <3>3. QED
      BY <1>9, <3>1, <3>2
  <2>3. QED
    BY <1>4, <1>11, <2>1, <2>2 DEF Kept
<1>12. CASE Cardinality(heap) < Rank
  <2>1. new = heap \cup {added} /\ n < Rank /\ Cardinality(heap) = n
    BY <1>2, <1>3, <1>5, <1>12, RankAssumption
  <2>2. IsFiniteSet(new) /\ Cardinality(new) = n + 1
    <3>1. IsFiniteSet(heap \cup {added}) /\ Cardinality(heap \cup {added}) = Cardinality(heap) + 1
      <4> HIDE DEF added
      <4> QED
        BY <1>3, <1>6, FS_AddElement
    <3>2. QED
      BY <2>1, <3>1
  <2>3. n + 1 = IF n + 1 < Rank THEN n + 1 ELSE Rank
    BY <1>2, <2>1, RankAssumption
  <2>4. \A j \in 1 .. n : <<m[j], j>> \in heap
    <3> DEFINE J == {e[2] : e \in heap}
    <3>1. IsFiniteSet(J) /\ Cardinality(J) = n
      BY <1>3, <2>1, PlacesOfHeap
    <3>2. J \in SUBSET (1 .. n)
      BY <1>10
    <3>3. IsFiniteSet(1 .. n) /\ Cardinality(1 .. n) = n
      <4>1. (IF 1 > n THEN 0 ELSE n - 1 + 1) = n
        BY <1>2
      <4>2. QED
        BY <1>2, <4>1, FS_Interval
    <3>4. J = 1 .. n
      <4> HIDE DEF J
      <4> QED
        BY <3>1, <3>2, <3>3, FS_Subset
    <3>5. ASSUME NEW j \in 1 .. n
          PROVE  <<m[j], j>> \in heap
      <4>1. PICK e \in heap : e[2] = j
        BY <3>4
      <4>2. QED
        BY <1>3, <4>1
    <3>6. QED
      BY <3>5
  <2>5. new # {} /\ new \subseteq heap \cup {added} /\ added \in new /\ heap \subseteq new
    BY <2>1
  <2>6. QED
    BY <1>11, <2>2, <2>3, <2>4, <2>5
<1>13. CASE ~(Cardinality(heap) < Rank)
  <2>1. /\ Cardinality(heap) = Rank /\ Rank = IF n + 1 < Rank THEN n + 1 ELSE Rank
        /\ heap # {} /\ top \in heap /\ \A e \in heap : top[1] <= e[1]
    BY <1>2, <1>3, <1>7, <1>8, <1>13, RankAssumption
  <2>2. CASE v > top[1]
    <3>1. new = (heap \ {top}) \cup {added}
      BY <1>5, <1>13, <2>2
    <3>2. IsFiniteSet(new) /\ Cardinality(new) = Rank
      <4> HIDE DEF added
      <4>1. IsFiniteSet(heap \ {top}) /\ Cardinality(heap \ {top}) = Rank - 1
        BY <1>3, <2>1, FS_RemoveElement
      <4>2. IsFiniteSet((heap \ {top}) \cup {added}) /\ Cardinality((heap \ {top}) \cup {added}) = Cardinality(heap \ {top}) + 1
        BY <1>6, <4>1, FS_AddElement
      <4>3. QED
        BY <3>1, <4>1, <4>2, RankAssumption
    <3>3. new # {} /\ new \subseteq heap \cup {added} /\ added \in new
      BY <3>1
    <3>4. ASSUME NEW e \in new, NEW d \in heap, d \notin new
          PROVE  d[1] <= e[1]
      <4>1. d = top
        BY <3>1, <3>4
      <4>2. CASE e \in heap
        BY <2>1, <4>1, <4>2
      <4>3. CASE e = added
        <5>1. e[1] = v
          BY <1>6, <4>3
        <5>2. QED
          BY <1>2, <1>10, <2>1, <2>2, <4>1, <5>1
      <4>4. QED
        BY <3>3, <4>2, <4>3
    <3>5. ASSUME NEW j \in 1 .. n, <<m[j], j>> \notin heap
          PROVE  m[j] <= v
      <4>1. m[j] <= top[1] /\ m[j] \in Int /\ top[1] \in Int
        BY <1>2, <1>3, <1>10, <2>1, <3>5
      <4>2. QED
        BY <1>2, <2>2, <4>1
    <3>6. QED
      BY <1>11, <2>1, <3>2, <3>3, <3>4, <3>5
  <2>3. CASE ~(v > top[1])
    <3>1. new = heap
      BY <1>5, <1>13, <2>3
    <3>2. \A e \in heap : v <= e[1]
      <4>1. ASSUME NEW e \in heap
            PROVE  v <= e[1]
        <5>1. top[1] <= e[1] /\ top[1] \in Int /\ e[1] \in Int
          BY <1>10, <2>1
        <5>2. QED
          BY <1>2, <2>3, <5>1
      <4>2. QED
        BY <4>1
    <3>3. new # {} /\ new \subseteq heap \cup {added} /\ added \notin new
      BY <1>6, <2>1, <3>1
    <3>4. IsFiniteSet(new) /\ Cardinality(new) = Rank
      BY <1>3, <2>1, <3>1
    <3>5. QED
      BY <1>11, <2>1, <3>1, <3>2, <3>3, <3>4
  <2>4. QED
    BY <2>2, <2>3
<1>14. QED
  BY <1>12, <1>13

LEMMA KthStep ==
  ASSUME KthInv, KthCall
  PROVE  KthInv' /\ AnswersAgree'
<1>1. PICK v \in Val :
        Call(KthAdd(s, v), Append(m, v), HeapTop(KthAdd(s, v).heap)[1], KthLargest(Append(m, v)))
  BY DEF KthCall
<1> DEFINE new == KthAdd(s, v)
           q == Append(m, v)
<1>2. m \in Seq(Val) /\ s.n = Len(m)
  BY DEF KthInv
<1>3. q \in Seq(Val) /\ Len(q) = Len(m) + 1
  BY <1>2, AppendIs
<1>4. Kept(new.heap, q) /\ new.heap # {}
  BY KthKeeps
<1>5. new = [n |-> Len(q), heap |-> new.heap]
  BY <1>2, <1>3 DEF KthAdd
<1>6. KthLargest(q) = HeapTop(new.heap)[1]
  BY <1>3, <1>4, TopIsKthLargest
<1>7. s' = new /\ m' = q /\ ans'[1] = ans'[2]
  BY <1>1, <1>6 DEF Call
<1> HIDE DEF new, q
<1>8. m' \in Seq(Val) /\ s' = [n |-> Len(m'), heap |-> s'.heap] /\ Kept(s'.heap, m')
  BY <1>3, <1>4, <1>5, <1>7
<1>9. QED
  BY <1>7, <1>8 DEF KthInv, Kept, AnswersAgree

-----------------------------------------------------------------------------
(* The trie.                                                               *)

\* The words inserted so far are marked, and their prefixes are the nodes.
Inserted == {w \in Word : m[w] > 0}

TrieInv ==
  /\ m \in [Word -> Nat]
  /\ s = [nodes |-> UNION {{SubSeq(w, 1, j) : j \in 1 .. Len(w)} : w \in Inserted},
          isEnd |-> Inserted]

LEMMA WordIs ==
  ASSUME NEW w \in Word
  PROVE  w \in Seq(Letter) /\ Len(w) \in 1 .. MaxLetters
<1>1. PICK n \in 1 .. MaxLetters : w \in [1 .. n -> Letter]
  BY DEF Word
<1>2. n \in Nat /\ w \in Seq(Letter)
  BY <1>1, LettersAssumption, SeqDef
<1>3. Len(w) \in Nat /\ DOMAIN w = 1 .. Len(w)
  BY <1>2, SeqIs
<1>4. Len(w) = n
  <2>1. 1 .. Len(w) = 1 .. n
    BY <1>1, <1>3
  <2>2. QED
    BY <1>2, <1>3, <2>1, SameInterval, Zenon
<1>5. QED
  BY <1>2, <1>4

\* The first j letters.
LEMMA PrefixOf ==
  ASSUME NEW S, NEW q \in Seq(S), NEW j \in 0 .. Len(q)
  PROVE  /\ SubSeq(q, 1, j) \in Seq(S) /\ Len(SubSeq(q, 1, j)) = j
         /\ \A i \in 1 .. j : SubSeq(q, 1, j)[i] = q[i]
<1> DEFINE l == Len(q)
<1>1. l \in Nat /\ \A i \in 1 .. l : q[i] \in S
  BY SeqIs
<1>2. j \in 0 .. l
  OBVIOUS
<1> HIDE DEF l
<1>3. j \in Nat /\ 1 \in Int /\ j \in Int /\ \A i \in 1 .. j : q[i] \in S
  BY <1>1, <1>2
<1>4. /\ SubSeq(q, 1, j) \in Seq(S)
      /\ Len(SubSeq(q, 1, j)) = IF 1 <= j THEN j - 1 + 1 ELSE 0
      /\ \A i \in 1 .. j - 1 + 1 : SubSeq(q, 1, j)[i] = q[1 + i - 1]
  BY <1>3, SubSeqProperties
<1>5. (IF 1 <= j THEN j - 1 + 1 ELSE 0) = j /\ j - 1 + 1 = j /\ \A i \in 1 .. j : 1 + i - 1 = i
  BY <1>3
<1>6. QED
  BY <1>4, <1>5

LEMMA WholeIs ==
  ASSUME NEW S, NEW q \in Seq(S)
  PROVE  SubSeq(q, 1, Len(q)) = q
<1>1. Len(q) \in Nat /\ Len(q) \in 0 .. Len(q)
  BY SeqIs
<1>2. /\ SubSeq(q, 1, Len(q)) \in Seq(S) /\ Len(SubSeq(q, 1, Len(q))) = Len(q)
      /\ \A i \in 1 .. Len(q) : SubSeq(q, 1, Len(q))[i] = q[i]
  BY <1>1, PrefixOf
<1>3. QED
  BY <1>2, SeqEqual

\* A prefix of a prefix.
LEMMA PrefixOfPrefix ==
  ASSUME NEW S, NEW q \in Seq(S), NEW r \in Seq(S), Len(q) <= Len(r),
         SubSeq(q, 1, Len(q)) = SubSeq(r, 1, Len(q)), NEW j \in 0 .. Len(q)
  PROVE  SubSeq(q, 1, j) = SubSeq(r, 1, j)
<1>1. /\ Len(q) \in Nat /\ Len(r) \in Nat /\ Len(q) \in 0 .. Len(r) /\ j \in 0 .. Len(r)
      /\ \A i \in 1 .. j : i \in 1 .. Len(q)
  <2>1. Len(q) \in Nat /\ Len(r) \in Nat
    BY SeqIs
  <2>2. QED
    BY <2>1
<1>2. SubSeq(q, 1, Len(q)) = q
  BY WholeIs
<1>3. \A i \in 1 .. Len(q) : q[i] = r[i]
  <2>1. \A i \in 1 .. Len(q) : SubSeq(r, 1, Len(q))[i] = r[i]
    BY <1>1, PrefixOf
  <2>2. QED
    BY <1>2, <2>1
<1>4. /\ SubSeq(q, 1, j) \in Seq(S) /\ Len(SubSeq(q, 1, j)) = j
      /\ \A i \in 1 .. j : SubSeq(q, 1, j)[i] = q[i]
  BY PrefixOf
<1>5. /\ SubSeq(r, 1, j) \in Seq(S) /\ Len(SubSeq(r, 1, j)) = j
      /\ \A i \in 1 .. j : SubSeq(r, 1, j)[i] = r[i]
  BY <1>1, PrefixOf
<1>6. \A i \in 1 .. j : SubSeq(q, 1, j)[i] = SubSeq(r, 1, j)[i]
  BY <1>1, <1>3, <1>4, <1>5
<1>7. QED
  BY <1>4, <1>5, <1>6, SeqEqual

LEMMA TrieAnswers ==
  ASSUME TrieInv, NEW w \in Word
  PROVE  (TrieSearch(s, w) <=> m[w] > 0) /\ (SearchPrefix(s, w) <=> Starts(m, w))
<1>1. /\ s.isEnd = Inserted
      /\ s.nodes = UNION {{SubSeq(v, 1, j) : j \in 1 .. Len(v)} : v \in Inserted}
  BY DEF TrieInv
<1>2. w \in Seq(Letter) /\ Len(w) \in 1 .. MaxLetters /\ Len(w) \in Nat
  BY WordIs, LettersAssumption
<1>3. SearchPrefix(s, w) => Starts(m, w)
  <2> SUFFICES ASSUME SearchPrefix(s, w) PROVE Starts(m, w)
    OBVIOUS
  <2>1. SubSeq(w, 1, Len(w)) \in s.nodes
    BY <1>2 DEF SearchPrefix
  <2>2. PICK v \in Inserted : \E j \in 1 .. Len(v) : SubSeq(w, 1, Len(w)) = SubSeq(v, 1, j)
    BY <1>1, <2>1
  <2>3. PICK j \in 1 .. Len(v) : SubSeq(w, 1, Len(w)) = SubSeq(v, 1, j)
    BY <2>2
  <2>4. v \in Word /\ m[v] > 0
    BY DEF Inserted
  <2>5. v \in Seq(Letter) /\ Len(v) \in Nat
    BY <2>4, WordIs, SeqIs
  <2>6. Len(SubSeq(v, 1, j)) = j /\ Len(SubSeq(w, 1, Len(w))) = Len(w)
    <3>1. j \in 0 .. Len(v) /\ Len(w) \in 0 .. Len(w)
      BY <1>2, <2>5
    <3>2. Len(SubSeq(v, 1, j)) = j
      BY <2>5, <3>1, PrefixOf
    <3>3. Len(SubSeq(w, 1, Len(w))) = Len(w)
      BY <1>2, <3>1, PrefixOf
    <3>4. QED
      BY <3>2, <3>3
  <2>7. j = Len(w) /\ Len(w) <= Len(v)
    BY <2>3, <2>5, <2>6
  <2>8. IsPrefix(w, v)
    BY <2>3, <2>7 DEF IsPrefix
  <2>9. QED
    BY <2>4, <2>8 DEF Starts
<1>4. Starts(m, w) => SearchPrefix(s, w)
  <2> SUFFICES ASSUME Starts(m, w), NEW j \in 1 .. Len(w) PROVE SubSeq(w, 1, j) \in s.nodes
    BY DEF SearchPrefix
  <2>1. PICK v \in Word : m[v] > 0 /\ IsPrefix(w, v)
    BY DEF Starts
  <2>2. v \in Inserted
    BY <2>1 DEF Inserted
  <2>3. v \in Seq(Letter) /\ Len(v) \in Nat
    BY WordIs, SeqIs
  <2>4. Len(w) <= Len(v) /\ SubSeq(w, 1, Len(w)) = SubSeq(v, 1, Len(w)) /\ j \in 0 .. Len(w) /\ j \in 1 .. Len(v)
    BY <1>2, <2>1, <2>3 DEF IsPrefix
  <2>5. SubSeq(w, 1, j) = SubSeq(v, 1, j)
    BY <1>2, <2>3, <2>4, PrefixOfPrefix
  <2>6. QED
    BY <1>1, <2>2, <2>4, <2>5
<1>5. m[w] > 0 => SearchPrefix(s, w)
  <2> SUFFICES ASSUME w \in Inserted, NEW j \in 1 .. Len(w) PROVE SubSeq(w, 1, j) \in s.nodes
    BY DEF SearchPrefix, Inserted
  <2>1. QED
    BY <1>1
<1>6. TrieSearch(s, w) <=> m[w] > 0
  BY <1>1, <1>5 DEF TrieSearch, Inserted
<1>7. QED
  BY <1>3, <1>4, <1>6

LEMMA TrieStep ==
  ASSUME TrieInv, TrieCall
  PROVE  TrieInv' /\ AnswersAgree'
<1>1. PICK w \in Word :
        \/ Call(TrieInsert(s, w), [m EXCEPT ![w] = @ + 1], Void, Void)
        \/ Call(s, m, <<TrieSearch(s, w), SearchPrefix(s, w)>>, <<m[w] > 0, Starts(m, w)>>)
  BY DEF TrieCall
<1>2. CASE Call(TrieInsert(s, w), [m EXCEPT ![w] = @ + 1], Void, Void)
  <2>1. s' = TrieInsert(s, w) /\ m' = [m EXCEPT ![w] = @ + 1] /\ AnswersAgree'
    BY <1>2 DEF Call, AnswersAgree
  <2>2. m \in [Word -> Nat]
    BY DEF TrieInv
  <2>3. m' \in [Word -> Nat] /\ \A v \in Word : m'[v] > 0 <=> v = w \/ m[v] > 0
    BY <2>1, <2>2
  <2>4. Inserted' = Inserted \cup {w}
    BY <2>3 DEF Inserted
  <2>5. s' = [nodes |-> UNION {{SubSeq(v, 1, j) : j \in 1 .. Len(v)} : v \in Inserted \cup {w}},
              isEnd |-> Inserted \cup {w}]
    <3> DEFINE P(v) == {SubSeq(v, 1, j) : j \in 1 .. Len(v)}
               W == Inserted
    <3>1. s = [nodes |-> UNION {P(v) : v \in W}, isEnd |-> W]
      BY DEF TrieInv
    <3>2. s' = [nodes |-> s.nodes \cup P(w), isEnd |-> s.isEnd \cup {w}]
      BY <2>1 DEF TrieInsert
    <3> HIDE DEF P, W
    <3>3. UNION {P(v) : v \in W \cup {w}} = (UNION {P(v) : v \in W}) \cup P(w)
      OBVIOUS
    <3>4. s' = [nodes |-> UNION {P(v) : v \in W \cup {w}}, isEnd |-> W \cup {w}]
      BY <3>1, <3>2, <3>3
    <3>5. QED
      BY <3>4 DEF P, W
  <2>6. QED
    BY <2>1, <2>3, <2>4, <2>5 DEF TrieInv
<1>3. CASE Call(s, m, <<TrieSearch(s, w), SearchPrefix(s, w)>>, <<m[w] > 0, Starts(m, w)>>)
  <2>1. s' = s /\ m' = m
    BY <1>3 DEF Call
  <2>2. TrieInv'
    BY <2>1 DEF TrieInv, Inserted
  <2>3. TrieSearch(s, w) = (m[w] > 0) /\ SearchPrefix(s, w) = Starts(m, w)
    <3>1. TrieSearch(s, w) \in BOOLEAN /\ SearchPrefix(s, w) \in BOOLEAN /\ Starts(m, w) \in BOOLEAN
      BY DEF TrieSearch, SearchPrefix, Starts
    <3>2. QED
      BY <3>1, TrieAnswers
  <2>4. AnswersAgree'
    BY <1>3, <2>3 DEF Call, AnswersAgree
  <2>5. QED
    BY <2>2, <2>4
<1>4. QED
  BY <1>1, <1>2, <1>3

-----------------------------------------------------------------------------
(* The heaps.                                                              *)

Half(j) == j \div 2

\* g is heap ordered up to n; at u as seen from its parent; everywhere but at u, and at
\* u but for one neighbour, as it is while down() or up() works there.
Ordered(g, n) == \A j \in 2 .. n : g[Half(j)] <= g[j]
AtHome(g, u) == u >= 2 => ~(g[u] < g[Half(u)])
SinkingAt(g, n, u) ==
  /\ \A j \in 2 .. n : j # u /\ Half(j) # u => g[Half(j)] <= g[j]
  /\ \A j \in 2 .. n : Half(j) = u /\ u >= 2 => g[Half(u)] <= g[j]
RisingAt(g, n, u) ==
  /\ \A j \in 2 .. n : j # u => g[Half(j)] <= g[j]
  /\ \A j \in 2 .. n : Half(j) = u /\ u >= 2 => g[Half(u)] <= g[j]

HeapState ==
  [h : Seq(Val), hp : Seq(Nat), ph : Seq(Nat), size : Nat,
   run : {"idle", "down", "up"}, at : Nat, after : {"return", "position", "element"} \X Nat]

\* The arrays of x place the elements of mm.
Placed(x, mm) ==
  /\ mm \in [DOMAIN mm -> Val] /\ DOMAIN mm \subseteq 1 .. Len(x.ph)
  /\ Len(x.hp) = Len(x.h) /\ x.size <= Len(x.h)
  /\ \A j \in 1 .. x.size : x.hp[j] \in DOMAIN mm /\ x.ph[x.hp[j]] = j /\ x.h[j] = mm[x.hp[j]]
  /\ \A k \in DOMAIN mm : x.ph[k] \in 1 .. x.size /\ x.hp[x.ph[k]] = k

\* What is in order while a repair runs.  One that was given a position one beyond the
\* end has nothing to do.
Repairing(x, mm) ==
  /\ x.run = "idle" => Ordered(x.h, x.size) /\ x.after[1] = "return"
  /\ x.run = "down" =>
       /\ x.at \in 1 .. x.size + 1
       /\ SinkingAt(x.h, x.size, x.at)
       /\ x.at = x.size + 1 => AtHome(x.h, x.at)
       /\ \/ AtHome(x.h, x.at)
          \/ x.after[1] = "position" /\ x.after[2] = x.at
          \/ x.after[1] = "element"
       /\ x.after[1] = "position" =>
            x.after[2] \in 1 .. x.size + 1 /\ (x.after[2] = x.size + 1 => x.at = x.size + 1)
       /\ x.after[1] = "element" => x.after[2] \in DOMAIN mm /\ x.ph[x.after[2]] = x.at
  /\ x.run = "up" =>
       /\ x.at \in 1 .. x.size + 1
       /\ RisingAt(x.h, x.size, x.at)
       /\ x.at = x.size + 1 => AtHome(x.h, x.at)

HeapRight(x, mm) == x \in HeapState /\ Placed(x, mm) /\ Repairing(x, mm)
HeapInv == HeapRight(s, m)

LEMMA HalfIs ==
  ASSUME NEW j \in Nat
  PROVE  /\ Half(j) \in Nat /\ (j >= 1 => Half(j) < j) /\ (j >= 2 => Half(j) >= 1)
         /\ (Half(j) = 0 <=> j < 2)
         /\ j = 2 * Half(j) \/ j = 2 * Half(j) + 1
BY DEF Half

LEMMA HomeIs ==
  ASSUME NEW n \in Nat, NEW u \in 2 .. n, NEW g, \A i \in 1 .. n : g[i] \in Int, AtHome(g, u)
  PROVE  g[Half(u)] <= g[u]
<1>1. u \in Nat /\ u >= 2 /\ u \in 1 .. n
  OBVIOUS
<1>2. Half(u) \in Nat /\ Half(u) < u /\ Half(u) >= 1
  BY <1>1, HalfIs
<1>3. Half(u) \in 1 .. n
  BY <1>1, <1>2
<1>4. g[u] \in Int /\ g[Half(u)] \in Int /\ ~(g[u] < g[Half(u)])
  BY <1>1, <1>3 DEF AtHome
<1>5. QED
  BY <1>4

\* A turn of down(): the smaller child t takes the place of its parent u.
LEMMA SinkingMoves ==
  ASSUME NEW n \in Nat, NEW u \in 1 .. n, NEW t \in 2 .. n, Half(t) = u,
         NEW g, NEW g2, \A i \in 1 .. n : g[i] \in Int,
         SinkingAt(g, n, u), g[t] < g[u], \A j \in 2 .. n : Half(j) = u => g[t] <= g[j],
         g2[t] = g[u], g2[u] = g[t], \A i \in 1 .. n : i # t /\ i # u => g2[i] = g[i]
  PROVE  SinkingAt(g2, n, t) /\ AtHome(g2, t)
<1>1. \A j \in 2 .. n : j \in 1 .. n /\ Half(j) \in 1 .. n /\ Half(j) < j
  <2>1. ASSUME NEW j \in 2 .. n
        PROVE  j \in 1 .. n /\ Half(j) \in 1 .. n /\ Half(j) < j
    <3>1. j \in Nat /\ j >= 2 /\ j <= n
      OBVIOUS
    <3>2. Half(j) \in Nat /\ Half(j) < j /\ Half(j) >= 1
      BY <3>1, HalfIs
    <3>3. QED
      BY <3>1, <3>2
  <2>2. QED
    BY <2>1
<1>2. t \in 1 .. n /\ u < t
  BY <1>1
<1>3. ASSUME NEW j \in 2 .. n, j # t, Half(j) # t
      PROVE  g2[Half(j)] <= g2[j]
  <2>1. j \in 1 .. n /\ Half(j) \in 1 .. n
    BY <1>1
  <2>2. CASE j = u
    <3>1. g2[j] = g[t] /\ g2[Half(j)] = g[Half(j)]
      BY <1>1, <1>2, <1>3, <2>1, <2>2
    <3>2. u >= 2
      BY <2>2
    <3>3. g[Half(u)] <= g[t]
      BY <3>2 DEF SinkingAt
    <3>4. QED
      BY <2>2, <3>1, <3>3
  <2>3. CASE j # u /\ Half(j) = u
    <3>1. g2[j] = g[j] /\ g2[Half(j)] = g[t]
      BY <1>3, <2>1, <2>3
    <3>2. QED
      BY <2>3, <3>1
  <2>4. CASE j # u /\ Half(j) # u
    <3>1. g2[j] = g[j] /\ g2[Half(j)] = g[Half(j)]
      BY <1>3, <2>1, <2>4
    <3>2. QED
      BY <2>4, <3>1 DEF SinkingAt
  <2>5. QED
    BY <2>2, <2>3, <2>4
<1>4. ASSUME NEW j \in 2 .. n, Half(j) = t
      PROVE  g2[Half(t)] <= g2[j]
  <2>1. j \in 1 .. n /\ t < j /\ j # u /\ j # t
    BY <1>1, <1>2, <1>4
  <2>2. g2[j] = g[j] /\ g2[Half(t)] = g[t]
    BY <2>1
  <2>3. Half(j) # u
    BY <1>2, <1>4
  <2>4. g[Half(j)] <= g[j]
    BY <2>1, <2>3 DEF SinkingAt
  <2>5. QED
    BY <1>4, <2>2, <2>4
<1>5. SinkingAt(g2, n, t)
  BY <1>3, <1>4 DEF SinkingAt
<1>6. AtHome(g2, t)
  <2>1. g2[Half(t)] = g[t] /\ g[t] \in Int /\ g[u] \in Int
    BY <1>2
  <2>2. QED
    BY <2>1 DEF AtHome
<1>7. QED
  BY <1>5, <1>6

\* The end of down(): no child of u is smaller.
LEMMA SinkingEnds ==
  ASSUME NEW n \in Nat, NEW u \in 1 .. n + 1, NEW g, \A i \in 1 .. n : g[i] \in Int,
         SinkingAt(g, n, u), \A j \in 2 .. n : Half(j) = u => g[u] <= g[j]
  PROVE  /\ RisingAt(g, n, u)
         /\ u \in 1 .. n /\ AtHome(g, u) => Ordered(g, n)
         /\ u = n + 1 => Ordered(g, n)
<1>1. ASSUME NEW j \in 2 .. n, j # u
      PROVE  g[Half(j)] <= g[j]
  <2>1. CASE Half(j) = u
    BY <2>1
  <2>2. CASE Half(j) # u
    BY <1>1, <2>2 DEF SinkingAt
  <2>3. QED
    BY <2>1, <2>2
<1>2. RisingAt(g, n, u)
  BY <1>1 DEF RisingAt, SinkingAt
<1>3. ASSUME u = n + 1 \/ AtHome(g, u), NEW j \in 2 .. n
      PROVE  g[Half(j)] <= g[j]
  <2>1. CASE j = u
    BY <1>3, <2>1, HomeIs
  <2>2. CASE j # u
    BY <1>1, <2>2
  <2>3. QED
    BY <2>1, <2>2
<1>4. QED
  BY <1>2, <1>3 DEF Ordered

LEMMA OrderedRises ==
  ASSUME NEW n \in Nat, NEW u \in 1 .. n, NEW g, \A i \in 1 .. n : g[i] \in Int, Ordered(g, n)
  PROVE  RisingAt(g, n, u)
<1>1. ASSUME NEW j \in 2 .. n, Half(j) = u, u >= 2
      PROVE  g[Half(u)] <= g[j]
  <2>1. g[u] <= g[j] /\ g[Half(u)] <= g[u]
    BY <1>1 DEF Ordered
  <2>2. Half(u) \in Nat /\ Half(u) >= 1 /\ Half(u) < u
    BY <1>1, HalfIs
  <2>3. Half(u) \in 1 .. n /\ j \in 1 .. n
    BY <2>2
  <2>4. g[Half(u)] \in Int /\ g[u] \in Int /\ g[j] \in Int
    BY <2>3
  <2>5. QED
    BY <2>1, <2>4
<1>2. QED
  BY <1>1 DEF Ordered, RisingAt

\* A turn of up(): what is at u takes the place of its parent.
LEMMA RisingMoves ==
  ASSUME NEW n \in Nat, NEW u \in 2 .. n,
         NEW g, NEW g2, \A i \in 1 .. n : g[i] \in Int,
         RisingAt(g, n, u), g[u] < g[Half(u)],
         g2[u] = g[Half(u)], g2[Half(u)] = g[u],
         \A i \in 1 .. n : i # u /\ i # Half(u) => g2[i] = g[i]
  PROVE  RisingAt(g2, n, Half(u))
<1> DEFINE p == Half(u)
<1>1. \A j \in 2 .. n : j \in 1 .. n /\ Half(j) \in 1 .. n /\ Half(j) < j
  <2>1. ASSUME NEW j \in 2 .. n
        PROVE  j \in 1 .. n /\ Half(j) \in 1 .. n /\ Half(j) < j
    <3>1. j \in Nat /\ j >= 2 /\ j <= n
      OBVIOUS
    <3>2. Half(j) \in Nat /\ Half(j) < j /\ Half(j) >= 1
      BY <3>1, HalfIs
    <3>3. QED
      BY <3>1, <3>2
  <2>2. QED
    BY <2>1
<1>2. p \in 1 .. n /\ p < u /\ u \in 1 .. n
  BY <1>1
<1>3. g[p] \in Int /\ g[u] \in Int /\ g[u] < g[p] /\ g2[u] = g[p] /\ g2[p] = g[u]
  BY <1>2
<1>4. ASSUME NEW j \in 2 .. n, j # p
      PROVE  g2[Half(j)] <= g2[j]
  <2>1. j \in 1 .. n /\ Half(j) \in 1 .. n /\ g[j] \in Int /\ g[Half(j)] \in Int /\ Half(j) < j
    BY <1>1
  <2>2. CASE j = u
    BY <1>3, <2>2
  <2>3. CASE j # u /\ Half(j) = p
    <3>1. g2[j] = g[j] /\ g2[Half(j)] = g[u]
      BY <1>3, <1>4, <2>1, <2>3
    <3>2. g[p] <= g[j]
      BY <2>3 DEF RisingAt
    <3>3. QED
      BY <1>3, <2>1, <3>1, <3>2
  <2>4. CASE j # u /\ Half(j) = u
    <3>1. g2[j] = g[j] /\ g2[Half(j)] = g[p]
      BY <1>3, <1>4, <2>1, <2>4
    <3>2. g[p] <= g[j]
      <4>1. u >= 2
        OBVIOUS
      <4>2. QED
        BY <2>4, <4>1 DEF RisingAt
    <3>3. QED
      BY <3>1, <3>2
  <2>5. CASE j # u /\ Half(j) # p /\ Half(j) # u
    <3>1. g2[j] = g[j] /\ g2[Half(j)] = g[Half(j)]
      BY <1>4, <2>1, <2>5
    <3>2. QED
      BY <2>5, <3>1 DEF RisingAt
  <2>6. QED
    BY <2>2, <2>3, <2>4, <2>5
<1>5. ASSUME NEW j \in 2 .. n, Half(j) = p, p >= 2
      PROVE  g2[Half(p)] <= g2[j]
  <2>1. p \in 2 .. n
    BY <1>2, <1>5
  <2>2. Half(p) \in 1 .. n /\ Half(p) < p
    BY <1>1, <2>1
  <2>3. g2[Half(p)] = g[Half(p)] /\ g[Half(p)] \in Int
    BY <1>2, <2>2
  <2>4. g[Half(p)] <= g[p]
    BY <1>2, <2>1 DEF RisingAt
  <2>5. CASE j = u
    BY <1>3, <2>3, <2>4, <2>5
  <2>6. CASE j # u
    <3>1. j \in 1 .. n /\ p < j /\ g[j] \in Int
      BY <1>1, <1>5
    <3>2. g2[j] = g[j]
      BY <2>6, <3>1, <1>2
    <3>3. g[p] <= g[j]
      BY <1>5, <2>6 DEF RisingAt
    <3>4. QED
      BY <1>3, <2>3, <2>4, <3>1, <3>2, <3>3
  <2>7. QED
    BY <2>5, <2>6
<1>6. QED
  BY <1>4, <1>5 DEF RisingAt

LEMMA RisingEnds ==
  ASSUME NEW n \in Nat, NEW u \in 1 .. n + 1, NEW g, \A i \in 1 .. n : g[i] \in Int,
         RisingAt(g, n, u), AtHome(g, u)
  PROVE  Ordered(g, n)
<1>1. ASSUME NEW j \in 2 .. n
      PROVE  g[Half(j)] <= g[j]
  <2>1. CASE j = u
    BY <2>1, HomeIs
  <2>2. CASE j # u
    BY <2>2 DEF RisingAt
  <2>3. QED
    BY <2>1, <2>2
<1>2. QED
  BY <1>1 DEF Ordered

\* A new value at u, and perhaps fewer elements.
LEMMA ReplacedSinks ==
  ASSUME NEW n \in Nat, NEW n2 \in 0 .. n, NEW u \in 1 .. n,
         NEW g, NEW g2, \A i \in 1 .. n : g[i] \in Int, Ordered(g, n),
         \A i \in 1 .. n2 : i # u => g2[i] = g[i]
  PROVE  SinkingAt(g2, n2, u)
<1>1. ASSUME NEW j \in 2 .. n2
      PROVE  /\ j \in 2 .. n /\ j \in 1 .. n /\ j \in 1 .. n2
             /\ Half(j) \in 1 .. n2 /\ Half(j) \in 1 .. n /\ Half(j) < j
  <2>1. j \in Nat /\ j >= 2 /\ j <= n2 /\ j <= n
    OBVIOUS
  <2>2. Half(j) \in Nat /\ Half(j) < j /\ Half(j) >= 1
    BY <2>1, HalfIs
  <2>3. QED
    BY <2>1, <2>2
<1>2. ASSUME NEW j \in 2 .. n2, j # u, Half(j) # u
      PROVE  g2[Half(j)] <= g2[j]
  BY <1>1, <1>2 DEF Ordered
<1>3. ASSUME NEW j \in 2 .. n2, Half(j) = u, u >= 2
      PROVE  g2[Half(u)] <= g2[j]
  <2>1. u < j /\ u \in 2 .. n2 /\ j # u /\ u \in 2 .. n
    BY <1>1, <1>3
  <2>2. Half(u) \in 1 .. n2 /\ Half(u) \in 1 .. n /\ Half(u) < u
    BY <1>1, <2>1
  <2>3. g2[Half(u)] = g[Half(u)] /\ g2[j] = g[j]
    BY <1>1, <2>1, <2>2
  <2>4. g[Half(u)] <= g[u] /\ g[u] <= g[j]
    BY <1>1, <1>3, <2>1 DEF Ordered
  <2>5. g[Half(u)] \in Int /\ g[u] \in Int /\ g[j] \in Int
    BY <1>1, <2>1, <2>2
  <2>6. QED
    BY <2>3, <2>4, <2>5
<1>4. QED
  BY <1>2, <1>3 DEF SinkingAt

LEMMA InsertedRises ==
  ASSUME NEW n \in Nat, NEW g, NEW g2, Ordered(g, n), \A i \in 1 .. n : g2[i] = g[i]
  PROVE  RisingAt(g2, n + 1, n + 1)
<1>1. ASSUME NEW j \in 2 .. n + 1
      PROVE  j \in Nat /\ Half(j) \in 1 .. n /\ Half(j) < j /\ (j # n + 1 => j \in 2 .. n /\ j \in 1 .. n)
  <2>1. j \in Nat /\ j >= 2 /\ j <= n + 1
    OBVIOUS
  <2>2. Half(j) \in Nat /\ Half(j) < j /\ Half(j) >= 1
    BY <2>1, HalfIs
  <2>3. QED
    BY <2>1, <2>2
<1>2. ASSUME NEW j \in 2 .. n + 1, j # n + 1
      PROVE  g2[Half(j)] <= g2[j]
  BY <1>1, <1>2 DEF Ordered
<1>3. \A j \in 2 .. n + 1 : Half(j) # n + 1
  BY <1>1
<1>4. QED
  BY <1>2, <1>3 DEF RisingAt

\* The least element is at the front.
LEMMA FrontIsLeast ==
  ASSUME NEW n \in Nat \ {0}, NEW g, \A i \in 1 .. n : g[i] \in Int, Ordered(g, n)
  PROVE  \A j \in 1 .. n : g[1] <= g[j]
<1> DEFINE Bad == {j \in 1 .. n : ~(g[1] <= g[j])}
<1>1. SUFFICES ASSUME Bad # {} PROVE FALSE
  OBVIOUS
<1>2. Bad \subseteq Nat
  OBVIOUS
<1>3. PICK j \in Bad : \A i \in Bad : j <= i
  <2> HIDE DEF Bad
  <2> QED
    BY <1>1, <1>2, LeastOf
<1>4. 1 \in 1 .. n /\ g[1] \in Int
  OBVIOUS
<1>5. j \in 1 .. n /\ j # 1 /\ ~(g[1] <= g[j])
  BY <1>4
<1>6. j \in 2 .. n /\ j >= 2 /\ j \in Nat
  BY <1>5
<1>7. Half(j) \in Nat /\ Half(j) >= 1 /\ Half(j) < j
  BY <1>6, HalfIs
<1>8. Half(j) \in 1 .. n /\ Half(j) \notin Bad
  <2> HIDE DEF Bad
  <2>1. Half(j) \in 1 .. n
    BY <1>6, <1>7
  <2>2. ~(j <= Half(j))
    BY <1>6, <1>7
  <2>3. QED
    BY <1>3, <2>1, <2>2
<1>9. g[1] <= g[Half(j)] /\ g[Half(j)] <= g[j] /\ g[Half(j)] \in Int /\ g[j] \in Int
  BY <1>5, <1>6, <1>8 DEF Ordered
<1>10. QED
  BY <1>4, <1>5, <1>9

Swapped(r, q, S, a, b) ==
  /\ r \in Seq(S) /\ Len(r) = Len(q)
  /\ r[a] = q[b] /\ r[b] = q[a]
  /\ \A i \in 1 .. Len(q) : i # a /\ i # b => r[i] = q[i]

LEMMA SwapIs ==
  ASSUME NEW S, NEW q \in Seq(S), NEW a \in 1 .. Len(q), NEW b \in 1 .. Len(q)
  PROVE  Swapped(Swap(q, a, b), q, S, a, b)
<1>1. Len(q) \in Nat /\ DOMAIN q = 1 .. Len(q) /\ \A i \in 1 .. Len(q) : q[i] \in S
  BY SeqIs
<1>2. q \in [1 .. Len(q) -> S]
  BY <1>1, LenProperties
<1> DEFINE r == Swap(q, a, b)
<1>3. r \in [1 .. Len(q) -> S]
  BY <1>1, <1>2 DEF Swap
<1>4. r \in Seq(S)
  BY <1>1, <1>3, SeqDef
<1>5. DOMAIN r = 1 .. Len(r) /\ Len(r) \in Nat /\ DOMAIN r = 1 .. Len(q)
  BY <1>3, <1>4, SeqIs
<1>6. Len(r) = Len(q)
  <2> HIDE DEF r
  <2> QED
    BY <1>1, <1>5, SameInterval, Zenon
<1>7. /\ r[a] = q[b] /\ r[b] = q[a]
      /\ \A i \in 1 .. Len(q) : i # a /\ i # b => r[i] = q[i]
  BY <1>1, <1>2 DEF Swap
<1>8. QED
  BY <1>4, <1>6, <1>7 DEF Swapped

\* y is x with the elements at two places exchanged.
Exchanged(x, y, a, b) ==
  /\ y.size = x.size /\ y.run = x.run /\ y.at = x.at /\ y.after = x.after
  /\ y.h[a] = x.h[b] /\ y.h[b] = x.h[a]
  /\ \A i \in 1 .. x.size : i # a /\ i # b => y.h[i] = x.h[i]
  /\ y.hp[a] = x.hp[b] /\ y.hp[b] = x.hp[a]
  /\ y.ph[x.hp[a]] = b /\ y.ph[x.hp[b]] = a

LEMMA SwapPlaces ==
  ASSUME NEW x \in HeapState, NEW mm, Placed(x, mm), NEW a \in 1 .. x.size, NEW b \in 1 .. x.size
  PROVE  /\ HeapSwap(x, a, b) \in HeapState
         /\ Placed(HeapSwap(x, a, b), mm)
         /\ Exchanged(x, HeapSwap(x, a, b), a, b)
<1> DEFINE h2 == Swap(x.h, a, b)
           hp2 == Swap(x.hp, a, b)
           k == x.hp[a]
           c == x.hp[b]
           ph2 == Swap(x.ph, k, c)
           y == HeapSwap(x, a, b)
           n == x.size
           l == Len(x.h)
           N == Len(x.ph)
<1>1. x.h \in Seq(Val) /\ x.hp \in Seq(Nat) /\ x.ph \in Seq(Nat) /\ n \in Nat
  BY DEF HeapState
<1>2. /\ mm \in [DOMAIN mm -> Val] /\ DOMAIN mm \subseteq 1 .. N
      /\ Len(x.hp) = l /\ n <= l
      /\ \A j \in 1 .. n : x.hp[j] \in DOMAIN mm /\ x.ph[x.hp[j]] = j /\ x.h[j] = mm[x.hp[j]]
      /\ \A d \in DOMAIN mm : x.ph[d] \in 1 .. n /\ x.hp[x.ph[d]] = d
  BY DEF Placed
<1>3. l \in Nat /\ N \in Nat /\ a \in 1 .. l /\ b \in 1 .. l
  <2>1. l \in Nat /\ N \in Nat
    BY <1>1, SeqIs
  <2>2. a \in 1 .. n /\ b \in 1 .. n /\ n \in Nat /\ n <= l
    BY <1>1, <1>2
  <2> HIDE DEF l, N, n
  <2>3. QED
    BY <2>1, <2>2
<1>4. /\ k \in DOMAIN mm /\ c \in DOMAIN mm /\ k \in 1 .. N /\ c \in 1 .. N
      /\ x.ph[k] = a /\ x.ph[c] = b /\ x.h[a] = mm[k] /\ x.h[b] = mm[c]
  BY <1>2
<1>5. /\ h2 \in Seq(Val) /\ Len(h2) = l /\ h2[a] = x.h[b] /\ h2[b] = x.h[a]
      /\ \A i \in 1 .. l : i # a /\ i # b => h2[i] = x.h[i]
  <2>1. Swapped(h2, x.h, Val, a, b)
    BY <1>1, <1>3, SwapIs
  <2>2. QED
    BY <2>1 DEF Swapped
<1>6. /\ hp2 \in Seq(Nat) /\ Len(hp2) = l /\ hp2[a] = c /\ hp2[b] = k
      /\ \A i \in 1 .. l : i # a /\ i # b => hp2[i] = x.hp[i]
  <2>1. a \in 1 .. Len(x.hp) /\ b \in 1 .. Len(x.hp)
    BY <1>2, <1>3
  <2>2. Swapped(hp2, x.hp, Nat, a, b)
    BY <1>1, <2>1, SwapIs
  <2>3. QED
    BY <1>2, <2>2 DEF Swapped
<1>7. /\ ph2 \in Seq(Nat) /\ Len(ph2) = N /\ ph2[k] = x.ph[c] /\ ph2[c] = x.ph[k]
      /\ \A i \in 1 .. N : i # k /\ i # c => ph2[i] = x.ph[i]
  <2> HIDE DEF k, c
  <2>1. Swapped(ph2, x.ph, Nat, k, c)
    BY <1>1, <1>4, SwapIs
  <2>2. QED
    BY <2>1 DEF Swapped
<1>8. y = [x EXCEPT !.ph = ph2, !.hp = hp2, !.h = h2]
  BY DEF HeapSwap
<1> HIDE DEF h2, hp2, ph2, k, c, l, N
<1>9. /\ y \in HeapState /\ y.h = h2 /\ y.hp = hp2 /\ y.ph = ph2
      /\ y.size = n /\ y.run = x.run /\ y.at = x.at /\ y.after = x.after
  BY <1>5, <1>6, <1>7, <1>8, Zenon DEF HeapState
<1> HIDE DEF y, n
<1>10. \A i \in 1 .. n : i \in 1 .. l
  BY <1>1, <1>2, <1>3 DEF n
<1>11. ASSUME NEW j \in 1 .. n
       PROVE  hp2[j] \in DOMAIN mm /\ ph2[hp2[j]] = j /\ h2[j] = mm[hp2[j]]
  <2>1. CASE j = a
    BY <1>4, <1>5, <1>6, <1>7, <2>1
  <2>2. CASE j = b /\ j # a
    BY <1>4, <1>5, <1>6, <1>7, <2>2
  <2>3. CASE j # a /\ j # b
    <3>1. hp2[j] = x.hp[j] /\ h2[j] = x.h[j]
      BY <1>5, <1>6, <1>10, <2>3
    <3>2. x.hp[j] \in DOMAIN mm /\ x.ph[x.hp[j]] = j /\ x.hp[j] # k /\ x.hp[j] # c
      BY <1>2, <1>4, <2>3 DEF n
    <3>3. QED
      BY <1>2, <1>7, <3>1, <3>2 DEF n
  <2>4. QED
    BY <2>1, <2>2, <2>3
<1>12. ASSUME NEW d \in DOMAIN mm
       PROVE  ph2[d] \in 1 .. n /\ hp2[ph2[d]] = d
  <2>1. a \in 1 .. n /\ b \in 1 .. n
    BY DEF n
  <2>2. CASE d = k
    BY <1>4, <1>6, <1>7, <2>1, <2>2
  <2>3. CASE d = c
    BY <1>4, <1>6, <1>7, <2>1, <2>3
  <2>4. CASE d # k /\ d # c
    <3>1. ph2[d] = x.ph[d] /\ x.ph[d] \in 1 .. n /\ x.hp[x.ph[d]] = d
      BY <1>2, <1>7, <2>4 DEF n
    <3>2. x.ph[d] # a /\ x.ph[d] # b
      BY <2>4, <3>1 DEF k, c
    <3>3. QED
      BY <1>6, <1>10, <3>1, <3>2
  <2>5. QED
    BY <2>2, <2>3, <2>4
<1>13. Placed(y, mm)
  BY <1>2, <1>5, <1>6, <1>7, <1>9, <1>11, <1>12 DEF Placed, n
<1>14. Exchanged(x, y, a, b)
  <2>1. \A i \in 1 .. n : i # a /\ i # b => h2[i] = x.h[i]
    BY <1>5, <1>10
  <2>2. hp2[a] = x.hp[b] /\ hp2[b] = x.hp[a] /\ ph2[x.hp[a]] = b /\ ph2[x.hp[b]] = a
    BY <1>4, <1>6, <1>7 DEF k, c
  <2>3. QED
    BY <1>5, <1>9, <2>1, <2>2 DEF Exchanged, n
<1>15. QED
  BY <1>9, <1>13, <1>14 DEF y

\* The element at the last place leaves.
LEMMA LastPlaceLeaves ==
  ASSUME NEW y \in HeapState, NEW mm, Placed(y, mm), y.size >= 1, NEW z,
         z.h = y.h, z.hp = y.hp, z.ph = y.ph, z.size = y.size - 1
  PROVE  Placed(z, WithoutKey(mm, y.hp[y.size]))
<1> DEFINE n == y.size
           k == y.hp[n]
           m2 == WithoutKey(mm, k)
<1>1. n \in Nat /\ n \in 1 .. n
  BY DEF HeapState
<1>2. /\ mm \in [DOMAIN mm -> Val] /\ DOMAIN mm \subseteq 1 .. Len(y.ph)
      /\ Len(y.hp) = Len(y.h) /\ n <= Len(y.h)
      /\ \A j \in 1 .. n : y.hp[j] \in DOMAIN mm /\ y.ph[y.hp[j]] = j /\ y.h[j] = mm[y.hp[j]]
      /\ \A d \in DOMAIN mm : y.ph[d] \in 1 .. n /\ y.hp[y.ph[d]] = d
  BY DEF Placed
<1>3. k \in DOMAIN mm /\ y.ph[k] = n
  BY <1>1, <1>2
<1>4. DOMAIN m2 = DOMAIN mm \ {k} /\ \A d \in DOMAIN m2 : m2[d] = mm[d]
  BY DEF WithoutKey
<1>5. m2 \in [DOMAIN m2 -> Val]
  BY <1>2 DEF WithoutKey
<1> HIDE DEF k, m2
<1>6. Len(y.h) \in Nat
  <2>1. y.h \in Seq(Val)
    BY DEF HeapState
  <2>2. QED
    BY <2>1, SeqIs
<1> HIDE DEF n
<1>7. \A j \in 1 .. n - 1 : j \in 1 .. n /\ j # n
  BY <1>1
<1>8. ASSUME NEW j \in 1 .. n - 1
      PROVE  y.hp[j] \in DOMAIN m2 /\ y.ph[y.hp[j]] = j /\ y.h[j] = m2[y.hp[j]]
  BY <1>2, <1>3, <1>4, <1>7
<1>9. ASSUME NEW d \in DOMAIN m2
      PROVE  y.ph[d] \in 1 .. n - 1 /\ y.hp[y.ph[d]] = d
  <2>1. d \in DOMAIN mm /\ d # k /\ y.ph[d] \in 1 .. n /\ y.hp[y.ph[d]] = d
    BY <1>2, <1>4
  <2>2. y.ph[d] # n
    BY <2>1 DEF k
  <2>3. QED
    BY <1>1, <2>1, <2>2
<1>10. n - 1 <= Len(y.h)
  BY <1>1, <1>2, <1>6
<1>11. z.size = n - 1 /\ DOMAIN m2 \subseteq 1 .. Len(y.ph)
  BY <1>2, <1>4 DEF n
<1>12. QED
  BY <1>2, <1>5, <1>8, <1>9, <1>10, <1>11 DEF Placed, m2, k, n

\* A place for each element.
LEMMA SizeIsCardinality ==
  ASSUME NEW x \in HeapState, NEW mm, Placed(x, mm)
  PROVE  IsFiniteSet(DOMAIN mm) /\ x.size = Cardinality(DOMAIN mm)
<1> DEFINE n == x.size
           f == [j \in 1 .. n |-> x.hp[j]]
           K == DOMAIN mm
<1>1. /\ n \in Nat
      /\ \A j \in 1 .. n : x.hp[j] \in K /\ x.ph[x.hp[j]] = j
      /\ \A d \in K : x.ph[d] \in 1 .. n /\ x.hp[x.ph[d]] = d
  BY DEF Placed, HeapState
<1> HIDE DEF n, K
<1>2. f \in [1 .. n -> K] /\ \A j \in 1 .. n : f[j] = x.hp[j]
  BY <1>1
<1> HIDE DEF f
<1>3. f \in Surjection(1 .. n, K)
  BY <1>1, <1>2 DEF Surjection
<1>4. \A i, j \in 1 .. n : f[i] = f[j] => i = j
  BY <1>1, <1>2
<1>5. f \in Injection(1 .. n, K)
  BY <1>2, <1>4 DEF Injection, IsInjective
<1>6. IsFiniteSet(1 .. n) /\ Cardinality(1 .. n) = n
  <2>1. 1 \in Int /\ n \in Int /\ (IF 1 > n THEN 0 ELSE n - 1 + 1) = n
    BY <1>1
  <2>2. QED
    BY <2>1, FS_Interval
<1>7. QED
  BY <1>3, <1>5, <1>6, FS_Surjection DEF n, K

\* What down() descends to.
LEMMA SmallestIs ==
  ASSUME NEW x \in HeapState, NEW u \in 1 .. x.size + 1, \A i \in 1 .. x.size : x.h[i] \in Int
  PROVE  /\ Smallest(x, u) # u =>
              /\ Smallest(x, u) \in 2 .. x.size /\ Half(Smallest(x, u)) = u
              /\ x.h[Smallest(x, u)] < x.h[u]
         /\ \A j \in 2 .. x.size : Half(j) = u => x.h[Smallest(x, u)] <= x.h[j]
<1> DEFINE n == x.size
           g == x.h
           t1 == Smaller(x, u, 2 * u)
           t == Smallest(x, u)
<1>1. n \in Nat /\ u \in 1 .. n + 1 /\ \A i \in 1 .. n : g[i] \in Int
  BY DEF HeapState
<1>2. t1 = IF 2 * u <= n /\ g[2 * u] < g[u] THEN 2 * u ELSE u
  BY DEF Smaller
<1>3. t = IF 2 * u + 1 <= n /\ g[2 * u + 1] < g[t1] THEN 2 * u + 1 ELSE t1
  BY DEF Smaller, Smallest
<1> SUFFICES /\ t # u => t \in 2 .. n /\ Half(t) = u /\ g[t] < g[u]
             /\ \A j \in 2 .. n : Half(j) = u => g[t] <= g[j]
  OBVIOUS
<1> HIDE DEF n, g, t1, t
<1>4. Half(2 * u) = u /\ Half(2 * u + 1) = u
  BY <1>1 DEF Half
<1>5. \A j \in 2 .. n : Half(j) = u => j = 2 * u \/ j = 2 * u + 1
  BY <1>1, HalfIs
<1>6. 2 * u <= n => 2 * u \in 2 .. n /\ u \in 1 .. n /\ g[2 * u] \in Int /\ g[u] \in Int
  BY <1>1
<1>7. 2 * u + 1 <= n => 2 * u <= n /\ 2 * u + 1 \in 2 .. n /\ g[2 * u + 1] \in Int
  BY <1>1
<1>8. \A j \in 2 .. n : (j = 2 * u => 2 * u <= n) /\ (j = 2 * u + 1 => 2 * u + 1 <= n)
  BY <1>1
<1>9. CASE 2 * u <= n
  <2>1. t1 \in {u, 2 * u} /\ g[t1] <= g[u] /\ g[t1] <= g[2 * u] /\ g[t1] \in Int
        /\ (t1 # u => g[t1] < g[u])
    BY <1>2, <1>6, <1>9
  <2>2. CASE 2 * u + 1 <= n /\ g[2 * u + 1] < g[t1]
    <3>1. t = 2 * u + 1 /\ g[t] \in Int /\ t \in 2 .. n
      BY <1>3, <1>7, <2>2
    <3>2. g[t] < g[u] /\ g[t] <= g[2 * u] /\ g[t] <= g[2 * u + 1]
      BY <1>6, <1>9, <2>1, <2>2, <3>1
    <3>3. QED
      BY <1>4, <1>5, <3>1, <3>2
  <2>3. CASE ~(2 * u + 1 <= n /\ g[2 * u + 1] < g[t1])
    <3>1. t = t1
      BY <1>3, <2>3
    <3>2. 2 * u + 1 <= n => g[t] <= g[2 * u + 1]
      BY <1>7, <2>1, <2>3, <3>1
    <3>3. t # u => t \in 2 .. n /\ Half(t) = u /\ g[t] < g[u]
      BY <1>4, <1>6, <1>9, <2>1, <3>1
    <3>4. QED
      BY <1>5, <1>8, <2>1, <3>1, <3>2, <3>3
  <2>4. QED
    BY <2>2, <2>3
<1>10. CASE ~(2 * u <= n)
  <2>1. t1 = u /\ t = u
    BY <1>2, <1>3, <1>7, <1>10
  <2>2. QED
    BY <1>5, <1>7, <1>8, <1>10, <2>1
<1>11. QED
  BY <1>9, <1>10

\* What is known of a heap wherever it is looked at.
LEMMA HeapIs ==
  ASSUME NEW x, NEW mm, HeapRight(x, mm)
  PROVE  /\ x \in HeapState /\ Placed(x, mm) /\ Repairing(x, mm)
         /\ x.size \in Nat /\ Len(x.h) \in Nat /\ x.size <= Len(x.h) /\ x.h \in Seq(Val)
         /\ \A i \in 1 .. x.size : x.h[i] \in Int
<1>1. x \in HeapState /\ Placed(x, mm) /\ Repairing(x, mm)
  BY DEF HeapRight
<1>2. x.h \in Seq(Val) /\ x.size \in Nat
  BY <1>1 DEF HeapState
<1>3. x.size <= Len(x.h)
  BY <1>1 DEF Placed
<1>4. Len(x.h) \in Nat /\ \A i \in 1 .. Len(x.h) : x.h[i] \in Int
  BY <1>2, SeqIs, SetsOfInt
<1> DEFINE n == x.size
           l == Len(x.h)
<1>5. \A i \in 1 .. n : i \in 1 .. l
  <2>1. n \in Nat /\ l \in Nat /\ n <= l
    BY <1>2, <1>3, <1>4
  <2> HIDE DEF n, l
  <2>2. QED
    BY <2>1
<1>6. QED
  BY <1>1, <1>2, <1>3, <1>4, <1>5

LEMMA DownMoves ==
  ASSUME NEW x, NEW mm, HeapRight(x, mm), x.run = "down", Smallest(x, x.at) # x.at
  PROVE  LET t == Smallest(x, x.at)
         IN  HeapRight([HeapSwap(x, t, x.at) EXCEPT !.at = t], mm)
<1> DEFINE n == x.size
           u == x.at
           t == Smallest(x, u)
           y == HeapSwap(x, t, u)
           z == [y EXCEPT !.at = t]
<1>1. /\ x \in HeapState /\ Placed(x, mm) /\ Repairing(x, mm)
      /\ n \in Nat /\ \A i \in 1 .. n : x.h[i] \in Int
  BY HeapIs
<1>2. /\ u \in 1 .. n + 1 /\ SinkingAt(x.h, n, u)
      /\ x.after[1] = "position" => x.after[2] \in 1 .. n + 1 /\ (x.after[2] = n + 1 => u = n + 1)
      /\ x.after[1] = "element" => x.after[2] \in DOMAIN mm /\ x.ph[x.after[2]] = u
  BY <1>1 DEF Repairing
<1>3. /\ t \in 2 .. n /\ Half(t) = u /\ x.h[t] < x.h[u]
      /\ \A j \in 2 .. n : Half(j) = u => x.h[t] <= x.h[j]
  BY <1>1, <1>2, SmallestIs
<1> HIDE DEF t
<1>4. u \in 1 .. n /\ u < t /\ t \in 1 .. n /\ t \in Nat
  <2>1. t \in Nat /\ t >= 2
    BY <1>3
  <2>2. u < t
    BY <1>3, <2>1, HalfIs
  <2>3. QED
    BY <1>1, <1>2, <1>3, <2>1, <2>2
<1>5. y \in HeapState /\ Placed(y, mm) /\ Exchanged(x, y, t, u)
  <2> HIDE DEF u, y, n
  <2>1. t \in 1 .. x.size /\ u \in 1 .. x.size
    BY <1>4 DEF n
  <2>2. QED
    BY <1>1, <2>1, SwapPlaces DEF y
<1> HIDE DEF y
<1>6. /\ z \in HeapState /\ z.h = y.h /\ z.hp = y.hp /\ z.ph = y.ph /\ z.size = y.size
      /\ z.run = y.run /\ z.at = t /\ z.after = y.after
  BY <1>4, <1>5 DEF HeapState
<1> HIDE DEF z
<1>7. Placed(z, mm)
  BY <1>5, <1>6 DEF Placed
<1>8. /\ y.size = n /\ y.run = "down" /\ y.after = x.after
      /\ y.h[t] = x.h[u] /\ y.h[u] = x.h[t]
      /\ \A i \in 1 .. n : i # t /\ i # u => y.h[i] = x.h[i]
      /\ y.ph[x.hp[u]] = t
  BY <1>5 DEF Exchanged
<1> HIDE DEF n, u
<1>9. SinkingAt(y.h, n, t) /\ AtHome(y.h, t)
  BY <1>1, <1>2, <1>3, <1>4, <1>8, SinkingMoves, Zenon
<1>10. x.after[1] = "element" => y.ph[x.after[2]] = t
  <2>1. ASSUME x.after[1] = "element"
        PROVE  x.hp[u] = x.after[2]
    BY <1>1, <1>2, <2>1 DEF Placed
  <2>2. QED
    BY <1>8, <2>1
<1>11. x.after[1] = "position" => x.after[2] # n + 1
  BY <1>1, <1>2, <1>4
<1>12. t \in 1 .. n + 1 /\ t # n + 1
  BY <1>1, <1>4
<1>13. Repairing(z, mm)
  <2>1. z.run = "down" /\ z.size = n /\ z.at = t /\ z.h = y.h /\ z.after = x.after /\ z.ph = y.ph
    BY <1>6, <1>8
  <2>2. QED
    BY <1>2, <1>9, <1>10, <1>11, <1>12, <2>1 DEF Repairing
<1>14. QED
  BY <1>6, <1>7, <1>13 DEF HeapRight, z, y, t, u

\* The three ways down() ends.
DownEnd(x, mm) ==
  /\ x.after[1] = "return" => HeapRight([x EXCEPT !.run = "idle", !.at = 0], mm)
  /\ x.after[1] = "position" => HeapRight([x EXCEPT !.run = "up", !.at = x.after[2]], mm)
  /\ x.after[1] = "element" => HeapRight([x EXCEPT !.run = "up", !.at = x.ph[x.after[2]]], mm)

LEMMA DownEnds ==
  ASSUME NEW x, NEW mm, HeapRight(x, mm), x.run = "down", Smallest(x, x.at) = x.at
  PROVE  DownEnd(x, mm)
<1> DEFINE n == x.size
           u == x.at
<1>1. /\ x \in HeapState /\ Placed(x, mm) /\ Repairing(x, mm)
      /\ n \in Nat /\ \A i \in 1 .. n : x.h[i] \in Int
  BY HeapIs
<1>2. /\ u \in 1 .. n + 1 /\ SinkingAt(x.h, n, u)
      /\ u = n + 1 => AtHome(x.h, u)
      /\ \/ AtHome(x.h, u)
         \/ x.after[1] = "position" /\ x.after[2] = u
         \/ x.after[1] = "element"
      /\ x.after[1] = "position" => x.after[2] \in 1 .. n + 1 /\ (x.after[2] = n + 1 => u = n + 1)
      /\ x.after[1] = "element" => x.after[2] \in DOMAIN mm /\ x.ph[x.after[2]] = u
  BY <1>1 DEF Repairing
<1>3. \A j \in 2 .. n : Half(j) = u => x.h[u] <= x.h[j]
  <2>1. \A j \in 2 .. n : Half(j) = u => x.h[Smallest(x, u)] <= x.h[j]
    BY <1>1, <1>2, SmallestIs
  <2>2. QED
    BY <2>1
<1>4. u \in Nat
  BY <1>1, <1>2
<1> HIDE DEF n, u
<1>5. /\ RisingAt(x.h, n, u)
      /\ u \in 1 .. n /\ AtHome(x.h, u) => Ordered(x.h, n)
      /\ u = n + 1 => Ordered(x.h, n)
  BY <1>1, <1>2, <1>3, SinkingEnds
<1>6. u \in 1 .. n \/ u = n + 1
  BY <1>1, <1>2
<1>7. ASSUME x.after[1] = "return"
      PROVE  HeapRight([x EXCEPT !.run = "idle", !.at = 0], mm)
  <2> DEFINE z == [x EXCEPT !.run = "idle", !.at = 0]
  <2>1. /\ z \in HeapState /\ z.h = x.h /\ z.hp = x.hp /\ z.ph = x.ph /\ z.size = x.size
        /\ z.run = "idle" /\ z.after = x.after
    BY <1>1 DEF HeapState
  <2> HIDE DEF z
  <2>2. Placed(z, mm)
    BY <1>1, <2>1 DEF Placed
  <2>3. Ordered(x.h, n)
    BY <1>2, <1>5, <1>6, <1>7
  <2>4. Repairing(z, mm)
    BY <1>7, <2>1, <2>3 DEF Repairing, n
  <2>5. QED
    BY <2>1, <2>2, <2>4 DEF HeapRight, z
\* up() begins at v.
<1>8. ASSUME NEW v \in Nat, v \in 1 .. n + 1, RisingAt(x.h, n, v), v = n + 1 => AtHome(x.h, v)
      PROVE  HeapRight([x EXCEPT !.run = "up", !.at = v], mm)
  <2> DEFINE z == [x EXCEPT !.run = "up", !.at = v]
  <2>1. /\ z \in HeapState /\ z.h = x.h /\ z.hp = x.hp /\ z.ph = x.ph /\ z.size = x.size
        /\ z.run = "up" /\ z.at = v
    BY <1>1 DEF HeapState
  <2> HIDE DEF z
  <2>2. Placed(z, mm)
    BY <1>1, <2>1 DEF Placed
  <2>3. Repairing(z, mm)
    BY <1>8, <2>1 DEF Repairing, n
  <2>4. QED
    BY <2>1, <2>2, <2>3 DEF HeapRight, z
<1>9. ASSUME x.after[1] = "position"
      PROVE  HeapRight([x EXCEPT !.run = "up", !.at = x.after[2]], mm)
  <2> DEFINE v == x.after[2]
  <2>1. v \in 1 .. n + 1 /\ v \in Nat /\ (v = n + 1 => u = n + 1)
    BY <1>1, <1>2, <1>9
  <2> HIDE DEF v
  <2>2. CASE v = u
    <3>1. HeapRight([x EXCEPT !.run = "up", !.at = v], mm)
      BY <1>2, <1>5, <1>8, <2>1, <2>2
    <3>2. QED
      BY <3>1 DEF v
  <2>3. CASE v # u
    <3>1. v \in 1 .. n /\ v # n + 1
      BY <1>1, <2>1, <2>3
    <3>2. Ordered(x.h, n)
      BY <1>2, <1>5, <1>6, <1>9, <2>3 DEF v
    <3>3. RisingAt(x.h, n, v)
      BY <1>1, <3>1, <3>2, OrderedRises
    <3>4. HeapRight([x EXCEPT !.run = "up", !.at = v], mm)
      BY <1>8, <2>1, <3>1, <3>3, Zenon
    <3>5. QED
      BY <3>4 DEF v
  <2>4. QED
    BY <2>2, <2>3
<1>10. ASSUME x.after[1] = "element"
       PROVE  HeapRight([x EXCEPT !.run = "up", !.at = x.ph[x.after[2]]], mm)
  <2>1. x.ph[x.after[2]] = u
    BY <1>2, <1>10
  <2>2. HeapRight([x EXCEPT !.run = "up", !.at = u], mm)
    BY <1>2, <1>4, <1>5, <1>8
  <2>3. QED
    BY <2>1, <2>2
<1>11. QED
  BY <1>7, <1>9, <1>10, Zenon DEF DownEnd

LEMMA UpMoves ==
  ASSUME NEW x, NEW mm, HeapRight(x, mm), x.run = "up",
         x.at \div 2 # 0, x.h[x.at] < x.h[x.at \div 2]
  PROVE  HeapRight([HeapSwap(x, x.at, x.at \div 2) EXCEPT !.at = x.at \div 2], mm)
<1> DEFINE n == x.size
           u == x.at
           p == Half(u)
           y == HeapSwap(x, u, p)
           z == [y EXCEPT !.at = p]
<1>1. /\ x \in HeapState /\ Placed(x, mm) /\ Repairing(x, mm)
      /\ n \in Nat /\ \A i \in 1 .. n : x.h[i] \in Int
  BY HeapIs
<1>2. u \in 1 .. n + 1 /\ RisingAt(x.h, n, u) /\ (u = n + 1 => AtHome(x.h, u))
  BY <1>1 DEF Repairing
<1>3. p # 0 /\ x.h[u] < x.h[p]
  BY DEF Half
<1>4. u \in Nat /\ p \in Nat
  <2>1. u \in Nat
    BY <1>1, <1>2
  <2>2. QED
    BY <2>1, HalfIs
<1>5. SUFFICES HeapRight(z, mm)
  BY DEF Half
<1> HIDE DEF p
<1>6. u >= 2 /\ p >= 1 /\ p < u
  <2> HIDE DEF u
  <2> QED
    BY <1>3, <1>4, HalfIs DEF p
<1>7. u \in 2 .. n /\ u \in 1 .. n /\ p \in 1 .. n
  <2>1. u # n + 1
    BY <1>2, <1>3, <1>6 DEF AtHome, p
  <2>2. QED
    BY <1>1, <1>2, <1>4, <1>6, <2>1
<1>8. y \in HeapState /\ Placed(y, mm) /\ Exchanged(x, y, u, p)
  <2> HIDE DEF u, y, n
  <2>1. u \in 1 .. x.size /\ p \in 1 .. x.size
    BY <1>7 DEF n
  <2>2. QED
    BY <1>1, <2>1, SwapPlaces DEF y
<1> HIDE DEF y
<1>9. /\ z \in HeapState /\ z.h = y.h /\ z.hp = y.hp /\ z.ph = y.ph /\ z.size = y.size
      /\ z.run = y.run /\ z.at = p
  BY <1>4, <1>8 DEF HeapState
<1> HIDE DEF z
<1>10. Placed(z, mm)
  BY <1>8, <1>9 DEF Placed
<1>11. /\ y.size = n /\ y.run = "up"
       /\ y.h[u] = x.h[p] /\ y.h[p] = x.h[u]
       /\ \A i \in 1 .. n : i # u /\ i # p => y.h[i] = x.h[i]
  BY <1>8 DEF Exchanged
<1> HIDE DEF n, u
<1>12. RisingAt(y.h, n, p)
  BY <1>1, <1>2, <1>3, <1>7, <1>11, RisingMoves DEF p
<1>13. p \in 1 .. n + 1 /\ p # n + 1
  BY <1>1, <1>7
<1>14. Repairing(z, mm)
  BY <1>9, <1>11, <1>12, <1>13 DEF Repairing
<1>15. QED
  BY <1>9, <1>10, <1>14 DEF HeapRight

LEMMA UpEnds ==
  ASSUME NEW x, NEW mm, HeapRight(x, mm), x.run = "up",
         ~(x.at \div 2 # 0 /\ x.h[x.at] < x.h[x.at \div 2])
  PROVE  HeapRight([x EXCEPT !.run = "idle", !.at = 0, !.after = <<"return", 0>>], mm)
<1> DEFINE n == x.size
           u == x.at
           r == <<"return", 0>>
           z == [x EXCEPT !.run = "idle", !.at = 0, !.after = r]
<1>1. /\ x \in HeapState /\ Placed(x, mm) /\ Repairing(x, mm)
      /\ n \in Nat /\ \A i \in 1 .. n : x.h[i] \in Int
  BY HeapIs
<1>2. u \in 1 .. n + 1 /\ RisingAt(x.h, n, u)
  BY <1>1 DEF Repairing
<1>3. AtHome(x.h, u)
  <2>1. u \in Nat
    BY <1>1, <1>2
  <2>2. u >= 2 => Half(u) # 0
    BY <2>1, HalfIs
  <2>3. QED
    BY <2>2 DEF AtHome, Half
<1>4. Ordered(x.h, n)
  <2> HIDE DEF n, u
  <2> QED
    BY <1>1, <1>2, <1>3, RisingEnds
<1>5. r \in {"return", "position", "element"} \X Nat /\ r[1] = "return"
  OBVIOUS
<1> HIDE DEF r
<1>6. /\ z \in HeapState /\ z.h = x.h /\ z.hp = x.hp /\ z.ph = x.ph /\ z.size = x.size
      /\ z.run = "idle" /\ z.after = r
  BY <1>1, <1>5 DEF HeapState
<1> HIDE DEF z
<1>7. Placed(z, mm)
  BY <1>1, <1>6 DEF Placed
<1>8. Repairing(z, mm)
  BY <1>4, <1>5, <1>6 DEF Repairing
<1>9. QED
  BY <1>6, <1>7, <1>8 DEF HeapRight, z, r

Stored(r, q, S, j, v) ==
  /\ r \in Seq(S) /\ Len(r) \in Nat /\ Len(r) = (IF j <= Len(q) THEN Len(q) ELSE Len(q) + 1)
  /\ r[j] = v /\ \A i \in 1 .. Len(q) : i # j => r[i] = q[i]

LEMMA StoreIs ==
  ASSUME NEW S, NEW q \in Seq(S), NEW j \in 1 .. Len(q) + 1, NEW v \in S
  PROVE  /\ Stored(Store(q, j, v), q, S, j, v)
         /\ j <= Len(q) => [q EXCEPT ![j] = v] = Store(q, j, v)
<1> DEFINE l == Len(q)
           r == Store(q, j, v)
<1>1. l \in Nat /\ DOMAIN q = 1 .. l /\ q \in [1 .. l -> S]
  BY SeqIs, LenProperties
<1>2. CASE j <= l
  <2>1. j \in 1 .. l
    BY <1>1, <1>2
  <2>2. r = [q EXCEPT ![j] = v]
    BY <1>1, <2>1 DEF Store
  <2>3. r \in [1 .. l -> S] /\ r[j] = v /\ \A i \in 1 .. l : i # j => r[i] = q[i]
    BY <1>1, <2>1, <2>2
  <2>4. r \in Seq(S) /\ DOMAIN r = 1 .. l
    BY <1>1, <2>3, SeqDef
  <2> HIDE DEF r, l
  <2>5. DOMAIN r = 1 .. Len(r) /\ Len(r) \in Nat
    BY <2>4, SeqIs
  <2>6. Len(r) = l
    BY <1>1, <2>4, <2>5, SameInterval
  <2>7. Stored(r, q, S, j, v)
    BY <1>1, <1>2, <2>3, <2>4, <2>6 DEF Stored, l
  <2>8. QED
    BY <2>2, <2>7 DEF r
<1>3. CASE ~(j <= l)
  <2>1. j = l + 1 /\ j \notin DOMAIN q
    BY <1>1, <1>3
  <2>2. r = Append(q, v)
    BY <2>1 DEF Store
  <2> HIDE DEF r
  <2>3. r \in Seq(S) /\ Len(r) = l + 1 /\ r[l + 1] = v /\ \A i \in 1 .. l : r[i] = q[i]
    BY <2>2, AppendIs
  <2>4. Stored(r, q, S, j, v)
    BY <1>1, <1>3, <2>1, <2>3 DEF Stored
  <2>5. QED
    BY <1>3, <2>4 DEF r
<1>4. QED
  BY <1>2, <1>3

LEMMA InsertKeeps ==
  ASSUME NEW x, NEW mm, HeapRight(x, mm), x.run = "idle", NEW v \in Val
  PROVE  LET k == Len(x.ph) + 1
         IN  HeapRight(HeapInsert(x, v), [j \in DOMAIN mm \cup {k} |-> IF j = k THEN v ELSE mm[j]])
<1> DEFINE n == x.size
           l == Len(x.h)
           N == Len(x.ph)
           j == n + 1
           k == N + 1
           h2 == Store(x.h, j, v)
           hp2 == Store(x.hp, j, k)
           ph2 == Append(x.ph, j)
           m2 == [i \in DOMAIN mm \cup {k} |-> IF i = k THEN v ELSE mm[i]]
           r == <<"return", 0>>
           z == HeapInsert(x, v)
<1>1. /\ x \in HeapState /\ Placed(x, mm) /\ Repairing(x, mm)
      /\ n \in Nat /\ l \in Nat /\ n <= l /\ x.h \in Seq(Val)
      /\ \A i \in 1 .. n : x.h[i] \in Int
  BY HeapIs
<1>2. x.hp \in Seq(Nat) /\ x.ph \in Seq(Nat)
  BY <1>1 DEF HeapState
<1>3. /\ mm \in [DOMAIN mm -> Val] /\ DOMAIN mm \subseteq 1 .. N
      /\ Len(x.hp) = l
      /\ \A i \in 1 .. n : x.hp[i] \in DOMAIN mm /\ x.ph[x.hp[i]] = i /\ x.h[i] = mm[x.hp[i]]
      /\ \A d \in DOMAIN mm : x.ph[d] \in 1 .. n /\ x.hp[x.ph[d]] = d
  BY <1>1 DEF Placed
<1>4. N \in Nat /\ k \in Nat /\ k \notin DOMAIN mm
  <2>1. N \in Nat
    BY <1>2, SeqIs
  <2>2. k \notin 1 .. N
    BY <2>1
  <2>3. QED
    BY <1>3, <2>1, <2>2
<1>5. Ordered(x.h, n)
  BY <1>1 DEF Repairing
<1>6. z = [h |-> h2, hp |-> hp2, ph |-> ph2, size |-> j, run |-> "up", at |-> j, after |-> r]
  BY DEF HeapInsert
<1>7. j \in 1 .. l + 1 /\ j \in Nat
  <2> HIDE DEF l, n
  <2> QED
    BY <1>1
<1> SUFFICES HeapRight(z, m2)
  OBVIOUS
<1>8. r \in {"return", "position", "element"} \X Nat /\ r[1] = "return"
  OBVIOUS
<1> HIDE DEF z, r, k, j
<1>9. Stored(h2, x.h, Val, j, v)
  BY <1>1, <1>7, StoreIs
<1>10. Stored(hp2, x.hp, Nat, j, k)
  <2>1. j \in 1 .. Len(x.hp) + 1
    BY <1>3, <1>7
  <2>2. QED
    BY <1>2, <1>4, <2>1, StoreIs
<1>11. ph2 \in Seq(Nat) /\ Len(ph2) = N + 1 /\ ph2[k] = j /\ \A i \in 1 .. N : ph2[i] = x.ph[i]
  BY <1>2, <1>7, AppendIs DEF k
<1>12. DOMAIN m2 = DOMAIN mm \cup {k} /\ m2[k] = v /\ \A d \in DOMAIN mm : m2[d] = mm[d]
  BY <1>4
<1>13. m2 \in [DOMAIN m2 -> Val]
  BY <1>3
<1> HIDE DEF h2, hp2, ph2, m2, l, n, N
<1>14. /\ h2 \in Seq(Val) /\ hp2 \in Seq(Nat) /\ Len(hp2) = Len(h2) /\ j <= Len(h2) /\ Len(h2) \in Nat
       /\ h2[j] = v /\ hp2[j] = k
       /\ \A i \in 1 .. l : i # j => h2[i] = x.h[i] /\ hp2[i] = x.hp[i]
  BY <1>1, <1>3, <1>7, <1>9, <1>10 DEF Stored, l
<1>15. \A i \in 1 .. n : i \in 1 .. l /\ i # j /\ i \in 1 .. j
  BY <1>1, <1>7 DEF j
<1>16. \A i \in 1 .. j : i = j \/ i \in 1 .. n
  BY <1>1 DEF j
<1>17. z \in HeapState
  BY <1>6, <1>7, <1>8, <1>11, <1>14 DEF HeapState
<1>18. /\ z.h = h2 /\ z.hp = hp2 /\ z.ph = ph2 /\ z.size = j
       /\ z.run = "up" /\ z.at = j /\ z.after = r
  BY <1>6
<1>19. ASSUME NEW i \in 1 .. j
       PROVE  hp2[i] \in DOMAIN m2 /\ ph2[hp2[i]] = i /\ h2[i] = m2[hp2[i]]
  <2>1. CASE i = j
    BY <1>11, <1>12, <1>14, <2>1
  <2>2. CASE i \in 1 .. n
    <3>1. hp2[i] = x.hp[i] /\ h2[i] = x.h[i]
      BY <1>14, <1>15, <2>2
    <3>2. x.hp[i] \in DOMAIN mm /\ x.ph[x.hp[i]] = i /\ x.h[i] = mm[x.hp[i]] /\ x.hp[i] \in 1 .. N
      BY <1>3, <2>2
    <3>3. QED
      BY <1>11, <1>12, <3>1, <3>2
  <2>3. QED
    BY <1>16, <2>1, <2>2
<1>20. ASSUME NEW d \in DOMAIN m2
       PROVE  ph2[d] \in 1 .. j /\ hp2[ph2[d]] = d
  <2>1. CASE d = k
    <3>1. j \in 1 .. j
      BY <1>1 DEF j
    <3>2. QED
      BY <1>11, <1>14, <2>1, <3>1
  <2>2. CASE d \in DOMAIN mm
    <3>1. x.ph[d] \in 1 .. n /\ x.hp[x.ph[d]] = d /\ d \in 1 .. N
      BY <1>3, <2>2
    <3>2. QED
      BY <1>11, <1>14, <1>15, <3>1
  <2>3. QED
    BY <1>12, <2>1, <2>2
<1>21. DOMAIN m2 \subseteq 1 .. Len(ph2)
  <2>1. 1 .. N \subseteq 1 .. N + 1 /\ k \in 1 .. N + 1
    BY <1>4 DEF k
  <2>2. QED
    BY <1>3, <1>11, <1>12, <2>1
<1>22. Placed(z, m2)
  BY <1>13, <1>14, <1>18, <1>19, <1>20, <1>21 DEF Placed
<1>23. RisingAt(h2, j, j)
  <2>1. \A i \in 1 .. n : h2[i] = x.h[i]
    BY <1>14, <1>15
  <2>2. QED
    BY <1>1, <1>5, <2>1, InsertedRises DEF j
<1>24. j \in 1 .. j + 1 /\ j # j + 1
  BY <1>1 DEF j
<1>25. Repairing(z, m2)
  BY <1>18, <1>23, <1>24 DEF Repairing
<1>26. QED
  BY <1>17, <1>22, <1>25 DEF HeapRight

\* Taking out the element at place u: it changes places with the last one, and leaves.
\* After says what comes after down().
LEMMA TakenOut ==
  ASSUME NEW x, NEW mm, HeapRight(x, mm), x.run = "idle", NEW u \in 1 .. x.size, NEW after,
         after \in {"return", "position", "element"} \X Nat,
         (after[1] = "return" /\ u = 1) \/ (after[1] = "position" /\ after[2] = u),
         NEW z, z = [HeapSwap(x, u, x.size) EXCEPT !.size = @ - 1, !.run = "down", !.at = u,
                                                    !.after = after]
  PROVE  HeapRight(z, WithoutKey(mm, x.hp[u]))
<1> DEFINE n == x.size
           k == x.hp[u]
           y == HeapSwap(x, u, n)
           m2 == WithoutKey(mm, k)
<1>1. /\ x \in HeapState /\ Placed(x, mm) /\ Repairing(x, mm)
      /\ n \in Nat /\ \A i \in 1 .. n : x.h[i] \in Int
  BY HeapIs
<1>2. Ordered(x.h, n)
  BY <1>1 DEF Repairing
<1>3. n \in 1 .. n /\ n >= 1 /\ u \in Nat /\ u \in 1 .. n /\ n - 1 \in Nat
  BY <1>1
<1>4. y \in HeapState /\ Placed(y, mm) /\ Exchanged(x, y, u, n)
  BY <1>1, <1>3, SwapPlaces
<1>5. z = [y EXCEPT !.size = @ - 1, !.run = "down", !.at = u, !.after = after]
  OBVIOUS
<1> HIDE DEF y
<1>7. /\ y.size = n
      /\ y.h[u] = x.h[n] /\ y.h[n] = x.h[u] /\ y.hp[n] = k
      /\ \A i \in 1 .. n : i # u /\ i # n => y.h[i] = x.h[i]
  BY <1>4 DEF Exchanged
<1>8. z = [y EXCEPT !.size = n - 1, !.run = "down", !.at = u, !.after = after]
  BY <1>5, <1>7
<1>9. /\ z \in HeapState /\ z.h = y.h /\ z.hp = y.hp /\ z.ph = y.ph /\ z.size = n - 1
      /\ z.run = "down" /\ z.at = u /\ z.after = after
  <2> HIDE DEF n
  <2> QED
    BY <1>3, <1>4, <1>8, Zenon DEF HeapState
<1>10. Placed(z, m2)
  <2>1. Placed(z, WithoutKey(mm, y.hp[y.size]))
    BY <1>3, <1>4, <1>7, <1>9, LastPlaceLeaves, Zenon
  <2>2. QED
    BY <1>7, <2>1
<1> HIDE DEF n, m2, k
<1>11. \A i \in 1 .. n - 1 : i \in 1 .. n /\ i # n
  BY <1>1
<1>12. SinkingAt(y.h, n - 1, u)
  <2>1. n - 1 \in 0 .. n
    BY <1>1, <1>3
  <2>2. \A i \in 1 .. n - 1 : i # u => y.h[i] = x.h[i]
    BY <1>7, <1>11
  <2>3. QED
    BY <1>1, <1>2, <1>3, <2>1, <2>2, ReplacedSinks
<1>13. u \in 1 .. n - 1 + 1 /\ n - 1 + 1 = n
  BY <1>1, <1>3
<1>14. u = n => AtHome(y.h, u)
  <2> SUFFICES ASSUME u = n, u >= 2 PROVE ~(y.h[u] < y.h[Half(u)])
    BY DEF AtHome
  <2>1. Half(u) \in Nat /\ Half(u) >= 1 /\ Half(u) < u
    BY <1>3, HalfIs
  <2>2. Half(u) \in 1 .. n /\ Half(u) # u /\ u \in 2 .. n
    BY <1>1, <1>3, <2>1
  <2>3. x.h[Half(u)] <= x.h[u] /\ x.h[Half(u)] \in Int /\ x.h[u] \in Int
    BY <1>1, <1>2, <1>3, <2>2 DEF Ordered
  <2>4. y.h[u] = x.h[u] /\ y.h[Half(u)] = x.h[Half(u)]
    BY <1>7, <2>2
  <2>5. QED
    BY <2>3, <2>4
<1>15. \/ after[1] = "return" /\ u = 1 /\ AtHome(y.h, u)
       \/ after[1] = "position" /\ after[2] = u
  BY DEF AtHome
<1>16. Repairing(z, m2)
  <2>1. /\ z.run = "down" /\ z.size = n - 1 /\ z.at = u /\ z.h = y.h /\ z.after = after
        /\ SinkingAt(z.h, z.size, z.at)
        /\ z.at = z.size + 1 => AtHome(z.h, z.at)
    BY <1>9, <1>12, <1>13, <1>14
  <2>2. QED
    BY <1>13, <1>15, <2>1 DEF Repairing
<1>17. QED
  BY <1>9, <1>10, <1>16 DEF HeapRight, m2, k

LEMMA ChangeKeeps ==
  ASSUME NEW x, NEW mm, HeapRight(x, mm), x.run = "idle", NEW k \in DOMAIN mm, NEW v \in Val,
         NEW after, after = <<"element", k>> \/ after = <<"position", x.ph[k]>>,
         NEW z, z = [x EXCEPT !.h[x.ph[k]] = v, !.run = "down", !.at = x.ph[k], !.after = after]
  PROVE  HeapRight(z, [mm EXCEPT ![k] = v])
<1> DEFINE n == x.size
           l == Len(x.h)
           u == x.ph[k]
           h2 == [x.h EXCEPT ![u] = v]
           m2 == [mm EXCEPT ![k] = v]
<1>1. /\ x \in HeapState /\ Placed(x, mm) /\ Repairing(x, mm)
      /\ n \in Nat /\ l \in Nat /\ n <= l /\ x.h \in Seq(Val)
      /\ \A i \in 1 .. n : x.h[i] \in Int
  BY HeapIs
<1>2. /\ mm \in [DOMAIN mm -> Val] /\ DOMAIN mm \subseteq 1 .. Len(x.ph)
      /\ Len(x.hp) = l
      /\ \A i \in 1 .. n : x.hp[i] \in DOMAIN mm /\ x.ph[x.hp[i]] = i /\ x.h[i] = mm[x.hp[i]]
      /\ \A d \in DOMAIN mm : x.ph[d] \in 1 .. n /\ x.hp[x.ph[d]] = d
  BY <1>1 DEF Placed
<1>3. Ordered(x.h, n)
  BY <1>1 DEF Repairing
<1>4. u \in 1 .. n /\ x.hp[u] = k /\ k \in Nat
  <2>1. x.ph \in Seq(Nat)
    BY <1>1 DEF HeapState
  <2>2. Len(x.ph) \in Nat
    BY <2>1, SeqIs
  <2>3. QED
    BY <1>2, <2>2
<1>5. z = [x EXCEPT !.h = h2, !.run = "down", !.at = u, !.after = after]
  OBVIOUS
<1>6. DOMAIN m2 = DOMAIN mm /\ m2[k] = v /\ \A d \in DOMAIN mm : d # k => m2[d] = mm[d]
  BY <1>2
<1>7. m2 \in [DOMAIN m2 -> Val]
  BY <1>2
<1>8. u \in 1 .. l + 1 /\ u <= l /\ u \in Nat
  <2> HIDE DEF u, n, l
  <2> QED
    BY <1>1, <1>4
<1>9. Stored(h2, x.h, Val, u, v)
  <2> HIDE DEF u
  <2>1. h2 = Store(x.h, u, v) /\ Stored(Store(x.h, u, v), x.h, Val, u, v)
    BY <1>1, <1>8, StoreIs
  <2>2. QED
    BY <2>1
<1>10. after \in {"return", "position", "element"} \X Nat
  BY <1>4, <1>8
<1> HIDE DEF h2, m2, l
<1>11. h2 \in Seq(Val) /\ Len(h2) = l /\ h2[u] = v /\ \A i \in 1 .. l : i # u => h2[i] = x.h[i]
  BY <1>8, <1>9 DEF Stored, l
<1>12. \A i \in 1 .. n : i \in 1 .. l
  <2> HIDE DEF n
  <2> QED
    BY <1>1
<1> HIDE DEF u
<1>13. /\ z \in HeapState /\ z.h = h2 /\ z.hp = x.hp /\ z.ph = x.ph /\ z.size = n
       /\ z.run = "down" /\ z.at = u /\ z.after = after
  BY <1>1, <1>5, <1>8, <1>10, <1>11, Zenon DEF HeapState
<1>14. ASSUME NEW i \in 1 .. n
       PROVE  x.hp[i] \in DOMAIN m2 /\ x.ph[x.hp[i]] = i /\ h2[i] = m2[x.hp[i]]
  <2>1. CASE i = u
    BY <1>2, <1>4, <1>6, <1>11, <2>1
  <2>2. CASE i # u
    <3>1. x.hp[i] # k
      BY <1>2, <2>2 DEF u
    <3>2. h2[i] = x.h[i]
      BY <1>11, <1>12, <2>2
    <3>3. QED
      BY <1>2, <1>6, <3>1, <3>2
  <2>3. QED
    BY <2>1, <2>2
<1>15. Placed(z, m2)
  <2>1. \A d \in DOMAIN m2 : x.ph[d] \in 1 .. n /\ x.hp[x.ph[d]] = d
    BY <1>2, <1>6
  <2>2. DOMAIN m2 \subseteq 1 .. Len(x.ph) /\ Len(x.hp) = Len(h2) /\ n <= Len(h2)
    BY <1>1, <1>2, <1>6, <1>11 DEF l
  <2> HIDE DEF n
  <2>3. QED
    <3>1. DOMAIN m2 \subseteq 1 .. Len(z.ph) /\ Len(z.hp) = Len(z.h) /\ z.size <= Len(z.h)
      BY <1>13, <2>2
    <3>2. \A j \in 1 .. z.size : z.hp[j] \in DOMAIN m2 /\ z.ph[z.hp[j]] = j /\ z.h[j] = m2[z.hp[j]]
      BY <1>13, <1>14
    <3>3. \A d \in DOMAIN m2 : z.ph[d] \in 1 .. z.size /\ z.hp[z.ph[d]] = d
      BY <1>13, <2>1
    <3>4. QED
      BY <1>7, <3>1, <3>2, <3>3, Zenon DEF Placed
<1> HIDE DEF n
<1>16. SinkingAt(h2, n, u)
  <2>1. \A i \in 1 .. n : i # u => h2[i] = x.h[i]
    BY <1>11, <1>12
  <2>2. n \in 0 .. n
    BY <1>1
  <2>3. QED
    BY <1>1, <1>3, <1>4, <2>1, <2>2, ReplacedSinks
<1>17. u \in 1 .. n + 1 /\ u # n + 1
  BY <1>1, <1>4
<1>18. (after[1] = "position" /\ after[2] = u) \/ (after[1] = "element" /\ after[2] = k)
  BY DEF u
<1>19. Repairing(z, m2)
  <2>1. z.run = "down" /\ z.size = n /\ z.at = u /\ z.h = h2 /\ z.after = after /\ z.ph = x.ph
    BY <1>13
  <2>2. k \in DOMAIN m2 /\ x.ph[k] = u
    BY <1>6 DEF u
  <2>3. QED
    BY <1>16, <1>17, <1>18, <2>1, <2>2 DEF Repairing
<1>20. QED
  BY <1>13, <1>15, <1>19 DEF HeapRight, m2

\* The front is the least element, and its place is the first.
LEMMA FrontIs ==
  ASSUME NEW x, NEW mm, HeapRight(x, mm), x.run = "idle", x.size > 0
  PROVE  /\ x.h[1] = Least(mm) /\ 1 \in 1 .. x.size
         /\ \A k \in DOMAIN mm : (\A j \in DOMAIN mm \ {k} : mm[k] < mm[j]) => x.hp[1] = k
<1> DEFINE n == x.size
           V == {mm[k] : k \in DOMAIN mm}
<1>1. /\ x \in HeapState /\ Placed(x, mm) /\ Repairing(x, mm)
      /\ n \in Nat /\ \A i \in 1 .. n : x.h[i] \in Int
  BY HeapIs
<1>2. /\ \A i \in 1 .. n : x.hp[i] \in DOMAIN mm /\ x.h[i] = mm[x.hp[i]]
      /\ \A d \in DOMAIN mm : x.ph[d] \in 1 .. n /\ x.hp[x.ph[d]] = d
  BY <1>1 DEF Placed
<1>3. Ordered(x.h, n)
  BY <1>1 DEF Repairing
<1>4. n \in Nat \ {0} /\ 1 \in 1 .. n
  <2>1. n > 0
    OBVIOUS
  <2> HIDE DEF n
  <2>2. QED
    BY <1>1, <2>1
<1>5. \A i \in 1 .. n : x.h[1] <= x.h[i]
  BY <1>1, <1>3, <1>4, FrontIsLeast
<1>6. \A k \in DOMAIN mm : mm[k] \in Int /\ x.h[1] <= mm[k]
  <2>1. ASSUME NEW k \in DOMAIN mm
        PROVE  mm[k] \in Int /\ x.h[1] <= mm[k]
    <3>1. x.ph[k] \in 1 .. n /\ x.hp[x.ph[k]] = k
      BY <1>2
    <3>2. x.h[x.ph[k]] = mm[k]
      BY <1>2, <3>1
    <3>3. QED
      BY <1>1, <1>5, <3>1, <3>2
  <2>2. QED
    BY <2>1
<1>7. x.hp[1] \in DOMAIN mm /\ x.h[1] = mm[x.hp[1]]
  BY <1>2, <1>4
<1>8. Min(V) = x.h[1]
  <2>1. V \subseteq Int /\ x.h[1] \in V /\ \A w \in V : x.h[1] <= w
    BY <1>6, <1>7
  <2> HIDE DEF V
  <2>2. QED
    BY <2>1, MinIs
<1>9. ASSUME NEW k \in DOMAIN mm, \A j \in DOMAIN mm \ {k} : mm[k] < mm[j]
      PROVE  x.hp[1] = k
  <2> SUFFICES ASSUME x.hp[1] # k PROVE FALSE
    OBVIOUS
  <2>1. mm[k] < mm[x.hp[1]]
    BY <1>7, <1>9
  <2>2. mm[k] \in Int /\ mm[x.hp[1]] \in Int /\ mm[x.hp[1]] <= mm[k]
    BY <1>6, <1>7
  <2>3. QED
    BY <2>1, <2>2
<1>10. QED
  BY <1>4, <1>8, <1>9 DEF Least

LEMMA HeapCallStep ==
  ASSUME HeapInv, HeapCall
  PROVE  HeapInv' /\ AnswersAgree'
<1> USE DEF HeapInv
<1>1. HeapRight(s, m) /\ s.run = "idle"
  BY DEF HeapCall
<1>2. s \in HeapState /\ Placed(s, m) /\ Repairing(s, m) /\ s.size \in Nat
  BY <1>1, HeapIs
<1>3. s.after[1] = "return"
  BY <1>1, <1>2 DEF Repairing
<1>4. ASSUME NEW v \in Val,
             LET k == Len(s.ph) + 1 IN
               Call(HeapInsert(s, v), [j \in DOMAIN m \cup {k} |-> IF j = k THEN v ELSE m[j]], Void, Void)
      PROVE  HeapInv' /\ AnswersAgree'
  <2> DEFINE k == Len(s.ph) + 1
             m2 == [j \in DOMAIN m \cup {k} |-> IF j = k THEN v ELSE m[j]]
  <2>1. HeapRight(HeapInsert(s, v), m2)
    BY <1>1, InsertKeeps
  <2>2. s' = HeapInsert(s, v) /\ m' = m2 /\ AnswersAgree'
    BY <1>4 DEF Call, AnswersAgree
  <2> HIDE DEF m2
  <2>3. HeapRight(s', m')
    BY <2>1, <2>2
  <2>4. QED
    BY <2>2, <2>3
<1>5. ASSUME s.size > 0, Call(s, m, s.h[1], Least(m))
      PROVE  HeapInv' /\ AnswersAgree'
  <2>1. s.h[1] = Least(m)
    BY <1>1, <1>5, FrontIs
  <2>2. s' = s /\ m' = m /\ AnswersAgree'
    BY <1>5, <2>1 DEF Call, AnswersAgree
  <2>3. HeapRight(s', m')
    BY <1>1, <2>2
  <2>4. QED
    BY <2>2, <2>3
<1>6. ASSUME s.size > 0, NEW k \in DOMAIN m, \A j \in DOMAIN m \ {k} : m[k] < m[j],
             Call(HeapDeleteMin(s), WithoutKey(m, k), Void, Void)
      PROVE  HeapInv' /\ AnswersAgree'
  <2>1. s.hp[1] = k /\ 1 \in 1 .. s.size
    BY <1>1, <1>6, FrontIs
  <2> DEFINE y == HeapSwap(s, 1, s.size)
             z == [y EXCEPT !.size = @ - 1, !.run = "down", !.at = 1, !.after = s.after]
  <2>2. s.after \in {"return", "position", "element"} \X Nat
    BY <1>2 DEF HeapState
  <2>3. HeapRight(z, WithoutKey(m, k))
    BY <1>1, <1>3, <2>1, <2>2, TakenOut
  <2>4. y \in HeapState /\ y.after = s.after
    <3>1. s.size \in 1 .. s.size
      BY <1>2, <2>1
    <3>2. y \in HeapState /\ Exchanged(s, y, 1, s.size)
      BY <1>2, <2>1, <3>1, SwapPlaces
    <3>3. QED
      BY <3>2 DEF Exchanged
  <2>5. HeapDeleteMin(s) = [y EXCEPT !.size = @ - 1, !.run = "down", !.at = 1]
    BY DEF HeapDeleteMin
  <2> HIDE DEF y
  <2>6. HeapDeleteMin(s) = z
    BY <2>4, <2>5, Zenon DEF HeapState
  <2>7. s' = HeapDeleteMin(s) /\ m' = WithoutKey(m, k) /\ AnswersAgree'
    BY <1>6 DEF Call, AnswersAgree
  <2> HIDE DEF z
  <2>8. HeapRight(s', m')
    BY <2>3, <2>6, <2>7
  <2>9. QED
    BY <2>7, <2>8
<1>7. ASSUME NEW k \in DOMAIN m, Call(HeapDelete(s, k), WithoutKey(m, k), Void, Void)
      PROVE  HeapInv' /\ AnswersAgree'
  <2> DEFINE u == s.ph[k]
             a == <<"position", u>>
             z == [HeapSwap(s, u, s.size) EXCEPT !.size = @ - 1, !.run = "down", !.at = u, !.after = a]
  <2>1. u \in 1 .. s.size /\ s.hp[u] = k
    BY <1>2 DEF Placed
  <2> HIDE DEF u
  <2>2. a \in {"return", "position", "element"} \X Nat /\ a[1] = "position" /\ a[2] = u
    BY <1>2, <2>1
  <2> HIDE DEF a
  <2>3. HeapRight(z, WithoutKey(m, k))
    BY <1>1, <2>1, <2>2, TakenOut
  <2>4. HeapDelete(s, k) = z
    BY DEF HeapDelete, u, a
  <2>5. s' = HeapDelete(s, k) /\ m' = WithoutKey(m, k) /\ AnswersAgree'
    BY <1>7 DEF Call, AnswersAgree
  <2> HIDE DEF z
  <2>6. HeapRight(s', m')
    BY <2>3, <2>4, <2>5
  <2>7. QED
    BY <2>5, <2>6
<1>8. ASSUME NEW k \in DOMAIN m, NEW v \in Val,
             Call(IF kind = "mockHeap" THEN HeapChange(s, k, v) ELSE SimulateHeapChange(s, k, v),
                  [m EXCEPT ![k] = v], Void, Void)
      PROVE  HeapInv' /\ AnswersAgree'
  <2> DEFINE Z(a) == [s EXCEPT !.h[s.ph[k]] = v, !.run = "down", !.at = s.ph[k], !.after = a]
             m2 == [m EXCEPT ![k] = v]
  <2>1. \A a : a = <<"element", k>> \/ a = <<"position", s.ph[k]>> => HeapRight(Z(a), m2)
    BY <1>1, ChangeKeeps
  <2>2. /\ HeapChange(s, k, v) = Z(<<"element", k>>)
        /\ SimulateHeapChange(s, k, v) = Z(<<"position", s.ph[k]>>)
    BY DEF HeapChange, SimulateHeapChange
  <2> HIDE DEF m2, Z
  <2>3. /\ s' = Z(<<"element", k>>) \/ s' = Z(<<"position", s.ph[k]>>)
        /\ m' = m2 /\ AnswersAgree'
    BY <1>8, <2>2 DEF Call, AnswersAgree, m2
  <2>4. HeapRight(s', m')
    BY <2>1, <2>3
  <2>5. QED
    BY <2>3, <2>4
<1>9. QED
  BY <1>4, <1>5, <1>6, <1>7, <1>8 DEF HeapCall

LEMMA HeapTurnStep ==
  ASSUME HeapInv, AnswersAgree, HeapTurn
  PROVE  HeapInv' /\ AnswersAgree'
<1> USE DEF HeapInv
<1>1. HeapRight(s, m)
  OBVIOUS
<1>2. s \in HeapState /\ Repairing(s, m)
  BY <1>1, HeapIs
<1>3. ASSUME NEW z, HeapRight(z, m), Turn(z)
      PROVE  HeapInv' /\ AnswersAgree'
  <2>1. s' = z /\ m' = m /\ ans' = ans
    BY <1>3 DEF Turn
  <2>2. HeapRight(s', m')
    BY <1>3, <2>1
  <2>3. QED
    BY <2>1, <2>2 DEF AnswersAgree
<1>4. CASE Down
  <2> DEFINE t == Smallest(s, s.at)
  <2>1. s.run = "down"
    BY <1>4 DEF Down
  <2>2. CASE t # s.at /\ Turn([HeapSwap(s, t, s.at) EXCEPT !.at = t])
    <3>1. HeapRight([HeapSwap(s, t, s.at) EXCEPT !.at = t], m)
      BY <1>1, <2>1, <2>2, DownMoves
    <3>2. QED
      BY <1>3, <2>2, <3>1
  <2>3. CASE t = s.at /\ s.after[1] = "return" /\ Turn([s EXCEPT !.run = "idle", !.at = 0])
    <3>1. HeapRight([s EXCEPT !.run = "idle", !.at = 0], m)
      <4>1. DownEnd(s, m)
        BY <1>1, <2>1, <2>3, DownEnds
      <4>2. QED
        BY <2>3, <4>1, Zenon DEF DownEnd
    <3>2. QED
      BY <1>3, <2>3, <3>1
  <2>4. CASE t = s.at /\ s.after[1] = "position" /\ Turn([s EXCEPT !.run = "up", !.at = s.after[2]])
    <3>1. HeapRight([s EXCEPT !.run = "up", !.at = s.after[2]], m)
      <4>1. DownEnd(s, m)
        BY <1>1, <2>1, <2>4, DownEnds
      <4>2. QED
        BY <2>4, <4>1, Zenon DEF DownEnd
    <3>2. QED
      BY <1>3, <2>4, <3>1
  <2>5. CASE /\ t = s.at /\ s.after[1] = "element"
             /\ Turn([s EXCEPT !.run = "up", !.at = s.ph[s.after[2]]])
    <3>1. HeapRight([s EXCEPT !.run = "up", !.at = s.ph[s.after[2]]], m)
      <4>1. DownEnd(s, m)
        BY <1>1, <2>1, <2>5, DownEnds
      <4>2. QED
        BY <2>5, <4>1, Zenon DEF DownEnd
    <3>2. QED
      BY <1>3, <2>5, <3>1
  <2>6. QED
    BY <1>4, <2>2, <2>3, <2>4, <2>5 DEF Down
<1>5. CASE Up
  <2> DEFINE p == s.at \div 2
             above == p # 0 /\ s.h[s.at] < s.h[p]
  <2>1. s.run = "up"
    BY <1>5 DEF Up
  <2>2. CASE above /\ Turn([HeapSwap(s, s.at, p) EXCEPT !.at = p])
    <3>1. HeapRight([HeapSwap(s, s.at, p) EXCEPT !.at = p], m)
      BY <1>1, <2>1, <2>2, UpMoves
    <3>2. QED
      BY <1>3, <2>2, <3>1
  <2>3. CASE ~above /\ Turn([s EXCEPT !.run = "idle", !.at = 0, !.after = <<"return", 0>>])
    <3>1. HeapRight([s EXCEPT !.run = "idle", !.at = 0, !.after = <<"return", 0>>], m)
      BY <1>1, <2>1, <2>3, UpEnds
    <3>2. QED
      BY <1>3, <2>3, <3>1
  <2>4. QED
    BY <1>5, <2>2, <2>3 DEF Up
<1>6. QED
  BY <1>4, <1>5 DEF HeapTurn

LEMMA HeapInvIsSound ==
  ASSUME HeapInv
  PROVE  HeapSound
<1>1. s \in HeapState /\ Placed(s, m) /\ Repairing(s, m)
  BY HeapIs DEF HeapInv
<1>2. s.size = Cardinality(DOMAIN m)
  BY <1>1, SizeIsCardinality
<1>3. s.run = "idle" => \A j \in 2 .. s.size : s.h[j \div 2] <= s.h[j]
  BY <1>1 DEF Repairing, Ordered, Half
<1>4. \A k \in DOMAIN m : s.ph[k] \in 1 .. s.size /\ s.hp[s.ph[k]] = k /\ s.h[s.ph[k]] = m[k]
  BY <1>1 DEF Placed
<1>5. QED
  BY <1>2, <1>3, <1>4 DEF HeapSound

-----------------------------------------------------------------------------
(* Forests, as find() and the union operations change them.                *)

Closed(d, S) == S \subseteq DOMAIN d /\ \A z \in S : d[z] \in S

\* Following d leads out of every set, or comes to rest in it: there is no cycle.
Forest(d, N) ==
  /\ d \in [N -> N]
  /\ \A S \in SUBSET N : S # {} => \E x \in S : d[x] = x \/ d[x] \notin S

LEMMA AncestorsAre ==
  ASSUME NEW N, NEW d \in [N -> N], NEW x \in N
  PROVE  /\ x \in Ancestors(d, x) /\ Closed(d, Ancestors(d, x)) /\ Ancestors(d, x) \subseteq N
         /\ \A S : x \in S /\ Closed(d, S) => Ancestors(d, x) \subseteq S
<1> DEFINE A == Ancestors(d, x)
           C == {S \in SUBSET DOMAIN d : x \in S /\ \A z \in S : d[z] \in S}
<1>1. DOMAIN d = N
  OBVIOUS
<1>2. A = {y \in N : \A S \in C : y \in S}
  BY <1>1 DEF Ancestors
<1>3. \A S : S \in C <=> x \in S /\ Closed(d, S)
  BY DEF Closed
<1> HIDE DEF A, C
<1>4. x \in A /\ A \subseteq N
  BY <1>2, <1>3
<1>5. ASSUME NEW z \in A
      PROVE  d[z] \in A
  <2>1. z \in N /\ d[z] \in N
    BY <1>2
  <2>2. ASSUME NEW S \in C
        PROVE  d[z] \in S
    <3>1. z \in S /\ Closed(d, S)
      BY <1>2, <1>3
    <3>2. QED
      BY <3>1 DEF Closed
  <2>3. QED
    BY <1>2, <2>1, <2>2
<1>6. Closed(d, A)
  BY <1>1, <1>4, <1>5 DEF Closed
<1>7. \A S : x \in S /\ Closed(d, S) => A \subseteq S
  BY <1>2, <1>3
<1>8. QED
  BY <1>4, <1>6, <1>7 DEF A

\* One step up.
LEMMA AncestorsUnfold ==
  ASSUME NEW N, NEW d \in [N -> N], NEW x \in N
  PROVE  Ancestors(d, x) = {x} \cup Ancestors(d, d[x])
<1>1. d[x] \in N /\ DOMAIN d = N
  OBVIOUS
<1> DEFINE A == Ancestors(d, x)
           B == Ancestors(d, d[x])
<1>2. x \in A /\ Closed(d, A) /\ \A S : x \in S /\ Closed(d, S) => A \subseteq S
  BY AncestorsAre
<1>3. d[x] \in B /\ Closed(d, B) /\ \A S : d[x] \in S /\ Closed(d, S) => B \subseteq S
  BY <1>1, AncestorsAre
<1> HIDE DEF A, B
<1>4. Closed(d, {x} \cup B)
  BY <1>1, <1>3 DEF Closed
<1>5. A \subseteq {x} \cup B
  BY <1>2, <1>4
<1>6. d[x] \in A
  BY <1>2 DEF Closed
<1>7. B \subseteq A
  BY <1>2, <1>3, <1>6
<1>8. QED
  BY <1>2, <1>5, <1>7 DEF A, B

LEMMA RootIs ==
  ASSUME NEW N, NEW d, Forest(d, N), NEW x \in N
  PROVE  /\ Root(d, x) \in Ancestors(d, x) /\ Root(d, x) \in N /\ d[Root(d, x)] = Root(d, x)
         /\ \A r \in Ancestors(d, x) : d[r] = r => r = Root(d, x)
<1>1. d \in [N -> N] /\ \A S \in SUBSET N : S # {} => \E y \in S : d[y] = y \/ d[y] \notin S
  BY DEF Forest
<1>2. \E r \in Ancestors(d, x) : d[r] = r
  <2> DEFINE A == Ancestors(d, x)
  <2>1. A \in SUBSET N /\ A # {} /\ Closed(d, A)
    BY <1>1, AncestorsAre
  <2> HIDE DEF A
  <2>2. PICK y \in A : d[y] = y \/ d[y] \notin A
    BY <1>1, <2>1
  <2>3. d[y] = y
    BY <2>1, <2>2 DEF Closed
  <2>4. QED
    BY <2>3 DEF A
<1> DEFINE Two == {y \in N : \E p, q \in Ancestors(d, y) : d[p] = p /\ d[q] = q /\ p # q}
<1>3. Two = {}
  <2> SUFFICES ASSUME Two # {} PROVE FALSE
    OBVIOUS
  <2>1. PICK y \in Two : d[y] = y \/ d[y] \notin Two
    <3>1. Two \in SUBSET N
      OBVIOUS
    <3> HIDE DEF Two
    <3>2. QED
      BY <1>1, <3>1
  <2>2. y \in N /\ d[y] \in N
    BY <1>1
  <2>3. PICK p, q \in Ancestors(d, y) : d[p] = p /\ d[q] = q /\ p # q
    OBVIOUS
  <2>4. Ancestors(d, y) = {y} \cup Ancestors(d, d[y])
    BY <1>1, <2>2, AncestorsUnfold
  <2>5. CASE d[y] = y
    <3>1. Closed(d, {y})
      BY <1>1, <2>2, <2>5 DEF Closed
    <3>2. Ancestors(d, y) \subseteq {y}
      BY <1>1, <2>2, <3>1, AncestorsAre
    <3>3. QED
      BY <2>3, <3>2
  <2>6. CASE d[y] # y
    <3>1. d[y] \notin Two
      BY <2>1, <2>6
    <3>2. p \in Ancestors(d, d[y]) /\ q \in Ancestors(d, d[y])
      BY <2>3, <2>4, <2>6
    <3>3. QED
      BY <2>2, <2>3, <3>1, <3>2
  <2>7. QED
    BY <2>5, <2>6
<1>4. Root(d, x) \in Ancestors(d, x) /\ d[Root(d, x)] = Root(d, x)
  BY <1>2 DEF Root
<1>5. Ancestors(d, x) \subseteq N
  BY <1>1, AncestorsAre
<1>6. \A r \in Ancestors(d, x) : d[r] = r => r = Root(d, x)
  BY <1>3, <1>4
<1>7. QED
  BY <1>4, <1>5, <1>6

LEMMA RootStep ==
  ASSUME NEW N, NEW d, Forest(d, N), NEW x \in N
  PROVE  Root(d, d[x]) = Root(d, x) /\ (d[x] = x => Root(d, x) = x)
<1>1. d \in [N -> N] /\ d[x] \in N
  BY DEF Forest
<1>2. Ancestors(d, x) = {x} \cup Ancestors(d, d[x])
  BY <1>1, AncestorsUnfold
<1>3. \A r \in Ancestors(d, x) : d[r] = r => r = Root(d, x)
  BY RootIs
<1>4. Root(d, d[x]) \in Ancestors(d, d[x]) /\ d[Root(d, d[x])] = Root(d, d[x])
  BY <1>1, RootIs
<1>5. x \in Ancestors(d, x)
  BY <1>2
<1>6. QED
  BY <1>2, <1>3, <1>4, <1>5

\* The ancestors of an element have its root.
LEMMA RootOfAncestor ==
  ASSUME NEW N, NEW d, Forest(d, N), NEW x \in N, NEW y \in Ancestors(d, x)
  PROVE  y \in N /\ Root(d, y) = Root(d, x)
<1>1. d \in [N -> N]
  BY DEF Forest
<1>2. y \in N /\ Closed(d, Ancestors(d, x))
  BY <1>1, AncestorsAre
<1>3. Ancestors(d, y) \subseteq Ancestors(d, x)
  BY <1>1, <1>2, AncestorsAre
<1>4. Root(d, y) \in Ancestors(d, y) /\ d[Root(d, y)] = Root(d, y)
  BY <1>2, RootIs
<1>5. \A r \in Ancestors(d, x) : d[r] = r => r = Root(d, x)
  BY RootIs
<1>6. QED
  BY <1>2, <1>3, <1>4, <1>5

\* A function that is constant along d is the root.
LEMMA RootIsUnique ==
  ASSUME NEW N, NEW d, Forest(d, N), NEW f,
         \A x \in N : (d[x] = x => f[x] = x) /\ (d[x] # x => f[x] = f[d[x]])
  PROVE  \A x \in N : Root(d, x) = f[x]
<1> DEFINE Bad == {x \in N : Root(d, x) # f[x]}
<1> SUFFICES ASSUME Bad # {} PROVE FALSE
  OBVIOUS
<1>1. d \in [N -> N] /\ \A S \in SUBSET N : S # {} => \E y \in S : d[y] = y \/ d[y] \notin S
  BY DEF Forest
<1>2. PICK x \in Bad : d[x] = x \/ d[x] \notin Bad
  <2>1. Bad \in SUBSET N
    OBVIOUS
  <2> HIDE DEF Bad
  <2>2. QED
    BY <1>1, <2>1
<1>3. x \in N /\ Root(d, x) # f[x] /\ d[x] \in N
  BY <1>1
<1>4. Root(d, d[x]) = Root(d, x) /\ (d[x] = x => Root(d, x) = x)
  BY <1>3, RootStep
<1>5. QED
  BY <1>2, <1>3, <1>4

\* d2 is a forest with the trees of d.
SameTrees(d2, d, N) == Forest(d2, N) /\ \A y \in N : Root(d2, y) = Root(d, y)

LEMMA FindIs ==
  ASSUME NEW N, NEW d, Forest(d, N), NEW x \in N
  PROVE  /\ SameTrees(Find(d, x), d, N) /\ Find(d, x)[x] = Root(d, x)
         /\ \A y \in N : d[y] = Root(d, y) => Find(d, x)[y] = Root(d, y)
<1> DEFINE A == Ancestors(d, x)
           r == Root(d, x)
           d2 == Find(d, x)
           f == [y \in N |-> Root(d, y)]
<1>1. d \in [N -> N] /\ \A S \in SUBSET N : S # {} => \E y \in S : d[y] = y \/ d[y] \notin S
  BY DEF Forest
<1>2. x \in A /\ A \subseteq N /\ r \in A /\ r \in N /\ d[r] = r
  BY <1>1, AncestorsAre, RootIs
<1>3. \A y \in A : Root(d, y) = r
  BY RootOfAncestor
<1>4. d2 = [y \in N |-> IF y \in A THEN r ELSE d[y]]
  BY <1>1 DEF Find
<1> HIDE DEF A, r, d2, f
<1>5. d2 \in [N -> N] /\ (\A y \in N : y \in A => d2[y] = r) /\ (\A y \in N : y \notin A => d2[y] = d[y])
  BY <1>1, <1>2, <1>4
<1>6. Forest(d2, N)
  <2>1. ASSUME NEW S \in SUBSET N, S # {}
        PROVE  \E y \in S : d2[y] = y \/ d2[y] \notin S
    <3>1. CASE r \in S
      BY <1>2, <1>5, <3>1
    <3>2. CASE r \notin S /\ \E y \in S : y \in A
      BY <1>5, <3>2
    <3>3. CASE \A y \in S : y \notin A
      <4>1. PICK y \in S : d[y] = y \/ d[y] \notin S
        BY <1>1, <2>1
      <4>2. d2[y] = d[y]
        BY <1>5, <3>3
      <4>3. QED
        BY <4>1, <4>2
    <3>4. QED
      BY <3>1, <3>2, <3>3
  <2>2. QED
    BY <1>5, <2>1 DEF Forest
<1>7. \A y \in N : f[y] = Root(d, y)
  BY DEF f
<1>8. Root(d, r) = r
  BY <1>2, <1>3
<1>9. ASSUME NEW y \in N
      PROVE  (d2[y] = y => f[y] = y) /\ (d2[y] # y => f[y] = f[d2[y]])
  <2>1. CASE y \in A
    BY <1>2, <1>3, <1>5, <1>7, <1>8, <2>1
  <2>2. CASE y \notin A
    <3>1. Root(d, d[y]) = Root(d, y) /\ (d[y] = y => Root(d, y) = y) /\ d[y] \in N
      BY <1>1, RootStep
    <3>2. QED
      BY <1>5, <1>7, <2>2, <3>1
  <2>3. QED
    BY <2>1, <2>2
<1>10. \A y \in N : Root(d2, y) = f[y]
  BY <1>6, <1>9, RootIsUnique
<1>11. SameTrees(d2, d, N)
  BY <1>6, <1>7, <1>10 DEF SameTrees
<1>12. d2[x] = r
  BY <1>2, <1>5
<1>13. \A y \in N : d[y] = Root(d, y) => d2[y] = Root(d, y)
  BY <1>3, <1>5
<1>14. QED
  BY <1>11, <1>12, <1>13 DEF d2, r

\* What both finds of an operation do.
Flattened(d2, d, N, a, b) ==
  /\ SameTrees(d2, d, N)
  /\ d2[a] = Root(d, a) /\ d2[b] = Root(d, b)
  /\ d2[a] \in N /\ d2[b] \in N /\ d2[d2[a]] = d2[a] /\ d2[d2[b]] = d2[b]

LEMMA TwoFinds ==
  ASSUME NEW N, NEW d, Forest(d, N), NEW a \in N, NEW b \in N
  PROVE  Flattened(Find(Find(d, a), b), d, N, a, b)
<1> DEFINE d1 == Find(d, a)
           d2 == Find(d1, b)
<1>1. SameTrees(d1, d, N) /\ d1[a] = Root(d, a)
  BY FindIs
<1> HIDE DEF d1
<1>2. Forest(d1, N) /\ \A y \in N : Root(d1, y) = Root(d, y)
  BY <1>1 DEF SameTrees
<1>3. /\ SameTrees(d2, d1, N) /\ d2[b] = Root(d1, b)
      /\ \A y \in N : d1[y] = Root(d1, y) => d2[y] = Root(d1, y)
  BY <1>2, FindIs
<1> HIDE DEF d2
<1>4. Forest(d2, N) /\ \A y \in N : Root(d2, y) = Root(d, y)
  BY <1>2, <1>3 DEF SameTrees
<1>5. d2[a] = Root(d, a) /\ d2[b] = Root(d, b)
  BY <1>1, <1>2, <1>3
<1>6. \A y \in N : Root(d2, y) \in N /\ d2[Root(d2, y)] = Root(d2, y)
  BY <1>4, RootIs
<1>7. Flattened(d2, d, N, a, b)
  BY <1>4, <1>5, <1>6 DEF Flattened, SameTrees
<1>8. QED
  BY <1>7 DEF d1, d2

\* One root is hung under another.
RootsLinked(d2, d, N, p, q) ==
  /\ Forest(d2, N)
  /\ \A x \in N : Root(d2, x) = IF Root(d, x) = p THEN q ELSE Root(d, x)

LEMMA LinkIs ==
  ASSUME NEW N, NEW d, Forest(d, N), NEW p \in N, NEW q \in N, d[p] = p, d[q] = q
  PROVE  RootsLinked([d EXCEPT ![p] = q], d, N, p, q)
<1> DEFINE d2 == [d EXCEPT ![p] = q]
           f == [x \in N |-> IF Root(d, x) = p THEN q ELSE Root(d, x)]
<1>1. d \in [N -> N] /\ \A S \in SUBSET N : S # {} => \E y \in S : d[y] = y \/ d[y] \notin S
  BY DEF Forest
<1>2. d2 \in [N -> N] /\ d2[p] = q /\ \A y \in N : y # p => d2[y] = d[y]
  BY <1>1
<1>3. \A x \in N : f[x] = IF Root(d, x) = p THEN q ELSE Root(d, x)
  OBVIOUS
<1> HIDE DEF d2, f
<1>4. Forest(d2, N)
  <2>1. ASSUME NEW S \in SUBSET N, S # {}
        PROVE  \E y \in S : d2[y] = y \/ d2[y] \notin S
    <3>1. CASE p \notin S
      <4>1. PICK y \in S : d[y] = y \/ d[y] \notin S
        BY <1>1, <2>1
      <4>2. d2[y] = d[y]
        BY <1>2, <3>1
      <4>3. QED
        BY <4>1, <4>2
    <3>2. CASE p \in S /\ q \in S
      BY <1>2, <3>2
    <3>3. CASE p \in S /\ q \notin S
      BY <1>2, <3>3
    <3>4. QED
      BY <3>1, <3>2, <3>3
  <2>2. QED
    BY <1>2, <2>1 DEF Forest
<1>5. Root(d, p) = p /\ Root(d, q) = q
  BY RootStep
<1>6. ASSUME NEW x \in N
      PROVE  (d2[x] = x => f[x] = x) /\ (d2[x] # x => f[x] = f[d2[x]])
  <2>1. CASE x = p
    BY <1>2, <1>3, <1>5, <2>1
  <2>2. CASE x # p
    <3>1. Root(d, d[x]) = Root(d, x) /\ (d[x] = x => Root(d, x) = x) /\ d[x] \in N
      BY <1>1, RootStep
    <3>2. QED
      BY <1>2, <1>3, <2>2, <3>1
  <2>3. QED
    BY <2>1, <2>2
<1>7. \A x \in N : Root(d2, x) = f[x]
  BY <1>4, <1>6, RootIsUnique
<1>8. RootsLinked(d2, d, N, p, q)
  BY <1>3, <1>4, <1>7 DEF RootsLinked
<1>9. QED
  BY <1>8 DEF d2

(* The disjoint sets are the trees of the forest.                          *)

Classes(d) == [x \in Node |-> {y \in Node : Root(d, y) = Root(d, x)}]

\* k is the program; the one that counts knows at each root the size of its tree.
SetsRight(x, mm, k) ==
  /\ x \in [d : [Node -> Node], n : [Node -> Int]]
  /\ Forest(x.d, Node)
  /\ mm = Classes(x.d)
  /\ k = "blocks" => \A a \in Node : x.n[Root(x.d, a)] = Cardinality(mm[a])

SetsInv == SetsRight(s, m, kind)

LEMMA SameClasses ==
  ASSUME NEW d, NEW d2, SameTrees(d2, d, Node)
  PROVE  Classes(d2) = Classes(d)
<1>1. \A x \in Node : Root(d2, x) = Root(d, x)
  BY DEF SameTrees
<1>2. \A x \in Node : {y \in Node : Root(d2, y) = Root(d2, x)} = {y \in Node : Root(d, y) = Root(d, x)}
  BY <1>1
<1>3. QED
  BY <1>2 DEF Classes

LEMMA JoinedClasses ==
  ASSUME NEW d, NEW d2, NEW a \in Node, NEW b \in Node, NEW p, NEW q,
         \/ p = Root(d, a) /\ q = Root(d, b)
         \/ p = Root(d, b) /\ q = Root(d, a),
         RootsLinked(d2, d, Node, p, q)
  PROVE  Classes(d2) = Join(Classes(d), a, b)
<1>0. \A x \in Node : Root(d2, x) = IF Root(d, x) = p THEN q ELSE Root(d, x)
  BY DEF RootsLinked
<1> DEFINE C == Classes(d)
           U == C[a] \cup C[b]
<1>1. DOMAIN C = Node /\ \A x, y \in Node : y \in C[x] <=> Root(d, y) = Root(d, x)
  BY DEF Classes
<1>2. \A x \in Node : C[x] \subseteq Node
  BY DEF Classes
<1>3. U \subseteq Node /\ \A x \in Node : x \in U <=> Root(d, x) = p \/ Root(d, x) = q
  BY <1>1, <1>2
<1>4. Join(C, a, b) = [x \in Node |-> IF x \in U THEN U ELSE C[x]]
  BY <1>1 DEF Join
<1> HIDE DEF C, U
<1>5. ASSUME NEW x \in Node
      PROVE  {y \in Node : Root(d2, y) = Root(d2, x)} = IF x \in U THEN U ELSE C[x]
  <2>1. CASE x \in U
    <3>1. Root(d2, x) = q
      BY <1>0, <1>3, <2>1
    <3>2. \A y \in Node : Root(d2, y) = q <=> y \in U
      BY <1>0, <1>3
    <3>3. QED
      BY <1>3, <2>1, <3>1, <3>2
  <2>2. CASE x \notin U
    <3>1. Root(d2, x) = Root(d, x) /\ Root(d, x) # p /\ Root(d, x) # q
      BY <1>0, <1>3, <2>2
    <3>2. \A y \in Node : Root(d2, y) = Root(d2, x) <=> Root(d, y) = Root(d, x)
      BY <1>0, <3>1
    <3>3. \A y \in Node : Root(d2, y) = Root(d2, x) <=> y \in C[x]
      BY <1>1, <3>2
    <3>4. QED
      BY <1>2, <2>2, <3>3 DEF C
  <2>3. QED
    BY <2>1, <2>2
<1>6. QED
  BY <1>4, <1>5 DEF Classes, C

LEMMA FoundKeeps ==
  ASSUME NEW x, NEW mm, NEW k, SetsRight(x, mm, k), NEW a \in Node, NEW b \in Node
  PROVE  LET d == Find(Find(x.d, a), b)
         IN  /\ SetsRight([x EXCEPT !.d = d], mm, k)
             /\ Flattened(d, x.d, Node, a, b)
             /\ d[a] = d[b] <=> mm[a] = mm[b]
<1> DEFINE d == Find(Find(x.d, a), b)
           z == [x EXCEPT !.d = d]
<1>1. /\ x \in [d : [Node -> Node], n : [Node -> Int]]
      /\ Forest(x.d, Node)
      /\ mm = Classes(x.d)
      /\ k = "blocks" => \A c \in Node : x.n[Root(x.d, c)] = Cardinality(mm[c])
  BY DEF SetsRight
<1>2. Flattened(d, x.d, Node, a, b)
  BY <1>1, TwoFinds
<1> HIDE DEF d
<1>3. /\ SameTrees(d, x.d, Node) /\ Forest(d, Node) /\ d \in [Node -> Node]
      /\ \A y \in Node : Root(d, y) = Root(x.d, y)
      /\ d[a] = Root(x.d, a) /\ d[b] = Root(x.d, b)
  BY <1>2 DEF Flattened, SameTrees, Forest
<1>4. z \in [d : [Node -> Node], n : [Node -> Int]] /\ z.d = d /\ z.n = x.n
  BY <1>1, <1>3
<1> HIDE DEF z
<1>5. Classes(z.d) = mm
  BY <1>1, <1>3, <1>4, SameClasses
<1>6. k = "blocks" => \A c \in Node : z.n[Root(z.d, c)] = Cardinality(mm[c])
  BY <1>1, <1>3, <1>4
<1>7. SetsRight(z, mm, k)
  BY <1>3, <1>4, <1>5, <1>6 DEF SetsRight
<1>8. d[a] = d[b] <=> mm[a] = mm[b]
  <2>1. \A c, y \in Node : y \in mm[c] <=> Root(x.d, y) = Root(x.d, c)
    BY <1>1 DEF Classes
  <2>2. mm[a] = {y \in Node : Root(x.d, y) = Root(x.d, a)} /\ mm[b] = {y \in Node : Root(x.d, y) = Root(x.d, b)}
    BY <1>1 DEF Classes
  <2>3. d[a] = d[b] => mm[a] = mm[b]
    BY <1>3, <2>2
  <2>4. mm[a] = mm[b] => d[a] = d[b]
    BY <1>3, <2>1
  <2>5. QED
    BY <2>3, <2>4
<1>9. QED
  BY <1>2, <1>7, <1>8 DEF d, z

\* A union hangs one of the two roots under the other; what it writes to n matters only
\* where the sizes are counted.
LEMMA HungKeeps ==
  ASSUME NEW x, NEW mm, NEW k, SetsRight(x, mm, k), NEW a \in Node, NEW b \in Node,
         NEW d, Flattened(d, x.d, Node, a, b), NEW p, NEW q,
         \/ p = d[a] /\ q = d[b]
         \/ p = d[b] /\ q = d[a],
         NEW n2 \in [Node -> Int],
         k = "blocks" => p # q /\ n2[q] = x.n[q] + x.n[p] /\ \A r \in Node \ {q} : n2[r] = x.n[r]
  PROVE  SetsRight([d |-> [d EXCEPT ![p] = q], n |-> n2], Join(mm, a, b), k)
<1> DEFINE d2 == [d EXCEPT ![p] = q]
           m2 == Join(mm, a, b)
           R(y) == Root(x.d, y)
<1>1. /\ x \in [d : [Node -> Node], n : [Node -> Int]]
      /\ Forest(x.d, Node)
      /\ mm = Classes(x.d)
      /\ k = "blocks" => \A c \in Node : x.n[R(c)] = Cardinality(mm[c])
  BY DEF SetsRight
<1>2. /\ Forest(d, Node) /\ SameTrees(d, x.d, Node) /\ \A y \in Node : Root(d, y) = R(y)
      /\ d[a] = R(a) /\ d[b] = R(b)
      /\ p \in Node /\ q \in Node /\ d[p] = p /\ d[q] = q
  BY DEF Flattened, SameTrees
<1>3. RootsLinked(d2, d, Node, p, q)
  BY <1>2, LinkIs
<1> HIDE DEF d2
<1>4. Forest(d2, Node) /\ d2 \in [Node -> Node]
      /\ \A y \in Node : Root(d2, y) = IF Root(d, y) = p THEN q ELSE Root(d, y)
  BY <1>3 DEF RootsLinked, Forest
<1>5. Classes(d2) = m2
  <2>1. \/ p = Root(d, a) /\ q = Root(d, b)
        \/ p = Root(d, b) /\ q = Root(d, a)
    BY <1>2
  <2>2. Classes(d2) = Join(Classes(d), a, b)
    BY <1>3, <2>1, JoinedClasses
  <2>3. Classes(d) = mm
    BY <1>1, <1>2, SameClasses
  <2>4. QED
    BY <2>2, <2>3
<1>6. \A y \in Node : Root(d2, y) = IF R(y) = p THEN q ELSE R(y)
  BY <1>2, <1>4
<1>7. ASSUME k = "blocks", NEW c \in Node
      PROVE  n2[Root(d2, c)] = Cardinality(m2[c])
  <2>1. /\ DOMAIN mm = Node /\ \A y \in Node : mm[y] \subseteq Node
        /\ \A y, z \in Node : z \in mm[y] <=> R(z) = R(y)
    BY <1>1 DEF Classes
  <2>2. p # q /\ n2[q] = x.n[q] + x.n[p] /\ \A r \in Node \ {q} : n2[r] = x.n[r]
    BY <1>7
  <2>3. x.n[R(a)] = Cardinality(mm[a]) /\ x.n[R(b)] = Cardinality(mm[b]) /\ x.n[R(c)] = Cardinality(mm[c])
    BY <1>1, <1>7
  <2>4. m2[c] = IF c \in mm[a] \cup mm[b] THEN mm[a] \cup mm[b] ELSE mm[c]
    BY <2>1 DEF Join
  <2>5. c \in mm[a] \cup mm[b] <=> R(c) = p \/ R(c) = q
    BY <1>2, <2>1
  <2>6. R(c) \in Node
    BY <1>1, RootIs
  <2> HIDE DEF m2, R
  <2>7. CASE c \in mm[a] \cup mm[b]
    <3>1. Root(d2, c) = q /\ m2[c] = mm[a] \cup mm[b]
      BY <1>6, <2>4, <2>5, <2>7
    <3>2. mm[a] \cap mm[b] = {}
      BY <1>2, <2>1, <2>2
    <3>3. IsFiniteSet(mm[a]) /\ IsFiniteSet(mm[b])
      BY <2>1, NodeAssumption, FS_Subset
    <3>4. /\ Cardinality(mm[a] \cup mm[b]) = Cardinality(mm[a]) + Cardinality(mm[b]) - Cardinality({})
          /\ Cardinality({}) = 0
          /\ Cardinality(mm[a]) \in Nat /\ Cardinality(mm[b]) \in Nat
      BY <3>2, <3>3, FS_Union, FS_EmptySet, FS_CardinalityType
    <3>5. n2[q] = Cardinality(mm[a]) + Cardinality(mm[b])
      <4>1. CASE p = d[a] /\ q = d[b]
        BY <1>2, <2>2, <2>3, <3>4, <4>1
      <4>2. CASE p = d[b] /\ q = d[a]
        BY <1>2, <2>2, <2>3, <3>4, <4>2
      <4>3. QED
        BY <4>1, <4>2
    <3>6. QED
      BY <3>1, <3>4, <3>5
  <2>8. CASE c \notin mm[a] \cup mm[b]
    BY <1>6, <2>2, <2>3, <2>4, <2>5, <2>6, <2>8
  <2>9. QED
    BY <2>7, <2>8
<1> DEFINE z == [d |-> d2, n |-> n2]
<1>8. z \in [d : [Node -> Node], n : [Node -> Int]] /\ z.d = d2 /\ z.n = n2
  BY <1>4
<1> HIDE DEF z, m2
<1>9. SetsRight(z, m2, k)
  BY <1>4, <1>5, <1>7, <1>8 DEF SetsRight
<1>10. QED
  BY <1>9 DEF z, d2, m2

\* Joining a set with itself changes nothing.
LEMMA JoinOfSame ==
  ASSUME NEW x, NEW mm, NEW k, SetsRight(x, mm, k), NEW a \in Node, NEW b \in Node, mm[a] = mm[b]
  PROVE  Join(mm, a, b) = mm
<1>1. mm = Classes(x.d)
  BY DEF SetsRight
<1>2. DOMAIN mm = Node /\ \A y, z \in Node : z \in mm[y] <=> Root(x.d, z) = Root(x.d, y)
  BY <1>1 DEF Classes
<1>3. mm = [y \in Node |-> mm[y]] /\ \A y \in Node : mm[y] = {z \in Node : Root(x.d, z) = Root(x.d, y)}
  BY <1>1 DEF Classes
<1>4. mm[a] \cup mm[b] = mm[a]
  OBVIOUS
<1>5. \A y \in Node : y \in mm[a] => mm[y] = mm[a]
  BY <1>2, <1>3
<1>6. Join(mm, a, b) = [y \in Node |-> IF y \in mm[a] THEN mm[a] ELSE mm[y]]
  BY <1>2, <1>4 DEF Join
<1>7. QED
  BY <1>3, <1>5, <1>6

LEMMA UnionKeeps ==
  ASSUME NEW x, NEW mm, NEW k, SetsRight(x, mm, k), NEW a \in Node, NEW b \in Node
  PROVE  /\ k # "blocks" => SetsRight(MergeSets(x, a, b), Join(mm, a, b), k)
         /\ SetsRight(ConnectBlocks(x, a, b), Join(mm, a, b), k)
         /\ k # "blocks" => SetsRight(UnionUf(x, a, b), Join(mm, a, b), k)
<1> DEFINE d == Find(Find(x.d, a), b)
<1>1. /\ SetsRight([x EXCEPT !.d = d], mm, k)
      /\ Flattened(d, x.d, Node, a, b)
      /\ d[a] = d[b] <=> mm[a] = mm[b]
  BY FoundKeeps
<1>2. MergeSets(x, a, b) = [x EXCEPT !.d = [d EXCEPT ![d[a]] = d[b]]]
  BY DEF MergeSets
<1>3. ConnectBlocks(x, a, b) =
        IF d[a] = d[b] THEN [x EXCEPT !.d = d]
        ELSE [x EXCEPT !.d = [d EXCEPT ![d[a]] = d[b]], !.n[d[b]] = @ + x.n[d[a]]]
  BY DEF ConnectBlocks
<1>4. UnionUf(x, a, b) =
        IF d[a] = d[b] THEN [x EXCEPT !.d = d]
        ELSE IF x.n[a] < x.n[b] THEN [x EXCEPT !.d = [d EXCEPT ![d[a]] = d[b]]]
        ELSE [x EXCEPT !.d = [d EXCEPT ![d[b]] = d[a]],
                       !.n[d[a]] = IF x.n[a] = x.n[b] THEN @ + 1 ELSE @]
  BY DEF UnionUf
<1> HIDE DEF d
<1>5. x \in [d : [Node -> Node], n : [Node -> Int]] /\ x.n \in [Node -> Int]
  BY DEF SetsRight
<1>6. d[a] \in Node /\ d[b] \in Node /\ d \in [Node -> Node]
  BY <1>1 DEF Flattened, SameTrees, Forest
<1>7. d[a] = d[b] => SetsRight([x EXCEPT !.d = d], Join(mm, a, b), k)
  BY <1>1, JoinOfSame
<1>8. ASSUME NEW e \in [Node -> Node], NEW n2 \in [Node -> Int]
      PROVE  [x EXCEPT !.d = e, !.n = n2] = [d |-> e, n |-> n2]
  <2> DEFINE y == [x EXCEPT !.d = e]
             z == [y EXCEPT !.n = n2]
  <2>1. y \in [d : [Node -> Node], n : [Node -> Int]] /\ y.d = e
    BY <1>5
  <2> HIDE DEF y
  <2>2. z \in [d : [Node -> Node], n : [Node -> Int]] /\ z.d = e /\ z.n = n2
    BY <2>1
  <2> HIDE DEF z
  <2>3. z = [d |-> e, n |-> n2]
    BY <2>2
  <2>4. [x EXCEPT !.d = e, !.n = n2] = z
    BY DEF z, y
  <2>5. QED
    BY <2>3, <2>4
<1>9. ASSUME k # "blocks"
      PROVE  SetsRight(MergeSets(x, a, b), Join(mm, a, b), k)
  <2>1. SetsRight([d |-> [d EXCEPT ![d[a]] = d[b]], n |-> x.n], Join(mm, a, b), k)
    BY <1>1, <1>5, <1>9, HungKeeps
  <2> DEFINE e == [d EXCEPT ![d[a]] = d[b]]
  <2>2. MergeSets(x, a, b) = [x EXCEPT !.d = e]
    BY <1>2
  <2> HIDE DEF e
  <2>3. MergeSets(x, a, b) = [d |-> e, n |-> x.n]
    BY <1>5, <2>2
  <2>4. QED
    BY <2>1, <2>3 DEF e
<1>10. ASSUME d[a] # d[b]
       PROVE  SetsRight(ConnectBlocks(x, a, b), Join(mm, a, b), k)
  <2> DEFINE e == [d EXCEPT ![d[a]] = d[b]]
             n2 == [x.n EXCEPT ![d[b]] = @ + x.n[d[a]]]
  <2>1. /\ n2 \in [Node -> Int] /\ n2[d[b]] = x.n[d[b]] + x.n[d[a]]
        /\ \A r \in Node \ {d[b]} : n2[r] = x.n[r]
    BY <1>5, <1>6
  <2>2. ConnectBlocks(x, a, b) = [x EXCEPT !.d = e, !.n = n2]
    BY <1>3, <1>10
  <2>5. e \in [Node -> Node]
    BY <1>6
  <2> HIDE DEF n2
  <2>3. SetsRight([d |-> e, n |-> n2], Join(mm, a, b), k)
    BY <1>1, <1>10, <2>1, HungKeeps
  <2> HIDE DEF e
  <2>4. QED
    BY <1>8, <2>1, <2>2, <2>3, <2>5
<1>11. ASSUME k # "blocks", d[a] # d[b]
       PROVE  SetsRight(UnionUf(x, a, b), Join(mm, a, b), k)
  <2>1. CASE x.n[a] < x.n[b]
    <3>1. UnionUf(x, a, b) = MergeSets(x, a, b)
      BY <1>2, <1>4, <1>11, <2>1
    <3>2. QED
      BY <1>9, <1>11, <3>1
  <2>2. CASE ~(x.n[a] < x.n[b])
    <3> DEFINE e == [d EXCEPT ![d[b]] = d[a]]
               n2 == [x.n EXCEPT ![d[a]] = IF x.n[a] = x.n[b] THEN @ + 1 ELSE @]
    <3>1. n2 \in [Node -> Int]
      BY <1>5, <1>6
    <3>2. UnionUf(x, a, b) = [x EXCEPT !.d = e, !.n = n2]
      BY <1>4, <1>11, <2>2
    <3>5. e \in [Node -> Node]
      BY <1>6
    <3> HIDE DEF n2
    <3>3. SetsRight([d |-> e, n |-> n2], Join(mm, a, b), k)
      BY <1>1, <1>11, <3>1, HungKeeps
    <3> HIDE DEF e
    <3>4. QED
      BY <1>8, <3>1, <3>2, <3>3, <3>5
  <2>3. QED
    BY <2>1, <2>2
<1>12. QED
  BY <1>3, <1>4, <1>7, <1>9, <1>10, <1>11

LEMMA SetsStep ==
  ASSUME SetsInv, SetsCall
  PROVE  SetsInv' /\ AnswersAgree'
<1> USE DEF SetsInv
<1>1. SetsRight(s, m, kind) /\ kind \in {"unionSet", "blocks", "unionFind"}
  BY DEF SetsCall
<1>2. PICK a, b \in Node :
        \/ Call(CASE kind = "unionSet" -> MergeSets(s, a, b)
                  [] kind = "blocks" -> ConnectBlocks(s, a, b)
                  [] kind = "unionFind" -> UnionUf(s, a, b), Join(m, a, b), Void, Void)
        \/ LET got == Connected(s, a, b) IN Call(got[1], m, got[2], m[a] = m[b])
  BY DEF SetsCall
<1>3. CASE Call(CASE kind = "unionSet" -> MergeSets(s, a, b)
                  [] kind = "blocks" -> ConnectBlocks(s, a, b)
                  [] kind = "unionFind" -> UnionUf(s, a, b), Join(m, a, b), Void, Void)
  <2>1. /\ kind = "unionSet" => s' = MergeSets(s, a, b)
        /\ kind = "blocks" => s' = ConnectBlocks(s, a, b)
        /\ kind = "unionFind" => s' = UnionUf(s, a, b)
        /\ m' = Join(m, a, b) /\ kind' = kind /\ AnswersAgree'
    BY <1>3 DEF Call, AnswersAgree
  <2>2. SetsRight(s', m', kind')
    BY <1>1, <2>1, UnionKeeps
  <2>3. QED
    BY <2>1, <2>2
<1>4. CASE LET got == Connected(s, a, b) IN Call(got[1], m, got[2], m[a] = m[b])
  <2> DEFINE d == Find(Find(s.d, a), b)
             z == [s EXCEPT !.d = d]
  <2>1. SetsRight(z, m, kind) /\ (d[a] = d[b] <=> m[a] = m[b])
    BY <1>1, FoundKeeps
  <2>2. Connected(s, a, b) = <<z, d[a] = d[b]>>
    BY DEF Connected
  <2> HIDE DEF z, d
  <2>3. s' = z /\ m' = m /\ kind' = kind /\ ans' = <<d[a] = d[b], m[a] = m[b]>>
    BY <1>4, <2>2 DEF Call
  <2>4. (d[a] = d[b]) = (m[a] = m[b])
    BY <2>1
  <2>5. AnswersAgree'
    BY <2>3, <2>4 DEF AnswersAgree
  <2>6. SetsRight(s', m', kind')
    BY <2>1, <2>3
  <2>7. QED
    BY <2>5, <2>6
<1>5. QED
  BY <1>2, <1>3, <1>4

LEMMA SetsInvIsSound ==
  ASSUME SetsInv
  PROVE  SetsSound
<1>1. /\ m = Classes(s.d)
      /\ kind = "blocks" => \A a \in Node : s.n[Root(s.d, a)] = Cardinality(m[a])
  BY DEF SetsInv, SetsRight
<1>2. \A a, b \in Node : Root(s.d, a) = Root(s.d, b) <=> b \in m[a]
  BY <1>1 DEF Classes
<1>3. QED
  BY <1>1, <1>2 DEF SetsSound

-----------------------------------------------------------------------------
(* The food chain: the assignments of the three species that agree with    *)
(* the accepted statements are those that agree with the distances.        *)

Divides(z) == z % 3 = 0

LEMMA Threes ==
  ASSUME NEW a \in Int, NEW b \in Int, Divides(a)
  PROVE  Divides(b) => Divides(a + b) /\ Divides(a - b)
BY DEF Divides

LEMMA ThreesOfSum ==
  ASSUME NEW a \in Int, NEW b \in Int, Divides(a)
  PROVE  /\ Divides(a + b) <=> Divides(b)
         /\ Divides(b - a) <=> Divides(b)
BY DEF Divides

LEMMA ModThree ==
  ASSUME NEW a \in Int
  PROVE  a % 3 \in 0 .. 2
OBVIOUS

LEMMA ThreesModulo ==
  ASSUME NEW a \in Int, NEW b \in Int, NEW c \in Int
  PROVE  /\ Divides((a % 3) - (b % 3) - c) <=> Divides(a - b - c)
         /\ a = b + c => Divides((a % 3) - b - c)
BY DEF Divides

Fits(p, d, f) == \A y \in Animal : Divides(f[y] - f[p[y]] - d[y])

ChainRight(x, mm) ==
  /\ x \in [p : [Animal -> Animal], d : [Animal -> Int]]
  /\ Forest(x.p, Animal)
  /\ \A y \in Animal : x.p[y] = y => x.d[y] = 0
  /\ mm = {f \in [Animal -> 0 .. 2] : Fits(x.p, x.d, f)}
  /\ mm # {}

ChainInv == ChainRight(s, m)

\* No element lies above its parent, unless it is the root.
LEMMA NoCycle ==
  ASSUME NEW N, NEW p, Forest(p, N), NEW x \in N
  PROVE  /\ p[x] = x => Ancestors(p, x) = {x}
         /\ p[x] # x => x \notin Ancestors(p, p[x])
<1>1. p \in [N -> N] /\ \A S \in SUBSET N : S # {} => \E y \in S : p[y] = y \/ p[y] \notin S
  BY DEF Forest
<1>2. ASSUME NEW y \in N, p[y] = y
      PROVE  Ancestors(p, y) = {y}
  <2>1. Closed(p, {y})
    BY <1>1, <1>2 DEF Closed
  <2>2. QED
    BY <1>1, <2>1, AncestorsAre
<1> DEFINE B == {y \in N : p[y] # y /\ y \in Ancestors(p, p[y])}
<1>3. B = {}
  <2> SUFFICES ASSUME B # {} PROVE FALSE
    OBVIOUS
  <2>1. \A y \in B : y \in N /\ p[y] # y /\ y \in Ancestors(p, p[y])
    OBVIOUS
  <2>2. \A y \in N : y \notin B /\ p[y] # y => y \notin Ancestors(p, p[y])
    OBVIOUS
  <2>3. B \in SUBSET N
    OBVIOUS
  <2> HIDE DEF B
  <2>4. PICK y \in B : p[y] \notin B
    BY <1>1, <2>1, <2>3
  <2>5. y \in N /\ p[y] \in N /\ p[p[y]] \in N /\ p[y] # y
    BY <1>1, <2>1
  <2>6. Ancestors(p, p[y]) = {p[y]} \cup Ancestors(p, p[p[y]])
    BY <1>1, <2>5, AncestorsUnfold
  <2>7. y \in Ancestors(p, p[p[y]])
    BY <2>1, <2>5, <2>6
  <2>8. p[y] \in Ancestors(p, p[p[y]])
    BY <1>1, <2>5, <2>7, AncestorsAre DEF Closed
  <2>9. p[p[y]] = p[y]
    BY <2>2, <2>4, <2>5, <2>8
  <2>10. Ancestors(p, p[y]) = {p[y]}
    BY <1>2, <2>5, <2>9
  <2>11. QED
    BY <2>1, <2>5, <2>10
<1>4. QED
  BY <1>2, <1>3

\* The distance to the root.
Distance(p, d, y) == SumFunctionOnSet(d, Ancestors(p, y))

LEMMA DistanceIs ==
  ASSUME NEW p, Forest(p, Animal), NEW d \in [Animal -> Int], NEW y \in Animal
  PROVE  /\ Distance(p, d, y) \in Int
         /\ p[y] = y => Distance(p, d, y) = d[y]
         /\ p[y] # y => Distance(p, d, y) = d[y] + Distance(p, d, p[y])
<1>1. p \in [Animal -> Animal] /\ p[y] \in Animal
  BY DEF Forest
<1>2. IsFiniteSet(Animal)
  BY NodeAssumption
<1>3. \A z \in Animal : IsFiniteSet(Ancestors(p, z)) /\ Ancestors(p, z) \subseteq Animal
  <2>1. \A z \in Animal : Ancestors(p, z) \subseteq Animal
    BY <1>1, AncestorsAre
  <2>2. QED
    BY <1>2, <2>1, FS_Subset
<1>4. \A z \in Animal : d[z] \in Int
  OBVIOUS
<1>5. Distance(p, d, y) \in Int
  <2>1. \A z \in Ancestors(p, y) : d[z] \in Int
    BY <1>3, <1>4
  <2>2. QED
    BY <1>3, <2>1, SumIsInt DEF Distance
<1>6. CASE p[y] = y
  <2>1. Ancestors(p, y) = {y}
    BY <1>6, NoCycle
  <2>2. {} \cup {y} = {y}
    OBVIOUS
  <2>3. /\ SumFunctionOnSet(d, {}) \in Int
        /\ SumFunctionOnSet(d, {} \cup {y}) = SumFunctionOnSet(d, {}) + d[y]
    BY <1>4, FS_EmptySet, SumOfOneMore
  <2>4. SumFunctionOnSet(d, {}) = 0
    BY SumOfNothing
  <2>5. SumFunctionOnSet(d, {y}) = d[y]
    BY <1>4, <2>2, <2>3, <2>4
  <2>6. QED
    BY <1>5, <1>6, <2>1, <2>5 DEF Distance
<1>7. CASE p[y] # y
  <2> DEFINE A == Ancestors(p, p[y])
  <2>1. y \notin A
    BY <1>7, NoCycle
  <2>2. Ancestors(p, y) = A \cup {y}
    BY <1>1, AncestorsUnfold
  <2>3. IsFiniteSet(A) /\ \A z \in A : d[z] \in Int
    BY <1>1, <1>3, <1>4
  <2>4. /\ SumFunctionOnSet(d, A) \in Int
        /\ SumFunctionOnSet(d, A \cup {y}) = SumFunctionOnSet(d, A) + d[y]
    <3> HIDE DEF A
    <3>1. QED
      BY <1>4, <2>1, <2>3, SumOfOneMore
  <2>5. Distance(p, d, p[y]) = SumFunctionOnSet(d, A) /\ Distance(p, d, y) = SumFunctionOnSet(d, A \cup {y})
    BY <2>2 DEF Distance
  <2>6. QED
    BY <1>4, <1>5, <1>7, <2>4, <2>5
<1>8. QED
  BY <1>6, <1>7

\* An assignment that agrees with the distances to the parents agrees with those to
\* the roots.
LEMMA FitsToRoot ==
  ASSUME NEW p, Forest(p, Animal), NEW d \in [Animal -> Int],
         \A y \in Animal : p[y] = y => d[y] = 0,
         NEW f \in [Animal -> 0 .. 2], Fits(p, d, f), NEW a \in Animal
  PROVE  Divides(f[a] - f[Root(p, a)] - Distance(p, d, a))
<1>1. p \in [Animal -> Animal] /\ \A S \in SUBSET Animal : S # {} => \E y \in S : p[y] = y \/ p[y] \notin S
  BY DEF Forest
<1> DEFINE B == {y \in Animal : ~Divides(f[y] - f[Root(p, y)] - Distance(p, d, y))}
<1> SUFFICES ASSUME B # {} PROVE FALSE
  OBVIOUS
<1>2. \A y \in Animal : y \in B <=> ~Divides(f[y] - f[Root(p, y)] - Distance(p, d, y))
  OBVIOUS
<1>3. B \in SUBSET Animal
  OBVIOUS
<1> HIDE DEF B
<1>4. PICK y \in B : p[y] = y \/ p[y] \notin B
  BY <1>1, <1>3
<1>5. y \in Animal /\ p[y] \in Animal /\ Root(p, y) \in Animal
  BY <1>1, <1>3, <1>4, RootIs
<1>6. f[y] \in Int /\ f[p[y]] \in Int /\ f[Root(p, y)] \in Int /\ d[y] \in Int
  BY <1>5
<1>7. Root(p, p[y]) = Root(p, y) /\ (p[y] = y => Root(p, y) = y)
  BY <1>5, RootStep
<1>8. /\ Distance(p, d, y) \in Int /\ Distance(p, d, p[y]) \in Int
      /\ p[y] = y => Distance(p, d, y) = d[y]
      /\ p[y] # y => Distance(p, d, y) = d[y] + Distance(p, d, p[y])
  BY <1>5, DistanceIs
<1>9. CASE p[y] = y
  <2>1. f[y] - f[Root(p, y)] - Distance(p, d, y) = 0
    BY <1>5, <1>6, <1>7, <1>8, <1>9
  <2>2. Divides(0)
    BY DEF Divides
  <2>3. QED
    BY <1>2, <1>4, <1>5, <2>1, <2>2
<1>10. CASE p[y] # y /\ p[y] \notin B
  <2> DEFINE u == f[y] - f[p[y]] - d[y]
             v == f[p[y]] - f[Root(p, y)] - Distance(p, d, p[y])
  <2>1. Divides(u)
    BY <1>5 DEF Fits
  <2>2. Divides(v)
    BY <1>2, <1>5, <1>7, <1>10
  <2>3. u \in Int /\ v \in Int /\ f[y] - f[Root(p, y)] - Distance(p, d, y) = u + v
    BY <1>6, <1>8, <1>10
  <2> HIDE DEF u, v
  <2>4. Divides(u + v)
    BY <2>1, <2>2, <2>3, Threes
  <2>5. QED
    BY <1>2, <1>4, <1>5, <2>3, <2>4
<1>11. QED
  BY <1>4, <1>9, <1>10

\* find() keeps the assignments.
FoundSo(z, x, a, mm) == ChainRight(z, mm) /\ z.p = Find(x.p, a)

LEMMA FoundChain ==
  ASSUME NEW x, NEW mm, ChainRight(x, mm), NEW a \in Animal
  PROVE  FoundSo(FindChain(x, a), x, a, mm)
<1> DEFINE p == x.p
           d == x.d
           A == Ancestors(p, a)
           r == Root(p, a)
           p2 == Find(p, a)
           d2 == [y \in Animal |-> IF y \in A THEN Distance(p, d, y) ELSE d[y]]
           z == FindChain(x, a)
<1>1. /\ x \in [p : [Animal -> Animal], d : [Animal -> Int]]
      /\ Forest(p, Animal) /\ p \in [Animal -> Animal] /\ d \in [Animal -> Int]
      /\ \A y \in Animal : p[y] = y => d[y] = 0
      /\ mm = {f \in [Animal -> 0 .. 2] : Fits(p, d, f)} /\ mm # {}
  BY DEF ChainRight, Forest
<1>2. z = [p |-> p2, d |-> d2]
  BY <1>1 DEF FindChain, Distance
<1>3. SameTrees(p2, p, Animal)
  BY <1>1, FindIs
<1>4. A \subseteq Animal /\ r \in A /\ r \in Animal /\ p[r] = r /\ Closed(p, A)
  BY <1>1, AncestorsAre, RootIs
<1>5. \A y \in A : Root(p, y) = r
  BY <1>1, RootOfAncestor
<1>6. p2 = [y \in Animal |-> IF y \in A THEN r ELSE p[y]]
  BY <1>1 DEF Find
<1>7. \A y \in Animal : /\ Distance(p, d, y) \in Int
                        /\ p[y] = y => Distance(p, d, y) = d[y]
                        /\ p[y] # y => Distance(p, d, y) = d[y] + Distance(p, d, p[y])
  BY <1>1, DistanceIs
<1>8. d2 \in [Animal -> Int]
  BY <1>1, <1>7
<1>9. \A y \in Animal : /\ y \in A => p2[y] = r /\ d2[y] = Distance(p, d, y)
                        /\ y \notin A => p2[y] = p[y] /\ d2[y] = d[y]
  BY <1>6
<1>10. \A f \in [Animal -> 0 .. 2] : Fits(p, d, f) => \A y \in Animal : Divides(f[y] - f[Root(p, y)] - Distance(p, d, y))
  BY <1>1, FitsToRoot
<1>11. z.p = p2 /\ z.d = d2
  BY <1>2
<1>12. p2 \in [Animal -> Animal] /\ Forest(p2, Animal)
  BY <1>3 DEF SameTrees, Forest
<1>13. z \in [p : [Animal -> Animal], d : [Animal -> Int]]
  BY <1>2, <1>8, <1>12
<1> HIDE DEF p, d, A, r, p2, d2, z
<1>14. ASSUME NEW f \in [Animal -> 0 .. 2], Fits(p, d, f)
       PROVE  Fits(p2, d2, f)
  <2>1. ASSUME NEW y \in Animal
        PROVE  Divides(f[y] - f[p2[y]] - d2[y])
    <3>1. CASE y \in A
      BY <1>5, <1>9, <1>10, <1>14, <3>1
    <3>2. CASE y \notin A
      BY <1>9, <1>14, <3>2 DEF Fits
    <3>3. QED
      BY <3>1, <3>2
  <2>2. QED
    BY <2>1 DEF Fits
<1>15. ASSUME NEW f \in [Animal -> 0 .. 2], Fits(p2, d2, f)
       PROVE  Fits(p, d, f)
  <2>1. ASSUME NEW y \in Animal
        PROVE  Divides(f[y] - f[p[y]] - d[y])
    <3>0. \A w \in Animal : Divides(f[w] - f[p2[w]] - d2[w])
      BY <1>15 DEF Fits
    <3>1. p[y] \in Animal
      BY <1>1
    <3>2. f[y] \in Int /\ f[p[y]] \in Int /\ f[r] \in Int /\ d[y] \in Int
      BY <1>1, <1>4, <3>1
    <3>3. CASE y \notin A
      BY <1>9, <3>0, <3>3
    <3>4. CASE y \in A /\ p[y] = y
      <4>1. f[y] - f[p[y]] - d[y] = 0
        BY <1>1, <3>2, <3>4
      <4>2. Divides(0)
        BY DEF Divides
      <4>3. QED
        BY <4>1, <4>2
    <3>5. CASE y \in A /\ p[y] # y
      <4> DEFINE u == f[y] - f[r] - Distance(p, d, y)
                 v == f[p[y]] - f[r] - Distance(p, d, p[y])
      <4>1. p[y] \in A
        BY <1>4, <3>5 DEF Closed
      <4>2. Divides(u) /\ Divides(v)
        <5>1. p2[y] = r /\ d2[y] = Distance(p, d, y) /\ p2[p[y]] = r /\ d2[p[y]] = Distance(p, d, p[y])
          BY <1>9, <3>1, <3>5, <4>1
        <5>2. QED
          BY <3>0, <3>1, <5>1
      <4>3. u \in Int /\ v \in Int /\ f[y] - f[p[y]] - d[y] = u - v
        BY <1>7, <3>1, <3>2, <3>5
      <4> HIDE DEF u, v
      <4>4. QED
        BY <4>2, <4>3, Threes
    <3>6. QED
      BY <3>3, <3>4, <3>5
  <2>2. QED
    BY <2>1 DEF Fits
<1>16. mm = {f \in [Animal -> 0 .. 2] : Fits(p2, d2, f)}
  BY <1>1, <1>14, <1>15
<1>17. \A y \in Animal : p2[y] = y => d2[y] = 0
  <2>1. ASSUME NEW y \in Animal, p2[y] = y
        PROVE  d2[y] = 0
    <3>1. CASE y \in A
      <4>1. y = r
        BY <1>9, <2>1, <3>1
      <4>2. QED
        BY <1>1, <1>4, <1>7, <1>9, <3>1, <4>1
    <3>2. CASE y \notin A
      BY <1>1, <1>9, <2>1, <3>2
    <3>3. QED
      BY <3>1, <3>2
  <2>2. QED
    BY <2>1
<1>18. ChainRight(z, mm)
  BY <1>1, <1>11, <1>12, <1>13, <1>16, <1>17 DEF ChainRight
<1>19. QED
  BY <1>11, <1>18 DEF FoundSo, z, p2, p

\* What both finds leave: a and b lie directly under their roots.
LEMMA TwoFound ==
  ASSUME NEW x, NEW mm, ChainRight(x, mm), NEW a \in Animal, NEW b \in Animal
  PROVE  LET y == FindChain(FindChain(x, a), b)
         IN  ChainRight(y, mm) /\ Flattened(y.p, x.p, Animal, a, b)
<1> DEFINE w == FindChain(x, a)
           y == FindChain(w, b)
<1>1. ChainRight(w, mm) /\ w.p = Find(x.p, a)
  BY FoundChain DEF FoundSo
<1> HIDE DEF w
<1>2. ChainRight(y, mm) /\ y.p = Find(w.p, b)
  BY <1>1, FoundChain DEF FoundSo
<1>3. Flattened(Find(Find(x.p, a), b), x.p, Animal, a, b)
  BY TwoFinds DEF ChainRight
<1>4. QED
  BY <1>1, <1>2, <1>3 DEF w

\* Between two elements right under one root the assignments all agree.
LEMMA UnderOneRoot ==
  ASSUME NEW x, NEW mm, ChainRight(x, mm), NEW a \in Animal, NEW b \in Animal, NEW e \in Int,
         x.p[a] = x.p[b], NEW f \in mm
  PROVE  Divides(f[a] - f[b] - e) <=> Divides(x.d[a] - x.d[b] - e)
<1>1. /\ x.p \in [Animal -> Animal] /\ x.d \in [Animal -> Int]
      /\ f \in [Animal -> 0 .. 2] /\ Fits(x.p, x.d, f)
  BY DEF ChainRight
<1>2. f[a] \in Int /\ f[b] \in Int /\ f[x.p[a]] \in Int /\ x.d[a] \in Int /\ x.d[b] \in Int
  BY <1>1
<1>3. Divides(f[a] - f[x.p[a]] - x.d[a]) /\ Divides(f[b] - f[x.p[a]] - x.d[b])
  BY <1>1 DEF Fits
<1> DEFINE u == f[a] - f[x.p[a]] - x.d[a]
           v == f[b] - f[x.p[a]] - x.d[b]
           t == x.d[a] - x.d[b] - e
<1>4. /\ u \in Int /\ v \in Int /\ t \in Int /\ u - v \in Int
      /\ f[a] - f[b] - e = (u - v) + t
  BY <1>2
<1>5. Divides(u) /\ Divides(v)
  BY <1>3
<1> HIDE DEF u, v, t
<1>6. Divides(u - v)
  BY <1>4, <1>5, Threes
<1>7. Divides((u - v) + t) <=> Divides(t)
  BY <1>4, <1>6, ThreesOfSum
<1>8. QED
  BY <1>4, <1>7 DEF t

Hung(z, x, a, b, e) ==
  /\ z \in [p : [Animal -> Animal], d : [Animal -> Int]]
  /\ z.p = [x.p EXCEPT ![x.p[a]] = x.p[b]]
  /\ z.d = [x.d EXCEPT ![x.p[a]] = x.d[b] - x.d[a] + e]

\* The root p of a is hung under the root q of b, so that b is e below a: the
\* assignments that remain are those with f[a] - f[b] = e.
LEMMA HungChain ==
  ASSUME NEW x, NEW mm, ChainRight(x, mm), NEW a \in Animal, NEW b \in Animal, NEW e \in Int,
         x.p[a] # x.p[b], x.p[x.p[a]] = x.p[a], x.p[x.p[b]] = x.p[b], NEW z, Hung(z, x, a, b, e)
  PROVE  ChainRight(z, {f \in mm : (f[a] - f[b] - e) % 3 = 0})
<1> DEFINE p == x.p[a]
           q == x.p[b]
<1>0. /\ p # q /\ x.p[p] = p /\ x.p[q] = q
      /\ z \in [p : [Animal -> Animal], d : [Animal -> Int]]
      /\ z.p = [x.p EXCEPT ![p] = q] /\ z.d = [x.d EXCEPT ![p] = x.d[b] - x.d[a] + e]
  BY DEF Hung
<1>1. /\ x.p \in [Animal -> Animal] /\ x.d \in [Animal -> Int]
      /\ Forest(x.p, Animal)
      /\ \A y \in Animal : x.p[y] = y => x.d[y] = 0
      /\ mm = {f \in [Animal -> 0 .. 2] : Fits(x.p, x.d, f)} /\ mm # {}
  BY DEF ChainRight
<1>2. p \in Animal /\ q \in Animal
  BY <1>1
<1>11. p = x.p[a] /\ q = x.p[b]
  OBVIOUS
<1> HIDE DEF p, q
<1>3. RootsLinked(z.p, x.p, Animal, p, q)
  BY <1>0, <1>1, <1>2, LinkIs
<1>4. Forest(z.p, Animal)
  BY <1>3 DEF RootsLinked
<1>5. /\ z.p[p] = q /\ z.d[p] = x.d[b] - x.d[a] + e
      /\ \A y \in Animal : y # p => z.p[y] = x.p[y] /\ z.d[y] = x.d[y]
  BY <1>0, <1>1, <1>2
<1>6. \A y \in Animal : z.p[y] = y => z.d[y] = 0
  BY <1>0, <1>1, <1>2, <1>5
<1>7. ASSUME NEW f \in [Animal -> 0 .. 2]
      PROVE  Fits(z.p, z.d, f) <=> Fits(x.p, x.d, f) /\ Divides(f[a] - f[b] - e)
  <2> DEFINE u == f[a] - f[p] - x.d[a]
             v == f[b] - f[q] - x.d[b]
             w == f[p] - f[q] - (x.d[b] - x.d[a] + e)
  <2>1. f[a] \in Int /\ f[b] \in Int /\ f[p] \in Int /\ f[q] \in Int /\ x.d[a] \in Int /\ x.d[b] \in Int
    <3>1. \A y \in Animal : f[y] \in Int /\ x.d[y] \in Int
      BY <1>1
    <3>2. QED
      BY <1>2, <3>1
  <2>2. u \in Int /\ v \in Int /\ w \in Int /\ u - v \in Int /\ f[a] - f[b] - e = (u - v) + w
    BY <2>1
  <2>3. Divides(f[p] - f[p] - x.d[p])
    <3>1. f[p] - f[p] - x.d[p] = 0
      BY <1>0, <1>1, <1>2, <2>1
    <3>2. QED
      BY <3>1 DEF Divides
  <2>4. Fits(z.p, z.d, f) <=> Divides(w) /\ \A y \in Animal \ {p} : Divides(f[y] - f[x.p[y]] - x.d[y])
    BY <1>2, <1>5 DEF Fits
  <2>5. Fits(x.p, x.d, f) <=> \A y \in Animal \ {p} : Divides(f[y] - f[x.p[y]] - x.d[y])
    BY <1>0, <1>2, <2>3 DEF Fits
  <2>6. Fits(x.p, x.d, f) => Divides(u) /\ Divides(v)
    BY <1>11 DEF Fits
  <2> HIDE DEF u, v, w
  <2>7. Divides(u) /\ Divides(v) => (Divides((u - v) + w) <=> Divides(w))
    <3>1. Divides(u) /\ Divides(v) => Divides(u - v)
      BY <2>2, Threes
    <3>2. QED
      BY <2>2, <3>1, ThreesOfSum
  <2>8. QED
    BY <2>2, <2>4, <2>5, <2>6, <2>7
<1>8. {f \in mm : (f[a] - f[b] - e) % 3 = 0} = {f \in [Animal -> 0 .. 2] : Fits(z.p, z.d, f)}
  BY <1>1, <1>7 DEF Divides
<1>9. \E f \in [Animal -> 0 .. 2] : Fits(z.p, z.d, f)
  <2>1. PICK f \in [Animal -> 0 .. 2] : Fits(x.p, x.d, f)
    BY <1>1
  <2> DEFINE R(y) == Root(x.p, y)
             c == f[b] + e - f[a]
             g == [y \in Animal |-> IF R(y) = p THEN (f[y] + c) % 3 ELSE f[y]]
  <2>2. R(a) = p /\ R(b) = q /\ R(p) = p /\ R(q) = q
    <3>1. R(p) = p /\ R(q) = q
      BY <1>0, <1>1, <1>2, RootStep
    <3>2. R(x.p[a]) = R(a) /\ R(x.p[b]) = R(b)
      BY <1>1, RootStep
    <3>3. QED
      BY <1>11, <3>1, <3>2
  <2>3. \A y \in Animal : R(x.p[y]) = R(y) /\ x.p[y] \in Animal
    BY <1>1, RootStep
  <2>4. \A y \in Animal : f[y] \in 0 .. 2
    OBVIOUS
  <2>5. c \in Int
    BY <2>4
  <2> HIDE DEF c, R
  <2>6. \A y \in Animal : (f[y] + c) % 3 \in 0 .. 2
    <3>1. \A y \in Animal : f[y] + c \in Int
      BY <2>4, <2>5
    <3>2. QED
      BY <3>1, ModThree
  <2>7. g \in [Animal -> 0 .. 2]
    BY <2>4, <2>6
  <2>8. \A y \in Animal : (R(y) = p => g[y] = (f[y] + c) % 3) /\ (R(y) # p => g[y] = f[y])
    OBVIOUS
  <2> HIDE DEF g
  <2>9. ASSUME NEW y \in Animal
        PROVE  Divides(g[y] - g[x.p[y]] - x.d[y])
    <3>1. Divides(f[y] - f[x.p[y]] - x.d[y])
      BY <2>1 DEF Fits
    <3>2. f[y] \in Int /\ f[x.p[y]] \in Int /\ x.d[y] \in Int
      BY <1>1, <2>3, <2>4
    <3>3. CASE R(y) = p
      <4>1. g[y] = (f[y] + c) % 3 /\ g[x.p[y]] = (f[x.p[y]] + c) % 3
        BY <2>3, <2>8, <3>3
      <4> DEFINE u == f[y] + c
                 v == f[x.p[y]] + c
      <4>2. u \in Int /\ v \in Int /\ u - v - x.d[y] = f[y] - f[x.p[y]] - x.d[y]
        BY <2>5, <3>2
      <4>3. g[y] = u % 3 /\ g[x.p[y]] = v % 3
        BY <4>1
      <4> HIDE DEF u, v
      <4>4. Divides((u % 3) - (v % 3) - x.d[y]) <=> Divides(u - v - x.d[y])
        BY <3>2, <4>2, ThreesModulo
      <4>5. Divides(u - v - x.d[y])
        BY <3>1, <4>2
      <4>6. g[y] - g[x.p[y]] - x.d[y] = (u % 3) - (v % 3) - x.d[y]
        BY <4>3
      <4>7. QED
        BY <4>4, <4>5, <4>6
    <3>4. CASE R(y) # p
      BY <2>3, <2>8, <3>1, <3>4
    <3>5. QED
      BY <3>3, <3>4
  <2>10. Divides(g[a] - g[b] - e)
    <3>1. g[a] = (f[a] + c) % 3 /\ g[b] = f[b]
      BY <1>0, <2>2, <2>8
    <3>2. f[a] + c = f[b] + e /\ f[b] \in Int
      BY <2>4 DEF c
    <3>3. QED
      BY <3>1, <3>2 DEF Divides
  <2>11. Fits(z.p, z.d, g)
    BY <1>7, <2>7, <2>9, <2>10 DEF Fits
  <2>12. QED
    BY <2>7, <2>11
<1>10. QED
  BY <1>0, <1>4, <1>6, <1>8, <1>9 DEF ChainRight

\* One statement.
Judged(got, mm, agree) ==
  /\ got[2] \in BOOLEAN /\ got[2] = (agree = {})
  /\ ChainRight(got[1], IF agree = {} THEN mm ELSE agree)

LEMMA StatementIs ==
  ASSUME NEW x, NEW mm, ChainRight(x, mm), NEW a \in Animal, NEW b \in Animal, NEW e \in Int
  PROVE  Judged(Statement(x, e, a, b), mm, {f \in mm : (f[a] - f[b] - e) % 3 = 0})
<1> DEFINE y == FindChain(FindChain(x, a), b)
           agree == {f \in mm : (f[a] - f[b] - e) % 3 = 0}
           z == [y EXCEPT !.p[y.p[a]] = y.p[b], !.d[y.p[a]] = y.d[b] - y.d[a] + e]
<1>1. ChainRight(y, mm) /\ Flattened(y.p, x.p, Animal, a, b)
  BY TwoFound
<1>2. Statement(x, e, a, b) = IF y.p[a] # y.p[b] THEN <<z, FALSE>>
                              ELSE <<y, (y.d[a] - y.d[b] - e) % 3 # 0>>
  BY DEF Statement
<1> HIDE DEF y
<1>3. /\ y \in [p : [Animal -> Animal], d : [Animal -> Int]] /\ mm # {}
      /\ y.p[a] \in Animal /\ y.p[b] \in Animal
      /\ y.p[y.p[a]] = y.p[a] /\ y.p[y.p[b]] = y.p[b]
  BY <1>1 DEF ChainRight, Flattened
<1>4. CASE y.p[a] # y.p[b]
  <2> DEFINE p2 == [y.p EXCEPT ![y.p[a]] = y.p[b]]
             d2 == [y.d EXCEPT ![y.p[a]] = y.d[b] - y.d[a] + e]
  <2>1. y.p \in [Animal -> Animal] /\ y.d \in [Animal -> Int]
    BY <1>3
  <2>2. p2 \in [Animal -> Animal] /\ d2 \in [Animal -> Int]
    BY <1>3, <2>1
  <2>3. z = [y EXCEPT !.p = p2, !.d = d2]
    OBVIOUS
  <2> DEFINE w == [y EXCEPT !.p = p2]
             zz == [w EXCEPT !.d = d2]
  <2>4. z = zz
    BY <2>3
  <2> HIDE DEF p2, d2
  <2>5. w \in [p : [Animal -> Animal], d : [Animal -> Int]] /\ w.p = p2
    BY <1>3, <2>2
  <2> HIDE DEF w
  <2>6. zz \in [p : [Animal -> Animal], d : [Animal -> Int]] /\ zz.p = p2 /\ zz.d = d2
    BY <2>2, <2>5
  <2> HIDE DEF z, zz
  <2>7. z \in [p : [Animal -> Animal], d : [Animal -> Int]] /\ z.p = p2 /\ z.d = d2
    BY <2>4, <2>6
  <2>8. ChainRight(z, agree)
    <3>1. Hung(z, y, a, b, e)
      BY <2>7 DEF Hung, p2, d2
    <3>2. ChainRight(z, {f \in mm : (f[a] - f[b] - e) % 3 = 0})
      BY <1>1, <1>3, <1>4, <2>7, <3>1, HungChain
    <3>3. QED
      BY <3>2
  <2>9. agree # {}
    BY <2>8 DEF ChainRight
  <2>10. Statement(x, e, a, b) = <<z, FALSE>>
    BY <1>2, <1>4
  <2> HIDE DEF agree
  <2>11. Judged(<<z, FALSE>>, mm, agree)
    BY <2>8, <2>9 DEF Judged
  <2>12. QED
    BY <2>10, <2>11 DEF agree
<1>5. CASE y.p[a] = y.p[b]
  <2>1. \A f \in mm : Divides(f[a] - f[b] - e) <=> Divides(y.d[a] - y.d[b] - e)
    BY <1>1, <1>5, UnderOneRoot
  <2> DEFINE lie == (y.d[a] - y.d[b] - e) % 3 # 0
  <2>2. lie => agree = {}
    BY <2>1 DEF Divides
  <2>3. ~lie => agree = mm
    BY <2>1 DEF Divides
  <2>4. Statement(x, e, a, b) = <<y, lie>> /\ lie \in BOOLEAN
    BY <1>2, <1>5
  <2> HIDE DEF lie, agree
  <2>5. lie <=> agree = {}
    BY <1>3, <2>2, <2>3
  <2>6. (IF agree = {} THEN mm ELSE agree) = mm
    BY <2>2, <2>3, <2>4
  <2>7. lie = (agree = {})
    BY <2>4, <2>5
  <2>8. Judged(<<y, lie>>, mm, agree)
    BY <1>1, <2>4, <2>6, <2>7 DEF Judged
  <2>9. QED
    BY <2>4, <2>8 DEF agree
<1>6. QED
  BY <1>4, <1>5

LEMMA ChainStep ==
  ASSUME ChainInv, ChainCall
  PROVE  ChainInv' /\ AnswersAgree'
<1> USE DEF ChainInv
<1>1. PICK e \in {0, 1}, a \in Animal, b \in Animal :
        LET got == Statement(s, e, a, b)
            agree == {f \in m : (f[a] - f[b] - e) % 3 = 0}
        IN Call(got[1], IF agree = {} THEN m ELSE agree, got[2], agree = {})
  BY DEF ChainCall
<1> DEFINE got == Statement(s, e, a, b)
           agree == {f \in m : (f[a] - f[b] - e) % 3 = 0}
<1>2. e \in Int
  OBVIOUS
<1>3. Judged(got, m, agree)
  BY <1>2, StatementIs
<1> HIDE DEF got, agree
<1>4. s' = got[1] /\ m' = (IF agree = {} THEN m ELSE agree) /\ ans' = <<got[2], agree = {}>>
  BY <1>1 DEF Call, got, agree
<1>5. ChainRight(s', m')
  BY <1>3, <1>4 DEF Judged
<1>6. AnswersAgree'
  BY <1>3, <1>4 DEF Judged, AnswersAgree
<1>7. QED
  BY <1>5, <1>6

-----------------------------------------------------------------------------
(* The array trie: name gives each node the word that leads to it.         *)

LEMMA PrefixGrows ==
  ASSUME NEW S, NEW q \in Seq(S), NEW k \in 1 .. Len(q)
  PROVE  /\ SubSeq(q, 1, k) = Append(SubSeq(q, 1, k - 1), q[k])
         /\ \A j \in 0 .. k : SubSeq(SubSeq(q, 1, k), 1, j) = SubSeq(q, 1, j)
<1> DEFINE l == Len(q)
           a == SubSeq(q, 1, k - 1)
           b == SubSeq(q, 1, k)
<1>1. l \in Nat /\ k \in 1 .. l /\ \A i \in 1 .. l : q[i] \in S
  BY SeqIs
<1>2. k - 1 \in 0 .. l /\ k \in 0 .. l /\ k \in Nat \ {0}
  <2> HIDE DEF l
  <2> QED
    BY <1>1
<1>3. a \in Seq(S) /\ Len(a) = k - 1 /\ \A i \in 1 .. k - 1 : a[i] = q[i]
  BY <1>2, PrefixOf
<1>4. b \in Seq(S) /\ Len(b) = k /\ \A i \in 1 .. k : b[i] = q[i]
  BY <1>2, PrefixOf
<1> HIDE DEF a, b, l
<1>5. /\ Append(a, q[k]) \in Seq(S) /\ Len(Append(a, q[k])) = k - 1 + 1
      /\ \A i \in 1 .. k - 1 : Append(a, q[k])[i] = a[i]
      /\ Append(a, q[k])[k - 1 + 1] = q[k]
  <2>1. q[k] \in S
    BY <1>1
  <2>2. /\ Append(a, q[k]) \in Seq(S) /\ Len(Append(a, q[k])) = Len(a) + 1
        /\ \A i \in 1 .. Len(a) : Append(a, q[k])[i] = a[i]
        /\ Append(a, q[k])[Len(a) + 1] = q[k]
    BY <1>3, <2>1, AppendIs
  <2>3. QED
    BY <1>3, <2>2
<1>6. k - 1 + 1 = k /\ \A i \in 1 .. k : i \in 1 .. k - 1 \/ i = k
  BY <1>2
<1>7. \A i \in 1 .. k : Append(a, q[k])[i] = b[i]
  BY <1>3, <1>4, <1>5, <1>6
<1>8. b = Append(a, q[k])
  BY <1>4, <1>5, <1>6, <1>7, SeqEqual
<1>9. ASSUME NEW j \in 0 .. k
      PROVE  SubSeq(b, 1, j) = SubSeq(q, 1, j)
  <2>1. j \in 0 .. l /\ j \in 0 .. Len(b) /\ \A i \in 1 .. j : i \in 1 .. k
    BY <1>1, <1>4
  <2>2. SubSeq(b, 1, j) \in Seq(S) /\ Len(SubSeq(b, 1, j)) = j /\ \A i \in 1 .. j : SubSeq(b, 1, j)[i] = b[i]
    BY <1>4, <2>1, PrefixOf
  <2>3. SubSeq(q, 1, j) \in Seq(S) /\ Len(SubSeq(q, 1, j)) = j /\ \A i \in 1 .. j : SubSeq(q, 1, j)[i] = q[i]
    <3>1. j \in 0 .. Len(q)
      BY <2>1 DEF l
    <3>2. QED
      BY <3>1, PrefixOf
  <2>4. QED
    BY <1>4, <2>1, <2>2, <2>3, SeqEqual
<1>10. QED
  BY <1>8, <1>9 DEF a, b

LEMMA AppendsDiffer ==
  ASSUME NEW S, NEW q \in Seq(S), NEW r \in Seq(S), NEW e \in S, NEW f \in S,
         Append(q, e) = Append(r, f)
  PROVE  q = r /\ e = f
<1>1. /\ Len(Append(q, e)) = Len(q) + 1 /\ Append(q, e)[Len(q) + 1] = e
      /\ \A i \in 1 .. Len(q) : Append(q, e)[i] = q[i]
  BY AppendIs
<1>2. /\ Len(Append(r, f)) = Len(r) + 1 /\ Append(r, f)[Len(r) + 1] = f
      /\ \A i \in 1 .. Len(r) : Append(r, f)[i] = r[i]
  BY AppendIs
<1>3. Len(q) \in Nat /\ Len(r) \in Nat
  BY SeqIs
<1>4. Len(q) = Len(r)
  BY <1>1, <1>2, <1>3
<1>5. QED
  BY <1>1, <1>2, <1>4, SeqEqual

Sons == UNION {[D -> Nat] : D \in SUBSET (Nat \X Letter)}

StatStates ==
  [son : Sons, cnt : Seq(Nat), idx : Nat, call : {"none", "insert", "query"}, word : Seq(Letter),
   p : Nat, i : Nat]

NamedIn(son, cnt, idx, mm, name) ==
  /\ Len(cnt) = idx
  /\ mm \in [Word -> Nat]
  /\ name \in [0 .. idx -> {<<>>} \cup Word] /\ name[0] = <<>>
  /\ \A q, r \in 0 .. idx : name[q] = name[r] => q = r
  /\ \A e \in DOMAIN son : /\ e \in (0 .. idx) \X Letter /\ son[e] \in 1 .. idx
                           /\ name[son[e]] = Append(name[e[1]], e[2])
  /\ \A q \in 1 .. idx : \E e \in DOMAIN son : son[e] = q
  /\ \A q \in 0 .. idx : \A j \in 0 .. Len(name[q]) : \E r \in 0 .. idx : name[r] = SubSeq(name[q], 1, j)
  /\ \A q \in 1 .. idx : cnt[q] = mm[name[q]]
  /\ \A w \in Word : mm[w] > 0 => \E q \in 0 .. idx : name[q] = w

Named(t, mm, name) == NamedIn(t.son, t.cnt, t.idx, mm, name)

\* The call has come to the node its first letters lead to.
Walked(t, name) ==
  /\ t.p \in 0 .. t.idx
  /\ t.word \in {<<>>} \cup Word
  /\ t.call = "none" => t.word = <<>> /\ t.p = 0 /\ t.i = 1
  /\ t.call # "none" => t.word \in Word
  /\ t.i \in 1 .. Len(t.word) + 1
  /\ name[t.p] = SubSeq(t.word, 1, t.i - 1)

StatRight(t, mm) == t \in StatStates /\ \E name : Named(t, mm, name) /\ Walked(t, name)

StatInv == StatRight(s, m)

LEMMA WordsOrEmpty ==
  /\ <<>> \notin Word /\ Word \subseteq Seq(Letter) /\ <<>> \in Seq(Letter)
  /\ \A w \in Word : Len(w) \in 1 .. MaxLetters
  /\ \A w \in Word : \A k \in 1 .. Len(w) : SubSeq(w, 1, k) \in Word
<1>1. \A w \in Word : w \in Seq(Letter) /\ Len(w) \in 1 .. MaxLetters
  BY WordIs
<1>2. <<>> \in Seq(Letter) /\ Len(<<>>) = 0
  OBVIOUS
<1>3. ASSUME NEW w \in Word, NEW k \in 1 .. Len(w)
      PROVE  SubSeq(w, 1, k) \in Word
  <2>1. w \in Seq(Letter) /\ Len(w) \in 1 .. MaxLetters
    BY <1>1
  <2> DEFINE a == SubSeq(w, 1, k)
  <2>2. k \in 0 .. Len(w) /\ k \in 1 .. MaxLetters
    BY <2>1, LettersAssumption
  <2>3. a \in Seq(Letter) /\ Len(a) = k
    BY <2>1, <2>2, PrefixOf
  <2> HIDE DEF a
  <2>4. DOMAIN a = 1 .. k /\ a \in [1 .. k -> Letter]
    <3>1. DOMAIN a = 1 .. Len(a) /\ \A i \in 1 .. Len(a) : a[i] \in Letter
      BY <2>3, SeqIs
    <3>2. a \in [1 .. Len(a) -> Letter]
      BY <2>3, LenProperties
    <3>3. QED
      BY <2>3, <3>1, <3>2
  <2>5. QED
    BY <2>2, <2>4 DEF Word, a
<1>4. <<>> \notin Word
  BY <1>1, <1>2
<1>5. QED
  BY <1>1, <1>2, <1>3, <1>4

\* A missing edge: no node has the prefix that is one letter longer.
LEMMA NotNamed ==
  ASSUME NEW t \in StatStates, NEW mm, NEW name, Named(t, mm, name), Walked(t, name),
         t.i <= Len(t.word), <<t.p, t.word[t.i]>> \notin DOMAIN t.son
  PROVE  \A q \in 0 .. t.idx : name[q] # SubSeq(t.word, 1, t.i)
<1> DEFINE l == Len(t.word)
           w == t.word
<1>1. /\ t.idx \in Nat /\ t.i \in Nat /\ t.p \in 0 .. t.idx /\ w \in Seq(Letter)
      /\ name[t.p] = SubSeq(w, 1, t.i - 1) /\ t.i \in 1 .. l + 1 /\ t.i <= l
  BY DEF StatStates, Walked
<1>2. l \in Nat /\ \A k \in 1 .. l : w[k] \in Letter
  BY <1>1, SeqIs
<1>3. t.i \in 1 .. l
  <2> HIDE DEF l, w
  <2> QED
    BY <1>1, <1>2
<1>4. SubSeq(w, 1, t.i) = Append(name[t.p], w[t.i])
  <2>1. SubSeq(w, 1, t.i) = Append(SubSeq(w, 1, t.i - 1), w[t.i])
    <3>1. t.word \in Seq(Letter) /\ t.i \in 1 .. Len(t.word)
      BY <1>1, <1>3
    <3>2. QED
      BY <3>1, PrefixGrows
  <2>2. QED
    BY <1>1, <2>1
<1>5. \A q \in 0 .. t.idx : name[q] \in Seq(Letter)
  BY WordsOrEmpty DEF Named, NamedIn
<1>6. /\ name[0] = <<>> /\ \A q, r \in 0 .. t.idx : name[q] = name[r] => q = r
      /\ \A e \in DOMAIN t.son : /\ e \in (0 .. t.idx) \X Letter /\ t.son[e] \in 1 .. t.idx
                                 /\ name[t.son[e]] = Append(name[e[1]], e[2])
      /\ \A q \in 1 .. t.idx : \E e \in DOMAIN t.son : t.son[e] = q
  BY DEF Named, NamedIn
<1>7. <<t.p, w[t.i]>> \notin DOMAIN t.son
  OBVIOUS
<1>8. w[t.i] \in Letter
  BY <1>2, <1>3
<1> HIDE DEF l, w
<1>9. ASSUME NEW q \in 0 .. t.idx, name[q] = Append(name[t.p], w[t.i])
      PROVE  FALSE
  <2>1. CASE q = 0
    BY <1>1, <1>5, <1>6, <1>8, <1>9, <2>1, AppendIs
  <2>2. CASE q \in 1 .. t.idx
    <3>1. PICK e \in DOMAIN t.son : t.son[e] = q
      BY <1>6, <2>2
    <3>2. e \in (0 .. t.idx) \X Letter /\ name[q] = Append(name[e[1]], e[2])
      BY <1>6, <3>1
    <3>3. e = <<e[1], e[2]>> /\ e[1] \in 0 .. t.idx /\ e[2] \in Letter
      BY <3>2
    <3>4. Append(name[e[1]], e[2]) = Append(name[t.p], w[t.i])
      BY <1>9, <3>2
    <3>5. name[e[1]] = name[t.p] /\ e[2] = w[t.i]
      <4>1. name[e[1]] \in Seq(Letter) /\ name[t.p] \in Seq(Letter)
        BY <1>1, <1>5, <3>3
      <4>2. e[2] \in Letter
        BY <3>3
      <4> DEFINE a == name[e[1]]
                 b == name[t.p]
                 c == e[2]
                 d == w[t.i]
      <4>3. a \in Seq(Letter) /\ b \in Seq(Letter) /\ c \in Letter /\ d \in Letter /\ Append(a, c) = Append(b, d)
        BY <1>8, <3>4, <4>1, <4>2
      <4> HIDE DEF a, b, c, d
      <4>4. a = b /\ c = d
        BY <4>3, AppendsDiffer
      <4>5. QED
        BY <4>4 DEF a, b, c, d
    <3>6. e[1] = t.p
      BY <1>1, <1>6, <3>3, <3>5
    <3>7. e = <<t.p, w[t.i]>>
      BY <3>3, <3>5, <3>6
    <3>8. QED
      BY <1>7, <3>7
  <2>3. QED
    BY <1>1, <2>1, <2>2
<1>10. QED
  BY <1>4, <1>9 DEF w

\* The end of a call leaves the tree alone.
LEMMA DoneKeeps ==
  ASSUME NEW t \in StatStates, NEW mm, NEW name, Named(t, mm, name)
  PROVE  StatRight(StatDone(t), mm)
<1> DEFINE z == StatDone(t)
<1>1. /\ z \in StatStates /\ z.son = t.son /\ z.cnt = t.cnt /\ z.idx = t.idx
      /\ z.call = "none" /\ z.word = <<>> /\ z.p = 0 /\ z.i = 1
  <2> DEFINE a == [t EXCEPT !.call = "none"]
             e == <<>>
             b == [a EXCEPT !.word = e]
             c == [b EXCEPT !.p = 0]
             y == [c EXCEPT !.i = 1]
  <2>1. z = y
    BY DEF StatDone
  <2>2. /\ a \in StatStates /\ a.son = t.son /\ a.cnt = t.cnt /\ a.idx = t.idx
        /\ a.call = "none"
    BY DEF StatStates
  <2>3. e \in Seq(Letter)
    OBVIOUS
  <2> HIDE DEF a, e
  <2>4. /\ b \in StatStates /\ b.son = t.son /\ b.cnt = t.cnt /\ b.idx = t.idx
        /\ b.call = "none" /\ b.word = e
    BY <2>2, <2>3 DEF StatStates
  <2> HIDE DEF b
  <2>5. /\ c \in StatStates /\ c.son = t.son /\ c.cnt = t.cnt /\ c.idx = t.idx
        /\ c.call = "none" /\ c.word = e /\ c.p = 0
    BY <2>4 DEF StatStates
  <2> HIDE DEF c
  <2>6. /\ y \in StatStates /\ y.son = t.son /\ y.cnt = t.cnt /\ y.idx = t.idx
        /\ y.call = "none" /\ y.word = e /\ y.p = 0 /\ y.i = 1
    BY <2>5 DEF StatStates
  <2> HIDE DEF y, z
  <2>7. QED
    BY <2>1, <2>6 DEF e
<1> HIDE DEF z
<1>2. Named(z, mm, name)
  BY <1>1 DEF Named
<1>3. z.idx \in Nat /\ name[0] = <<>>
  BY <1>1 DEF StatStates, Named, NamedIn
<1>4. SubSeq(<<>>, 1, 0) = <<>>
  <2>1. <<>> \in Seq(Letter) /\ Len(<<>>) = 0
    OBVIOUS
  <2>2. SubSeq(<<>>, 1, Len(<<>>)) = <<>>
    BY <2>1, WholeIs
  <2>3. QED
    BY <2>1, <2>2
<1>5. z.p \in 0 .. z.idx /\ z.word \in {<<>>} \cup Word /\ z.i \in 1 .. Len(z.word) + 1
  BY <1>1, <1>3
<1>6. name[z.p] = SubSeq(z.word, 1, z.i - 1)
  <2>1. 1 - 1 = 0
    OBVIOUS
  <2>2. QED
    BY <1>1, <1>3, <1>4, <2>1
<1>7. Walked(z, name)
  BY <1>1, <1>5, <1>6 DEF Walked
<1>8. QED
  BY <1>1, <1>2, <1>7 DEF StatRight, z

LEMMA BegunKeeps ==
  ASSUME NEW t, NEW mm, StatRight(t, mm), t.call = "none",
         NEW w \in Word, NEW c \in {"insert", "query"}
  PROVE  StatRight([t EXCEPT !.call = c, !.word = w], mm)
<1> DEFINE z == [t EXCEPT !.call = c, !.word = w]
<1>1. PICK name : t \in StatStates /\ Named(t, mm, name) /\ Walked(t, name)
  BY DEF StatRight
<1>2. w \in Seq(Letter) /\ Len(w) \in 1 .. MaxLetters
  BY WordIs
<1>3. /\ z \in StatStates /\ z.son = t.son /\ z.cnt = t.cnt /\ z.idx = t.idx
      /\ z.call = c /\ z.word = w /\ z.p = t.p /\ z.i = t.i
  BY <1>1, <1>2 DEF StatStates
<1> HIDE DEF z
<1>4. Named(z, mm, name)
  BY <1>1, <1>3 DEF Named
<1>5. z.p = 0 /\ z.i = 1 /\ z.idx \in Nat
  BY <1>1, <1>3 DEF Walked, StatStates
<1>6. SubSeq(w, 1, 0) = <<>>
  <2>1. 0 \in 0 .. Len(w)
    BY <1>2
  <2> DEFINE a == SubSeq(w, 1, 0)
  <2>2. a \in Seq(Letter) /\ Len(a) = 0
    BY <1>2, <2>1, PrefixOf
  <2> HIDE DEF a
  <2>3. a = <<>>
    BY <2>2, SeqIs
  <2>4. QED
    BY <2>3 DEF a
<1>7. name[0] = <<>>
  BY <1>1 DEF Named, NamedIn
<1>8. name[z.p] = SubSeq(z.word, 1, z.i - 1)
  <2>1. 1 - 1 = 0
    OBVIOUS
  <2>2. QED
    BY <1>3, <1>5, <1>6, <1>7, <2>1
<1>9. z.p \in 0 .. z.idx /\ z.i \in 1 .. Len(z.word) + 1
  BY <1>2, <1>3, <1>5
<1>10. z.call # "none" /\ z.word \in Word
  BY <1>3
<1>11. Walked(z, name)
  BY <1>8, <1>9, <1>10 DEF Walked
<1>12. QED
  BY <1>3, <1>4, <1>11 DEF StatRight, z

\* What a walk in progress knows.
LEMMA WalkIs ==
  ASSUME NEW t \in StatStates, NEW name, Walked(t, name), t.call # "none"
  PROVE  /\ t.word \in Word /\ t.word \in Seq(Letter) /\ Len(t.word) \in Nat
         /\ t.i \in Nat \ {0} /\ t.p \in 0 .. t.idx /\ t.idx \in Nat
         /\ t.i <= Len(t.word) =>
              /\ t.i \in 1 .. Len(t.word) /\ t.word[t.i] \in Letter
              /\ t.i + 1 \in 1 .. Len(t.word) + 1 /\ SubSeq(t.word, 1, t.i) \in Word
              /\ SubSeq(t.word, 1, t.i) = Append(name[t.p], t.word[t.i])
         /\ t.i > Len(t.word) => name[t.p] = t.word
<1> DEFINE w == t.word
           l == Len(w)
           k == t.i
<1>1. w \in Word /\ k \in 1 .. l + 1 /\ t.p \in 0 .. t.idx /\ t.idx \in Nat /\ k \in Nat
      /\ name[t.p] = SubSeq(w, 1, k - 1)
  BY DEF Walked, StatStates
<1>2. w \in Seq(Letter) /\ l \in Nat
  BY <1>1, WordIs, SeqIs
<1>3. \A j \in 1 .. l : w[j] \in Letter /\ SubSeq(w, 1, j) \in Word
  BY <1>1, <1>2, WordsOrEmpty, SeqIs
<1>4. SubSeq(w, 1, l) = w
  BY <1>2, WholeIs
<1>5. \A j \in 1 .. l : SubSeq(w, 1, j) = Append(SubSeq(w, 1, j - 1), w[j])
  BY <1>2, PrefixGrows
<1> HIDE DEF w, l, k
<1>6. k <= l => k \in 1 .. l /\ k + 1 \in 1 .. l + 1
  BY <1>1, <1>2
<1>7. k > l => k - 1 = l
  BY <1>1, <1>2
<1>8. k \in Nat \ {0}
  BY <1>1, <1>2
<1>9. QED
  BY <1>1, <1>2, <1>3, <1>4, <1>5, <1>6, <1>7, <1>8 DEF w, l, k

\* A turn along an edge.
LEMMA WalkedOn ==
  ASSUME NEW t, NEW mm, StatRight(t, mm), t.call # "none", t.i <= Len(t.word),
         <<t.p, t.word[t.i]>> \in DOMAIN t.son
  PROVE  StatRight([t EXCEPT !.p = t.son[<<t.p, t.word[t.i]>>], !.i = @ + 1], mm)
<1> DEFINE e == <<t.p, t.word[t.i]>>
           n == t.son[e]
           z == [t EXCEPT !.p = n, !.i = @ + 1]
<1>1. PICK name : t \in StatStates /\ Named(t, mm, name) /\ Walked(t, name)
  BY DEF StatRight
<1>2. /\ t.word \in Word /\ t.word \in Seq(Letter) /\ t.i \in Nat /\ t.idx \in Nat
      /\ t.i + 1 \in 1 .. Len(t.word) + 1
      /\ SubSeq(t.word, 1, t.i) = Append(name[t.p], t.word[t.i])
  BY <1>1, WalkIs
<1>3. n \in 1 .. t.idx /\ name[n] = Append(name[t.p], t.word[t.i])
  <2>1. e \in DOMAIN t.son /\ e[1] = t.p /\ e[2] = t.word[t.i]
    OBVIOUS
  <2>2. QED
    BY <1>1, <2>1 DEF Named, NamedIn
<1>4. n \in Nat /\ t.i + 1 \in Nat
  <2>1. t.i + 1 \in Nat
    BY <1>2
  <2>2. n \in Nat
    <3> HIDE DEF n
    <3> QED
      BY <1>2, <1>3
  <2>3. QED
    BY <2>1, <2>2
<1> HIDE DEF e, n
<1>5. /\ z \in StatStates /\ z.son = t.son /\ z.cnt = t.cnt /\ z.idx = t.idx
      /\ z.call = t.call /\ z.word = t.word /\ z.p = n /\ z.i = t.i + 1
  BY <1>1, <1>4 DEF StatStates
<1> HIDE DEF z
<1>6. Named(z, mm, name)
  BY <1>1, <1>5 DEF Named
<1>8. name[z.p] = SubSeq(z.word, 1, z.i - 1)
  <2>1. z.i - 1 = t.i
    BY <1>2, <1>5
  <2>2. SubSeq(z.word, 1, z.i - 1) = SubSeq(t.word, 1, t.i)
    BY <1>5, <2>1
  <2>3. QED
    BY <1>2, <1>3, <1>5, <2>2
<1>9. z.p \in 0 .. z.idx
  BY <1>2, <1>3, <1>5
<1>10. Walked(z, name)
  BY <1>2, <1>5, <1>8, <1>9 DEF Walked
<1>11. QED
  BY <1>5, <1>6, <1>10 DEF StatRight, z, n, e

LEMMA OneLess ==
  ASSUME NEW l \in Nat, NEW k \in 1 .. l, NEW j \in 0 .. k, j # k
  PROVE  k - 1 \in 0 .. l /\ j \in 0 .. k - 1
OBVIOUS

LEMMA OneMorePlace ==
  ASSUME NEW k \in Nat
  PROVE  k + 1 \in 0 .. k + 1 /\ \A q \in 0 .. k : q \in 0 .. k + 1 /\ q # k + 1
OBVIOUS

\* z is t after insert() has followed the new edge e to the new node n.
Grown(z, t, e, n) ==
  /\ e = <<t.p, t.word[t.i]>> /\ n = t.idx + 1 /\ z \in StatStates
  /\ z.son = [f \in DOMAIN t.son \cup {e} |-> IF f = e THEN n ELSE t.son[f]]
  /\ z.cnt = Append(t.cnt, 0) /\ z.idx = n /\ z.call = t.call /\ z.word = t.word
  /\ z.p = n /\ z.i = t.i + 1

LEMMA WalkedOver ==
  ASSUME NEW t, NEW mm, StatRight(t, mm), t.call = "insert", t.i <= Len(t.word),
         NEW e, e \notin DOMAIN t.son, NEW n, NEW z, Grown(z, t, e, n)
  PROVE  StatRight(z, mm)
<1>z. /\ e = <<t.p, t.word[t.i]>> /\ n = t.idx + 1 /\ z \in StatStates
      /\ DOMAIN z.son = DOMAIN t.son \cup {e} /\ z.son[e] = n
      /\ \A f \in DOMAIN t.son : f # e /\ z.son[f] = t.son[f]
      /\ z.cnt = Append(t.cnt, 0) /\ z.idx = n /\ z.call = t.call /\ z.word = t.word
      /\ z.p = n /\ z.i = t.i + 1
  BY DEF Grown
<1>1. PICK name : t \in StatStates /\ Named(t, mm, name) /\ Walked(t, name)
  BY DEF StatRight
<1> DEFINE w == SubSeq(t.word, 1, t.i)
           p == t.p
           u == t.word[t.i]
           N == t.idx
           name2 == [q \in 0 .. N + 1 |-> IF q = N + 1 THEN w ELSE name[q]]
<1>2. /\ t.word \in Word /\ t.word \in Seq(Letter) /\ Len(t.word) \in Nat /\ t.i \in Nat \ {0} /\ t.i \in 1 .. Len(t.word)
      /\ N \in Nat /\ p \in 0 .. N /\ u \in Letter /\ w \in Word
      /\ t.i + 1 \in 1 .. Len(t.word) + 1
      /\ w = Append(name[p], u)
  BY <1>1, WalkIs
<1>3. \A q \in 0 .. N : name[q] # w
  BY <1>1, <1>z, NotNamed
<1>4. \A j \in 0 .. t.i : SubSeq(w, 1, j) = SubSeq(t.word, 1, j)
  BY <1>2, PrefixGrows
<1>5. w \in Seq(Letter) /\ Len(w) = t.i /\ w # <<>> /\ SubSeq(w, 1, Len(w)) = w
  <2>1. t.i \in 0 .. Len(t.word)
    BY <1>2
  <2>5. t.word \in Seq(Letter)
    BY <1>2
  <2>6. SubSeq(t.word, 1, t.i) \in Seq(Letter) /\ Len(SubSeq(t.word, 1, t.i)) = t.i
    <3> HIDE DEF w, p, u, N, name2
    <3> QED
      BY <2>1, <2>5, PrefixOf
  <2>2. w \in Seq(Letter) /\ Len(w) = t.i
    BY <2>6
  <2>3. w # <<>>
    BY <1>2, WordsOrEmpty
  <2> HIDE DEF w
  <2>4. SubSeq(w, 1, Len(w)) = w
    BY <2>2, WholeIs
  <2>7. QED
    BY <2>2, <2>3, <2>4
<1>6. /\ Len(t.cnt) = N /\ mm \in [Word -> Nat]
      /\ name \in [0 .. N -> {<<>>} \cup Word] /\ name[0] = <<>>
      /\ \A q, r \in 0 .. N : name[q] = name[r] => q = r
      /\ \A f \in DOMAIN t.son : /\ f \in (0 .. N) \X Letter /\ t.son[f] \in 1 .. N
                                 /\ name[t.son[f]] = Append(name[f[1]], f[2])
      /\ \A q \in 1 .. N : \E f \in DOMAIN t.son : t.son[f] = q
      /\ \A q \in 0 .. N : \A j \in 0 .. Len(name[q]) : \E r \in 0 .. N : name[r] = SubSeq(name[q], 1, j)
      /\ \A q \in 1 .. N : t.cnt[q] = mm[name[q]]
      /\ \A v \in Word : mm[v] > 0 => \E q \in 0 .. N : name[q] = v
  BY <1>1 DEF Named, NamedIn
<1>7. name[p] = SubSeq(t.word, 1, t.i - 1)
  BY <1>1 DEF Walked
<1>8. t.cnt \in Seq(Nat)
  BY <1>1 DEF StatStates
<1>9. e = <<p, u>> /\ n = N + 1 /\ n \notin 0 .. N /\ \A q \in 0 .. n : q \in 0 .. N \/ q = n
  <2>1. e = <<p, u>> /\ n = N + 1 /\ N \in Nat
    BY <1>2, <1>z
  <2> HIDE DEF N, p, u
  <2>2. QED
    BY <2>1
<1>10. \A q \in 0 .. N : q \in 0 .. n
  BY <1>2, <1>9
<1>11. name2[n] = w /\ \A q \in 0 .. N : name2[q] = name[q]
  <2>1. \A q \in 0 .. N + 1 : name2[q] = IF q = N + 1 THEN w ELSE name[q]
    OBVIOUS
  <2> HIDE DEF name2, w, N
  <2>2. n = N + 1 /\ n \in 0 .. N + 1 /\ \A q \in 0 .. N : q \in 0 .. N + 1 /\ q # N + 1
    BY <1>2, <1>9, OneMorePlace
  <2>3. QED
    BY <2>1, <2>2
<1>12. name2 \in [0 .. n -> {<<>>} \cup Word] /\ name2[0] = <<>>
  <2>1. \A q \in 0 .. N : name[q] \in {<<>>} \cup Word
    BY <1>6
  <2>2. w \in {<<>>} \cup Word
    BY <1>2
  <2>3. name2 = [q \in 0 .. N + 1 |-> name2[q]] /\ n = N + 1
    BY <1>9
  <2>4. 0 \in 0 .. N /\ name[0] = <<>>
    BY <1>2, <1>6
  <2> HIDE DEF name2, w, N
  <2>5. \A q \in 0 .. n : name2[q] \in {<<>>} \cup Word
    BY <1>9, <1>11, <2>1, <2>2
  <2>6. name2 \in [0 .. n -> {<<>>} \cup Word]
    BY <2>3, <2>5
  <2>7. QED
    BY <1>11, <2>4, <2>6
<1> HIDE DEF w, p, u, N, name2
<1>n. N \in Nat /\ n = N + 1 /\ p \in 0 .. N
  BY <1>2, <1>9
<1>13. \A q, r \in 0 .. n : name2[q] = name2[r] => q = r
  <2>1. \A q, r \in 0 .. N : name[q] = name[r] => q = r
    BY <1>6
  <2>2. \A q \in 0 .. n : q \in 0 .. N \/ q = n
    BY <1>9
  <2>3. QED
    BY <1>3, <1>11, <2>1, <2>2
<1>14. ASSUME NEW f \in DOMAIN z.son
       PROVE  f \in (0 .. n) \X Letter /\ z.son[f] \in 1 .. n /\ name2[z.son[f]] = Append(name2[f[1]], f[2])
  <2>1. f \in DOMAIN t.son \cup {e} /\ z.son[f] = IF f = e THEN n ELSE t.son[f]
    BY <1>z
  <2>2. CASE f = e
    <3>1. z.son[f] = n /\ n \in 1 .. n /\ f[1] = p /\ f[2] = u /\ p \in 0 .. n
      BY <1>2, <1>9, <1>10, <2>1, <2>2
    <3>2. f \in (0 .. n) \X Letter
      BY <1>2, <1>9, <2>2, <3>1
    <3>3. name2[p] = name[p]
      BY <1>2, <1>11
    <3>4. QED
      BY <1>2, <1>11, <3>1, <3>2, <3>3
  <2>3. CASE f # e
    <3>1. f \in DOMAIN t.son /\ z.son[f] = t.son[f]
      BY <2>1, <2>3
    <3>2. f \in (0 .. N) \X Letter /\ t.son[f] \in 1 .. N /\ name[t.son[f]] = Append(name[f[1]], f[2])
      BY <1>6, <3>1
    <3>3. f[1] \in 0 .. N /\ f[2] \in Letter /\ f = <<f[1], f[2]>>
      BY <3>2
    <3>4. name2[f[1]] = name[f[1]]
      BY <1>11, <3>3
    <3>5. t.son[f] \in 0 .. N /\ t.son[f] \in 1 .. n
      <4>1. t.son[f] \in 1 .. N
        BY <3>2
      <4>2. QED
        BY <1>n, <4>1
    <3>6. name2[t.son[f]] = name[t.son[f]]
      BY <1>11, <3>5
    <3>7. f \in (0 .. n) \X Letter
      BY <1>10, <3>3
    <3>8. QED
      BY <3>1, <3>2, <3>4, <3>5, <3>6, <3>7
  <2>4. QED
    BY <2>2, <2>3
<1>15. \A q \in 1 .. n : \E f \in DOMAIN z.son : z.son[f] = q
  <2>1. DOMAIN z.son = DOMAIN t.son \cup {e}
    BY <1>z
  <2>2. z.son[e] = n
    BY <1>z
  <2>3. \A f \in DOMAIN t.son : z.son[f] = t.son[f]
    BY <1>z
  <2>4. \A q \in 1 .. n : q \in 1 .. N \/ q = n
    BY <1>2, <1>9
  <2>5. \A q \in 1 .. N : \E f \in DOMAIN t.son : t.son[f] = q
    BY <1>6
  <2>6. ASSUME NEW q \in 1 .. n
        PROVE  \E f \in DOMAIN z.son : z.son[f] = q
    <3>1. CASE q = n
      <4>1. e \in DOMAIN z.son
        BY <2>1
      <4>2. QED
        BY <2>2, <3>1, <4>1
    <3>2. CASE q \in 1 .. N
      <4>1. PICK f \in DOMAIN t.son : t.son[f] = q
        BY <2>5, <3>2
      <4>2. f \in DOMAIN z.son /\ z.son[f] = q
        BY <2>1, <2>3, <4>1
      <4>3. QED
        BY <4>2
    <3>3. QED
      BY <2>4, <3>1, <3>2
  <2>7. QED
    BY <2>6
<1>16. ASSUME NEW q \in 0 .. n, NEW j \in 0 .. Len(name2[q])
       PROVE  \E r \in 0 .. n : name2[r] = SubSeq(name2[q], 1, j)
  <2>1. CASE q \in 0 .. N
    <3>1. PICK r \in 0 .. N : name[r] = SubSeq(name[q], 1, j)
      BY <1>6, <1>11, <2>1
    <3>2. QED
      BY <1>10, <1>11, <2>1, <3>1
  <2>2. CASE q = n
    <3>1. j \in 0 .. t.i
      BY <1>5, <1>11, <2>2
    <3>2. CASE j = t.i
      BY <1>5, <1>11, <2>2, <3>2
    <3>3. CASE j # t.i
      <4> DEFINE k == t.i - 1
      <4>1. k \in 0 .. Len(t.word) /\ j \in 0 .. k
        BY <1>2, <3>1, <3>3, OneLess
      <4>2. Len(name[p]) = k /\ name[p] = SubSeq(t.word, 1, k)
        <5>1. name[p] = SubSeq(t.word, 1, k)
          BY <1>7
        <5> HIDE DEF k
        <5>2. QED
          BY <1>2, <4>1, <5>1, PrefixOf
      <4>3. SubSeq(SubSeq(t.word, 1, k), 1, j) = SubSeq(t.word, 1, j)
        <5>1. CASE k = 0
          <6>1. j = 0
            BY <4>1, <5>1
          <6>2. 0 \in 0 .. Len(t.word) /\ 0 \in 0 .. 0
            BY <4>1, <5>1
          <6> DEFINE a == SubSeq(t.word, 1, 0)
          <6>3. a \in Seq(Letter) /\ Len(a) = 0
            BY <1>2, <6>2, PrefixOf
          <6> HIDE DEF a
          <6>4. SubSeq(a, 1, Len(a)) = a
            BY <6>3, WholeIs
          <6>5. SubSeq(a, 1, 0) = a
            BY <6>3, <6>4
          <6>6. SubSeq(SubSeq(t.word, 1, 0), 1, 0) = SubSeq(t.word, 1, 0)
            BY <6>5 DEF a
          <6>7. QED
            BY <5>1, <6>1, <6>6
        <5>2. CASE k # 0
          <6>1. k \in 1 .. Len(t.word)
            <7> HIDE DEF k
            <7> QED
              BY <1>2, <4>1, <5>2
          <6> HIDE DEF k
          <6>2. QED
            BY <1>2, <4>1, <6>1, PrefixGrows
        <5>3. QED
          BY <5>1, <5>2
      <4>4. PICK r \in 0 .. N : name[r] = SubSeq(name[p], 1, j)
        <5>1. \A v \in 0 .. N : \A y \in 0 .. Len(name[v]) : \E r \in 0 .. N : name[r] = SubSeq(name[v], 1, y)
          BY <1>6
        <5>2. j \in 0 .. Len(name[p]) /\ p \in 0 .. N
          BY <1>2, <4>1, <4>2
        <5>3. QED
          BY <5>1, <5>2
      <4>5. name2[r] = SubSeq(name2[q], 1, j)
        BY <1>4, <1>11, <2>2, <3>1, <4>2, <4>3, <4>4
      <4>6. QED
        BY <1>10, <4>5
    <3>4. QED
      BY <3>2, <3>3
  <2>3. QED
    BY <1>9, <2>1, <2>2
<1>17. mm[w] = 0
  <2>1. ~(mm[w] > 0)
    <3>1. \A v \in Word : mm[v] > 0 => \E q \in 0 .. N : name[q] = v
      BY <1>6
    <3>2. w \in Word
      BY <1>2
    <3>3. QED
      BY <1>3, <3>1, <3>2
  <2>2. mm[w] \in Nat
    BY <1>2, <1>6
  <2>3. QED
    BY <2>1, <2>2
<1>18. /\ Len(z.cnt) = n /\ z.cnt[n] = 0
       /\ \A q \in 1 .. N : z.cnt[q] = t.cnt[q]
  <2>1. /\ Len(Append(t.cnt, 0)) = Len(t.cnt) + 1
        /\ \A q \in 1 .. Len(t.cnt) : Append(t.cnt, 0)[q] = t.cnt[q]
        /\ Append(t.cnt, 0)[Len(t.cnt) + 1] = 0
    BY <1>8, AppendIs
  <2>2. QED
    BY <1>6, <1>9, <1>z, <2>1
<1>19. \A q \in 1 .. n : z.cnt[q] = mm[name2[q]]
  <2>1. \A q \in 1 .. n : q \in 1 .. N \/ q = n
    BY <1>2, <1>9
  <2>2. \A q \in 1 .. N : q \in 0 .. N
    BY <1>2
  <2>3. QED
    BY <1>6, <1>11, <1>17, <1>18, <2>1, <2>2
<1>20. \A v \in Word : mm[v] > 0 => \E q \in 0 .. n : name2[q] = v
  <2>1. \A v \in Word : mm[v] > 0 => \E q \in 0 .. N : name[q] = v
    BY <1>6
  <2>2. ASSUME NEW v \in Word, mm[v] > 0
        PROVE  \E q \in 0 .. n : name2[q] = v
    <3>1. PICK q \in 0 .. N : name[q] = v
      BY <2>1, <2>2
    <3>2. q \in 0 .. n /\ name2[q] = v
      BY <1>10, <1>11, <3>1
    <3>3. QED
      BY <3>2
  <2>3. QED
    BY <2>2
<1>21. Named(z, mm, name2)
  <2>1. z.idx = n /\ mm \in [Word -> Nat] /\ Len(z.cnt) = n
    BY <1>6, <1>18, <1>z
  <2>2. \A f \in DOMAIN z.son : /\ f \in (0 .. n) \X Letter /\ z.son[f] \in 1 .. n
                                /\ name2[z.son[f]] = Append(name2[f[1]], f[2])
    BY <1>14
  <2>3. \A q \in 0 .. n : \A j \in 0 .. Len(name2[q]) : \E r \in 0 .. n : name2[r] = SubSeq(name2[q], 1, j)
    BY <1>16
  <2>4. z.idx = n
    BY <1>z
  <2>5. /\ name2 \in [0 .. z.idx -> {<<>>} \cup Word] /\ name2[0] = <<>> /\ Len(z.cnt) = z.idx
    BY <1>12, <2>1, <2>4
  <2>6. \A q, r \in 0 .. z.idx : name2[q] = name2[r] => q = r
    BY <1>13, <2>4
  <2>7. \A f \in DOMAIN z.son : /\ f \in (0 .. z.idx) \X Letter /\ z.son[f] \in 1 .. z.idx
                                /\ name2[z.son[f]] = Append(name2[f[1]], f[2])
    BY <2>2, <2>4
  <2>8. \A q \in 1 .. z.idx : \E f \in DOMAIN z.son : z.son[f] = q
    BY <1>15, <2>4
  <2>9. \A q \in 0 .. z.idx : \A j \in 0 .. Len(name2[q]) :
           \E r \in 0 .. z.idx : name2[r] = SubSeq(name2[q], 1, j)
    BY <2>3, <2>4
  <2>10. \A q \in 1 .. z.idx : z.cnt[q] = mm[name2[q]]
    BY <1>19, <2>4
  <2>11. \A v \in Word : mm[v] > 0 => \E q \in 0 .. z.idx : name2[q] = v
    BY <1>20, <2>4
  <2>12. NamedIn(z.son, z.cnt, z.idx, mm, name2)
    BY <2>1, <2>5, <2>6, <2>7, <2>8, <2>9, <2>10, <2>11, Zenon DEF NamedIn
  <2>13. QED
    BY <2>12 DEF Named
<1>22. Walked(z, name2)
  <2>1. z.p \in 0 .. z.idx /\ z.word \in Word /\ z.call # "none"
    <3>1. n \in 0 .. n
      BY <1>n
    <3>2. QED
      BY <1>2, <1>z, <3>1
  <2>2. z.i - 1 = t.i
    BY <1>2, <1>z
  <2>3. SubSeq(z.word, 1, z.i - 1) = w
    BY <1>z, <2>2 DEF w
  <2>4. z.i \in 1 .. Len(z.word) + 1
    BY <1>2, <1>z
  <2>5. QED
    BY <1>11, <1>z, <2>1, <2>3, <2>4 DEF Walked
<1>23. QED
  BY <1>21, <1>22, <1>z DEF StatRight

\* insert() ends at the node of its word.
LEMMA CountedKeeps ==
  ASSUME NEW t, NEW mm, StatRight(t, mm), t.call = "insert", t.i > Len(t.word)
  PROVE  StatRight(StatDone([t EXCEPT !.cnt[t.p] = @ + 1]), [mm EXCEPT ![t.word] = @ + 1])
<1>1. PICK name : t \in StatStates /\ Named(t, mm, name) /\ Walked(t, name)
  BY DEF StatRight
<1>2. t.word \in Word /\ t.p \in 0 .. t.idx /\ t.idx \in Nat /\ name[t.p] = t.word
  BY <1>1, WalkIs
<1>3. /\ Len(t.cnt) = t.idx /\ mm \in [Word -> Nat]
      /\ name \in [0 .. t.idx -> {<<>>} \cup Word] /\ name[0] = <<>>
      /\ \A q, r \in 0 .. t.idx : name[q] = name[r] => q = r
      /\ \A q \in 1 .. t.idx : t.cnt[q] = mm[name[q]]
      /\ \A v \in Word : mm[v] > 0 => \E q \in 0 .. t.idx : name[q] = v
  BY <1>1 DEF Named, NamedIn
<1>4. t.cnt \in Seq(Nat)
  BY <1>1 DEF StatStates
<1>5. t.p # 0 /\ <<>> \notin Word
  BY <1>2, <1>3, WordsOrEmpty
<1> DEFINE N == t.idx
           p == t.p
           w == t.word
           mm2 == [mm EXCEPT ![w] = @ + 1]
           cnt2 == [t.cnt EXCEPT ![p] = @ + 1]
           z == [t EXCEPT !.cnt = cnt2]
<1>6. p \in 1 .. N
  <2> HIDE DEF N, p
  <2> QED
    BY <1>2, <1>5 DEF N, p
<1>7. \A q \in 1 .. N : name[q] \in Word
  <2>1. \A q \in 1 .. N : q \in 0 .. N /\ q # 0 /\ 0 \in 0 .. N
    BY <1>2
  <2>2. QED
    BY <1>3, <2>1
<1>8. /\ cnt2 \in Seq(Nat) /\ Len(cnt2) = N /\ cnt2[p] = t.cnt[p] + 1
      /\ \A q \in 1 .. N : q # p => cnt2[q] = t.cnt[q]
  <2>1. t.cnt \in Seq(Nat) /\ p \in 1 .. Len(t.cnt) /\ t.cnt[p] \in Nat /\ t.cnt[p] + 1 \in Nat
    BY <1>3, <1>4, <1>6, SeqIs
  <2>2. /\ [t.cnt EXCEPT ![p] = t.cnt[p] + 1] \in Seq(Nat)
        /\ Len([t.cnt EXCEPT ![p] = t.cnt[p] + 1]) = Len(t.cnt)
        /\ \A q \in 1 .. Len(t.cnt) : [t.cnt EXCEPT ![p] = t.cnt[p] + 1][q] = IF q = p THEN t.cnt[p] + 1 ELSE t.cnt[q]
    <3> HIDE DEF N, p, w, mm2, cnt2, z
    <3> QED
      BY <2>1, ExceptSeq
  <2>3. QED
    BY <1>3, <1>6, <2>2
<1>9. /\ mm2 \in [Word -> Nat] /\ mm2[w] = mm[w] + 1
      /\ \A v \in Word : v # w => mm2[v] = mm[v]
  BY <1>2, <1>3
<1>10. [t EXCEPT !.cnt[t.p] = @ + 1] = z
  OBVIOUS
<1> HIDE DEF mm2, cnt2
<1>11. /\ z \in StatStates /\ z.son = t.son /\ z.cnt = cnt2 /\ z.idx = N
  BY <1>1, <1>8 DEF StatStates
<1> HIDE DEF z, N, p, w
<1>12. \A q \in 1 .. N : cnt2[q] = mm2[name[q]]
  <2>1. ASSUME NEW q \in 1 .. N
        PROVE  cnt2[q] = mm2[name[q]]
    <3>1. t.cnt[q] = mm[name[q]] /\ q \in 0 .. N /\ p \in 0 .. N
      BY <1>2, <1>3 DEF N, p
    <3>2. CASE q = p
      BY <1>2, <1>8, <1>9, <3>1, <3>2 DEF p, w
    <3>3. CASE q # p
      <4>1. name[q] # w
        BY <1>2, <1>3, <3>1, <3>3 DEF p, w, N
      <4>2. QED
        BY <1>7, <1>8, <1>9, <3>1, <3>3, <4>1
    <3>4. QED
      BY <3>2, <3>3
  <2>2. QED
    BY <2>1
<1>13. \A v \in Word : mm2[v] > 0 => \E q \in 0 .. N : name[q] = v
  BY <1>2, <1>3, <1>9 DEF N, w
<1>14. Named(z, mm2, name)
  <2>1. N = t.idx
    BY DEF N
  <2>2. z.idx = t.idx /\ z.son = t.son /\ z.cnt = cnt2 /\ Len(z.cnt) = z.idx
    BY <1>8, <1>11, <2>1
  <2>3. /\ \A q \in 1 .. t.idx : cnt2[q] = mm2[name[q]]
        /\ \A v \in Word : mm2[v] > 0 => \E q \in 0 .. t.idx : name[q] = v
    BY <1>12, <1>13, <2>1
  <2>4. /\ \A e \in DOMAIN t.son : /\ e \in (0 .. t.idx) \X Letter /\ t.son[e] \in 1 .. t.idx
                                   /\ name[t.son[e]] = Append(name[e[1]], e[2])
        /\ \A q \in 1 .. t.idx : \E e \in DOMAIN t.son : t.son[e] = q
        /\ \A q \in 0 .. t.idx : \A j \in 0 .. Len(name[q]) :
              \E r \in 0 .. t.idx : name[r] = SubSeq(name[q], 1, j)
    BY <1>1 DEF Named, NamedIn
  <2>5. mm2 \in [Word -> Nat] /\ Len(cnt2) = t.idx
    BY <1>9, <2>2
  <2>6. NamedIn(t.son, cnt2, t.idx, mm2, name)
    BY <1>3, <2>3, <2>4, <2>5, Zenon DEF NamedIn
  <2>7. QED
    BY <2>2, <2>6 DEF Named
<1>15. StatRight(StatDone(z), mm2)
  BY <1>11, <1>14, DoneKeeps
<1>16. QED
  BY <1>10, <1>15 DEF mm2, w

LEMMA StatStepKeeps ==
  ASSUME StatInv, StatStep, AnswersAgree
  PROVE  StatInv' /\ AnswersAgree'
<1> USE DEF StatInv
<1>1. StatCall \/ StatLetter \/ StatInsert \/ StatQuery
  BY DEF StatStep
<1>2. CASE StatCall
  <2>1. PICK w \in Word, c \in {"insert", "query"} : Begin([s EXCEPT !.call = c, !.word = w])
    BY <1>2, Zenon DEF StatCall
  <2>2. s' = [s EXCEPT !.call = c, !.word = w] /\ m' = m /\ ans' = ans /\ s.call = "none"
    BY <1>2, <2>1 DEF StatCall, Begin
  <2>3. StatRight([s EXCEPT !.call = c, !.word = w], m)
    BY <2>2, BegunKeeps
  <2>4. QED
    BY <2>2, <2>3 DEF AnswersAgree
<1>3. CASE StatLetter
  <2> DEFINE e == <<s.p, s.word[s.i]>>
             n == s.idx + 1
             z1 == [s EXCEPT !.p = s.son[e], !.i = @ + 1]
             son2 == [f \in DOMAIN s.son \cup {e} |-> IF f = e THEN n ELSE s.son[f]]
             z2 == [s EXCEPT !.son = son2, !.cnt = Append(@, 0), !.idx = n, !.p = n, !.i = @ + 1]
  <2>1. /\ s.call # "none" /\ s.i <= Len(s.word) /\ m' = m /\ ans' = ans
        /\ \/ e \in DOMAIN s.son /\ s' = z1
           \/ e \notin DOMAIN s.son /\ s.call = "insert" /\ s' = z2
    BY <1>3 DEF StatLetter, Turn
  <2>2. CASE e \in DOMAIN s.son /\ s' = z1
    <3>1. StatRight([s EXCEPT !.p = s.son[<<s.p, s.word[s.i]>>], !.i = @ + 1], m)
      BY <2>1, <2>2, WalkedOn, Zenon
    <3>2. QED
      BY <2>1, <2>2, <3>1 DEF AnswersAgree
  <2>3. CASE e \notin DOMAIN s.son /\ s.call = "insert" /\ s' = z2
    <3>1. PICK name : s \in StatStates /\ Named(s, m, name) /\ Walked(s, name)
      BY DEF StatRight
    <3>2. s.idx \in Nat /\ s.i \in Nat /\ s.p \in 0 .. s.idx /\ s.word[s.i] \in Letter
      BY <2>1, <3>1, WalkIs
    <3>3. s.cnt \in Seq(Nat) /\ s.son \in Sons
      BY <3>1 DEF StatStates
    <3>4. n \in Nat /\ s.i + 1 \in Nat
      BY <3>2
    <3>5. Append(s.cnt, 0) \in Seq(Nat)
      BY <3>3, AppendIs
    <3>6. son2 \in Sons
      <4>1. PICK D \in SUBSET (Nat \X Letter) : s.son \in [D -> Nat]
        BY <3>3 DEF Sons
      <4>2. e \in Nat \X Letter
        BY <3>2
      <4>3. DOMAIN s.son = D /\ D \cup {e} \in SUBSET (Nat \X Letter)
        BY <4>1, <4>2
      <4> HIDE DEF e, n
      <4>4. son2 \in [D \cup {e} -> Nat]
        BY <3>4, <4>1, <4>3
      <4>5. QED
        BY <4>3, <4>4 DEF Sons
    <3> DEFINE a == Append(s.cnt, 0)
               z == [s EXCEPT !.son = son2, !.cnt = a, !.idx = n, !.p = n, !.i = @ + 1]
    <3>7. z = z2
      OBVIOUS
    <3> HIDE DEF son2, a, n
    <3>8. /\ z \in StatStates /\ z.son = son2 /\ z.cnt = a /\ z.idx = n
          /\ z.call = s.call /\ z.word = s.word /\ z.p = n /\ z.i = s.i + 1
      BY <3>1, <3>4, <3>5, <3>6 DEF StatStates, a
    <3> HIDE DEF z, z1, z2
    <3>9. Grown(z, s, e, n)
      BY <3>8 DEF Grown, son2, a, n
    <3> HIDE DEF e
    <3>10. StatRight(z, m)
      BY <2>1, <2>3, <3>9, WalkedOver
    <3>11. QED
      BY <2>1, <2>3, <3>7, <3>10 DEF AnswersAgree
  <2>4. QED
    BY <2>1, <2>2, <2>3
<1>4. CASE StatInsert
  <2>1. /\ s.call = "insert" /\ s.i > Len(s.word)
        /\ s' = StatDone([s EXCEPT !.cnt[s.p] = @ + 1]) /\ m' = [m EXCEPT ![s.word] = @ + 1]
        /\ ans' = <<Void, Void>>
    BY <1>4 DEF StatInsert, Return
  <2>2. StatRight(StatDone([s EXCEPT !.cnt[s.p] = @ + 1]), [m EXCEPT ![s.word] = @ + 1])
    BY <2>1, CountedKeeps
  <2>3. AnswersAgree'
    BY <2>1 DEF AnswersAgree
  <2>4. QED
    BY <2>1, <2>2, <2>3
<1>5. CASE StatQuery
  <2>1. PICK name : s \in StatStates /\ Named(s, m, name) /\ Walked(s, name)
    BY DEF StatRight
  <2>2. s' = StatDone(s) /\ m' = m /\ s.call = "query"
    BY <1>5 DEF StatQuery, Return
  <2>3. StatRight(StatDone(s), m)
    BY <2>1, DoneKeeps
  <2>4. /\ s.word \in Word /\ s.word \in Seq(Letter) /\ s.p \in 0 .. s.idx /\ s.idx \in Nat
        /\ Len(s.word) \in Nat /\ s.i \in Nat
        /\ s.i > Len(s.word) => name[s.p] = s.word
        /\ s.i <= Len(s.word) => s.i \in 1 .. Len(s.word)
    BY <2>1, <2>2, WalkIs
  <2>5. /\ m \in [Word -> Nat] /\ name[0] = <<>>
        /\ \A q \in 1 .. s.idx : s.cnt[q] = m[name[q]]
        /\ \A q \in 0 .. s.idx : \A j \in 0 .. Len(name[q]) : \E r \in 0 .. s.idx : name[r] = SubSeq(name[q], 1, j)
        /\ \A v \in Word : m[v] > 0 => \E q \in 0 .. s.idx : name[q] = v
    BY <2>1 DEF Named, NamedIn
  <2>6. CASE s.i <= Len(s.word) /\ <<s.p, s.word[s.i]>> \notin DOMAIN s.son
             /\ Return(StatDone(s), m, 0, m[s.word])
    <3>1. \A q \in 0 .. s.idx : name[q] # SubSeq(s.word, 1, s.i)
      BY <2>1, <2>6, NotNamed
    <3>2. ~(m[s.word] > 0)
      <4> SUFFICES ASSUME m[s.word] > 0 PROVE FALSE
        OBVIOUS
      <4>1. PICK q \in 0 .. s.idx : name[q] = s.word
        BY <2>4, <2>5
      <4>2. s.i \in 0 .. Len(name[q])
        BY <2>4, <2>6, <4>1
      <4>3. PICK r \in 0 .. s.idx : name[r] = SubSeq(name[q], 1, s.i)
        BY <2>5, <4>2
      <4>4. QED
        BY <3>1, <4>1, <4>3
    <3>3. m[s.word] = 0
      BY <2>4, <2>5, <3>2
    <3>4. ans' = <<0, m[s.word]>>
      BY <2>6 DEF Return
    <3>5. AnswersAgree'
      BY <3>3, <3>4 DEF AnswersAgree
    <3>6. QED
      BY <2>2, <2>3, <3>5
  <2>7. CASE s.i > Len(s.word) /\ Return(StatDone(s), m, s.cnt[s.p], m[s.word])
    <3>1. name[s.p] = s.word /\ s.p # 0
      BY <2>4, <2>5, <2>7, WordsOrEmpty
    <3>2. s.p \in 1 .. s.idx
      BY <2>4, <3>1
    <3>3. s.cnt[s.p] = m[s.word]
      BY <2>5, <3>1, <3>2
    <3>4. ans' = <<s.cnt[s.p], m[s.word]>>
      BY <2>7 DEF Return
    <3>5. AnswersAgree'
      BY <3>3, <3>4 DEF AnswersAgree
    <3>6. QED
      BY <2>2, <2>3, <3>5
  <2>8. QED
    BY <1>5, <2>6, <2>7 DEF StatQuery
<1>6. QED
  BY <1>1, <1>2, <1>3, <1>4, <1>5

-----------------------------------------------------------------------------
(* How each structure begins.                                              *)

LEMMA NothingIs ==
  /\ DOMAIN Nothing = {} /\ \A S : Nothing \in [{} -> S]
  /\ IsFiniteSet({}) /\ Cardinality({}) = 0
  /\ \A n : Timed(Nothing, n)
<1>1. DOMAIN Nothing = {} /\ \A S : Nothing \in [{} -> S]
  BY DEF Nothing
<1>2. IsFiniteSet({}) /\ Cardinality({}) = 0
  BY FS_EmptySet
<1>3. \A n : Timed(Nothing, n)
  BY <1>1, <1>2 DEF Timed
<1>4. QED
  BY <1>1, <1>2, <1>3

LEMMA NoElement ==
  /\ \A S : <<>> \in Seq(S)
  /\ Len(<<>>) = 0 /\ DOMAIN <<>> = {} /\ ToSet(<<>>) = {} /\ 1 .. 0 = {} /\ 2 .. 0 = {}
<1>1. \A S : <<>> \in Seq(S)
  OBVIOUS
<1>2. Len(<<>>) = 0 /\ 1 .. 0 = {} /\ 2 .. 0 = {}
  OBVIOUS
<1>3. DOMAIN <<>> = {}
  BY <1>1, <1>2, SeqIs
<1>4. ToSet(<<>>) = {}
  BY <1>3 DEF ToSet
<1>5. QED
  BY <1>1, <1>2, <1>3, <1>4

LEMMA LruStarts ==
  ASSUME s = LruInit, m = Nothing, ops = 0
  PROVE  LruInv
<1>1. DOMAIN m = {} /\ Timed(m, ops) /\ Cardinality(DOMAIN m) = 0
  BY NothingIs
<1>2. Capacity \in Nat /\ HeadNode \in LruNode /\ TailNode \in LruNode /\ HeadNode # TailNode
  BY CacheAssumption DEF LruNode
<1>3. /\ s \in ListState /\ s.cache = {}
      /\ \A n \in LruNode : s.next[n] = TailNode /\ s.prev[n] = HeadNode
  BY <1>2 DEF LruInit, ListState
<1>4. Linked(s, {}) /\ Falling(s, {}, m)
  BY <1>2, <1>3 DEF Linked, Falling
<1>5. QED
  BY <1>1, <1>2, <1>3, <1>4 DEF LruInv

LEMMA Lru1Starts ==
  ASSUME s = [keys |-> <<>>, map |-> Nothing], m = Nothing, ops = 0
  PROVE  Lru1Inv
<1>1. DOMAIN m = {} /\ Timed(m, ops) /\ Cardinality(DOMAIN m) = 0 /\ m \in [{} -> Val]
  BY NothingIs
<1>2. Capacity \in Nat
  BY CacheAssumption
<1>3. Listed(<<>>, m)
  BY <1>1, NoElement DEF Listed
<1>4. s \in [keys : Seq(Key), map : [DOMAIN m -> Val]] /\ s.keys = <<>>
  BY <1>1, NoElement
<1>5. QED
  BY <1>1, <1>2, <1>3, <1>4 DEF Lru1Inv

LEMMA HeapStarts ==
  ASSUME s = HeapInit, m = Nothing
  PROVE  HeapInv
<1>1. DOMAIN m = {} /\ m \in [{} -> Val]
  BY NothingIs
<1>2. /\ s.h = <<>> /\ s.hp = <<>> /\ s.ph = <<>> /\ s.size = 0 /\ s.run = "idle"
      /\ s.after = <<"return", 0>> /\ s.at = 0
  BY DEF HeapInit
<1>3. s \in HeapState
  BY NoElement DEF HeapState, HeapInit
<1>4. Placed(s, m)
  BY <1>1, <1>2, NoElement DEF Placed
<1>5. Repairing(s, m)
  BY <1>2, NoElement DEF Repairing, Ordered
<1>6. QED
  BY <1>3, <1>4, <1>5 DEF HeapInv, HeapRight

LEMMA StacksStart ==
  ASSUME s = [data |-> <<>>, min |-> <<Infinite>>], m = <<>>
  PROVE  MinStackInv /\ MinStack2Inv
<1> DEFINE low == <<Infinite>>
<1>1. /\ s.data = m /\ s.min = low /\ m = <<>>
      /\ m \in Seq(Val) /\ Len(m) = 0 /\ 1 .. Len(m) = {}
  BY NoElement
<1>2. low \in Seq(Int) /\ Len(low) = 1 /\ low[1] = Infinite /\ low # <<>>
  BY ValAssumption
<1> HIDE DEF low
<1>3. s \in [data : Seq(Val), min : Seq(Int)]
  BY <1>1, <1>2
<1>4. Records([i \in 1 .. 1 |-> 0], m, low)
  <2> DEFINE pos == [i \in 1 .. 1 |-> 0]
  <2>1. pos \in [1 .. 1 -> 0 .. 0] /\ pos[1] = 0
    OBVIOUS
  <2>2. 2 .. 1 = {} /\ \A i, j \in 1 .. 1 : ~(i < j)
    OBVIOUS
  <2> HIDE DEF pos
  <2>3. Records(pos, m, low)
    BY <1>1, <1>2, <2>1, <2>2 DEF Records
  <2>4. QED
    BY <2>3 DEF pos
<1>5. MinStackInv
  BY <1>1, <1>2, <1>3, <1>4 DEF MinStackInv
<1>6. MinStack2Inv
  BY <1>1, <1>2, <1>3 DEF MinStack2Inv
<1>7. QED
  BY <1>5, <1>6

LEMMA CQueueStarts ==
  ASSUME s = [s1 |-> <<>>, s2 |-> <<>>], m = <<>>
  PROVE  CQueueInv
BY NoElement DEF CQueueInv, TwoStacks

LEMMA MaxQueueStarts ==
  ASSUME s = [nums |-> <<>>, maxQ |-> <<>>], m = <<>>
  PROVE  MaxQueueInv
<1>1. IsInjective(m)
  BY NoElement DEF IsInjective
<1>2. Peaks(<<>>, m)
  BY NoElement DEF Peaks
<1>3. s \in [nums : Seq(Val), maxQ : Seq(Val)] /\ s.nums = m /\ s.maxQ = <<>> /\ m \in Seq(Val)
  BY NoElement
<1>4. QED
  BY <1>1, <1>2, <1>3 DEF MaxQueueInv

LEMMA KthStarts ==
  ASSUME s = [heap |-> {}, n |-> 0], m = <<>>
  PROVE  KthInv
<1>1. Len(m) = 0 /\ m \in Seq(Val) /\ 1 .. Len(m) = {}
  BY NoElement
<1>2. s = [n |-> Len(m), heap |-> s.heap] /\ s.heap = {}
  BY <1>1
<1>3. IsFiniteSet({}) /\ Cardinality({}) = 0 /\ 0 < Rank
  BY NothingIs, RankAssumption
<1>4. Kept({}, m)
  BY <1>1, <1>3 DEF Kept
<1>5. QED
  BY <1>1, <1>2, <1>4 DEF KthInv

LEMMA TrieStarts ==
  ASSUME s = [nodes |-> {}, isEnd |-> {}], m = [w \in Word |-> 0]
  PROVE  TrieInv
<1>1. Inserted = {} /\ m \in [Word -> Nat]
  BY DEF Inserted
<1>2. UNION {{SubSeq(w, 1, j) : j \in 1 .. Len(w)} : w \in {}} = {}
  OBVIOUS
<1>3. QED
  BY <1>1, <1>2 DEF TrieInv

LEMMA StatStarts ==
  ASSUME s = StatInit, m = [w \in Word |-> 0]
  PROVE  StatInv
<1> DEFINE name == [q \in 0 .. 0 |-> <<>>]
<1>1. /\ s.son = Nothing /\ s.cnt = <<>> /\ s.idx = 0 /\ s.call = "none" /\ s.word = <<>>
      /\ s.p = 0 /\ s.i = 1
  BY DEF StatInit
<1>2. s.son \in Sons /\ DOMAIN s.son = {}
  <2>1. Nothing \in [{} -> Nat] /\ {} \in SUBSET (Nat \X Letter) /\ DOMAIN Nothing = {}
    BY NothingIs
  <2>2. QED
    BY <1>1, <2>1 DEF Sons
<1>3. s \in StatStates
  <2>1. s = [son |-> s.son, cnt |-> s.cnt, idx |-> s.idx, call |-> s.call, word |-> s.word, p |-> s.p, i |-> s.i]
    BY DEF StatInit
  <2>2. s.cnt \in Seq(Nat) /\ s.word \in Seq(Letter) /\ s.idx \in Nat /\ s.p \in Nat /\ s.i \in Nat
    BY <1>1, NoElement
  <2>3. QED
    BY <1>1, <1>2, <2>1, <2>2 DEF StatStates
<1>4. m \in [Word -> Nat] /\ \A w \in Word : m[w] = 0
  OBVIOUS
<1>5. name \in [0 .. 0 -> {<<>>} \cup Word] /\ \A q \in 0 .. 0 : q = 0 /\ name[q] = <<>>
  OBVIOUS
<1>6. SubSeq(<<>>, 1, 0) = <<>>
  <2>1. SubSeq(<<>>, 1, Len(<<>>)) = <<>>
    BY NoElement, WholeIs
  <2>2. QED
    BY <2>1, NoElement
<1> HIDE DEF name
<1>7. Named(s, m, name)
  <2>1. \A q \in 0 .. 0 : \A j \in 0 .. Len(name[q]) : \E r \in 0 .. 0 : name[r] = SubSeq(name[q], 1, j)
    <3>1. ASSUME NEW q \in 0 .. 0, NEW j \in 0 .. Len(name[q])
          PROVE  \E r \in 0 .. 0 : name[r] = SubSeq(name[q], 1, j)
      <4>1. name[q] = <<>> /\ Len(name[q]) = 0
        BY <1>5, NoElement
      <4>2. j = 0
        BY <4>1
      <4>3. name[q] = SubSeq(name[q], 1, j)
        BY <1>6, <4>1, <4>2
      <4>4. QED
        BY <4>3
    <3>2. QED
      BY <3>1
  <2>2. Len(s.cnt) = s.idx /\ s.idx = 0 /\ 1 .. s.idx = {}
    BY <1>1, NoElement
  <2>3. /\ name \in [0 .. s.idx -> {<<>>} \cup Word] /\ name[0] = <<>>
        /\ \A q, r \in 0 .. s.idx : name[q] = name[r] => q = r
    BY <1>5, <2>2
  <2>4. \A w \in Word : ~(m[w] > 0)
    BY <1>4
  <2>5. Len(s.cnt) = s.idx
    BY <2>2
  <2>6. \A e \in DOMAIN s.son : FALSE
    BY <1>2
  <2>7. \A q \in 1 .. s.idx : FALSE
    BY <2>2
  <2>8. \A q \in 0 .. s.idx : \A j \in 0 .. Len(name[q]) :
           \E r \in 0 .. s.idx : name[r] = SubSeq(name[q], 1, j)
    BY <2>1, <2>2
  <2>9. NamedIn(s.son, s.cnt, s.idx, m, name)
    BY <1>4, <2>3, <2>4, <2>5, <2>6, <2>7, <2>8, Zenon DEF NamedIn
  <2>10. QED
    BY <2>9 DEF Named
<1>8. Walked(s, name)
  <2>1. s.p \in 0 .. s.idx /\ s.i - 1 = 0 /\ s.i \in 1 .. Len(s.word) + 1
    BY <1>1, NoElement
  <2>2. name[s.p] = SubSeq(s.word, 1, s.i - 1)
    BY <1>1, <1>5, <1>6, <2>1
  <2>3. QED
    BY <1>1, <2>1, <2>2 DEF Walked
<1>9. QED
  BY <1>3, <1>7, <1>8 DEF StatInv, StatRight

\* Every element is its own root.
LEMMA LoneRoots ==
  ASSUME NEW N
  PROVE  LET d == [x \in N |-> x] IN Forest(d, N) /\ \A x \in N : Root(d, x) = x
<1> DEFINE d == [x \in N |-> x]
<1>1. d \in [N -> N] /\ \A x \in N : d[x] = x
  OBVIOUS
<1> HIDE DEF d
<1>2. Forest(d, N)
  BY <1>1 DEF Forest
<1>3. \A x \in N : Root(d, x) = x
  BY <1>1, <1>2, RootStep
<1>4. QED
  BY <1>2, <1>3 DEF d

LEMMA SetsStart ==
  ASSUME s = [d |-> [x \in Node |-> x], n |-> [x \in Node |-> IF kind = "blocks" THEN 1 ELSE 0]],
         m = [x \in Node |-> {x}]
  PROVE  SetsInv
<1>1. /\ s \in [d : [Node -> Node], n : [Node -> Int]]
      /\ s.d = [x \in Node |-> x] /\ s.n = [x \in Node |-> IF kind = "blocks" THEN 1 ELSE 0]
  OBVIOUS
<1>2. Forest(s.d, Node) /\ \A x \in Node : Root(s.d, x) = x
  BY <1>1, LoneRoots
<1>3. m = Classes(s.d)
  <2>1. \A x \in Node : {y \in Node : Root(s.d, y) = Root(s.d, x)} = {x}
    BY <1>2
  <2>2. QED
    BY <2>1 DEF Classes
<1>4. kind = "blocks" => \A a \in Node : s.n[Root(s.d, a)] = Cardinality(m[a])
  BY <1>1, <1>2, FS_Singleton, Zenon
<1>5. QED
  BY <1>1, <1>2, <1>3, <1>4 DEF SetsInv, SetsRight

LEMMA ChainStarts ==
  ASSUME s = [p |-> [x \in Animal |-> x], d |-> [x \in Animal |-> 0]], m = [Animal -> 0 .. 2]
  PROVE  ChainInv
<1>1. /\ s \in [p : [Animal -> Animal], d : [Animal -> Int]]
      /\ s.p = [x \in Animal |-> x] /\ \A x \in Animal : s.p[x] = x /\ s.d[x] = 0
  OBVIOUS
<1>2. Forest(s.p, Animal)
  BY <1>1, LoneRoots
<1>3. ASSUME NEW f \in [Animal -> 0 .. 2]
      PROVE  Fits(s.p, s.d, f)
  <2>1. \A y \in Animal : f[y] - f[s.p[y]] - s.d[y] = 0
    <3>1. \A y \in Animal : f[y] \in Int
      OBVIOUS
    <3>2. QED
      BY <1>1, <3>1
  <2>2. Divides(0)
    BY DEF Divides
  <2>3. QED
    BY <2>1, <2>2 DEF Fits
<1>4. [x \in Animal |-> 0] \in m
  OBVIOUS
<1>5. QED
  BY <1>1, <1>2, <1>3, <1>4 DEF ChainInv, ChainRight

LEMMA MemoryPoolStarts ==
  ASSUME s = ExpandTheFreeList([free |-> <<>>, fresh |-> 0, lock |-> 0]), m = {}
  PROVE  MemoryPoolInv
<1> DEFINE f == [j \in 1 .. Expansion + 1 |-> j]
<1>1. Expansion + 1 \in Nat
  BY PoolsAssumption
<1>2. f \in Seq(Int) /\ DOMAIN f = 1 .. Expansion + 1 /\ \A j \in 1 .. Expansion + 1 : f[j] = j
  BY <1>1, SeqDef
<1>3. s = [free |-> f, fresh |-> Expansion + 1, lock |-> 0]
  <2>1. [j \in 1 .. Expansion + 1 |-> 0 + j] = f /\ 0 + Expansion + 1 = Expansion + 1
    BY PoolsAssumption
  <2> DEFINE x == [free |-> <<>>, fresh |-> 0, lock |-> 0]
             g == [j \in 1 .. Expansion + 1 |-> x.fresh + j]
             k == x.fresh + Expansion + 1
  <2>2. s = [x EXCEPT !.free = g, !.fresh = k]
    BY DEF ExpandTheFreeList
  <2>3. g = f /\ k = Expansion + 1
    BY <2>1
  <2> HIDE DEF g, k, f
  <2>4. s = [free |-> g, fresh |-> k, lock |-> 0]
    BY <2>2
  <2>5. QED
    BY <2>3, <2>4
<1> HIDE DEF f
<1>4. s \in [free : Seq(Int), fresh : Nat, lock : 0 .. 2] /\ s.free = f /\ s.fresh = Expansion + 1
  BY <1>1, <1>2, <1>3
<1>5. IsInjective(f)
  BY <1>2 DEF IsInjective
<1>6. ToSet(f) = 1 .. Expansion + 1
  BY <1>2 DEF ToSet
<1>7. QED
  BY <1>4, <1>5, <1>6 DEF MemoryPoolInv, Blocks

LEMMA BytePoolStarts ==
  ASSUME s = [chunks |-> <<[id |-> 1, used |-> 0]>>, orderly |-> TRUE], m = <<>>
  PROVE  BytePoolInv
<1> DEFINE c == [id |-> 1, used |-> 0]
           q == <<c>>
<1>1. c \in Chunk /\ c.id = 1 /\ c.used = 0
  BY DEF Chunk
<1> HIDE DEF c
<1>2. q \in Seq(Chunk) /\ Len(q) = 1 /\ q[1] = c /\ q # <<>>
  BY <1>1
<1>3. s.chunks = q /\ s.orderly = TRUE /\ s = [chunks |-> q, orderly |-> TRUE]
  BY DEF c
<1> HIDE DEF q
<1>4. s \in [chunks : Seq(Chunk), orderly : BOOLEAN]
  BY <1>2, <1>3
<1>5. m \in Seq(Block) /\ Len(m) = 0 /\ 1 .. Len(m) = {} /\ m = <<>>
  BY NoElement
<1>6. ChunkSize \in Nat
  BY PoolsAssumption
<1>7. Stacked(1, 0, m)
  BY <1>5, <1>6 DEF Stacked
<1>8. QED
  BY <1>1, <1>2, <1>3, <1>4, <1>5, <1>7 DEF BytePoolInv

-----------------------------------------------------------------------------
(* All structures together.  The queue with a maximum forgets its maximum  *)
(* when it may hold two equal elements, so that what follows is about the  *)
(* others, or about a queue that holds no element twice.                   *)

MaxQueueDiffers == "maxQueue" \in Kinds => ~Repeats

StateInv ==
  /\ kind = "lru" => LruInv
  /\ kind = "lru1" => Lru1Inv
  /\ kind \in {"mockHeap", "simulateHeap"} => HeapInv
  /\ kind = "minStack" => MinStackInv
  /\ kind = "minStack2" => MinStack2Inv
  /\ kind = "cqueue" => CQueueInv
  /\ kind = "maxQueue" => MaxQueueInv
  /\ kind = "kthLargest" => KthInv
  /\ kind = "trie" => TrieInv
  /\ kind = "stringStat" => StatInv
  /\ kind \in {"unionSet", "blocks", "unionFind"} => SetsInv
  /\ kind = "foodChain" => ChainInv
  /\ kind = "memoryPool" => MemoryPoolInv
  /\ kind = "bytePool" => BytePoolInv

StructuresInv == kind \in Kinds /\ StateInv /\ AnswersAgree

\* A step of the kind of structure it belongs to, which stays.
OfKind(call, ks) == call => kind \in ks /\ kind' = kind

LEMMA CallsStay ==
  /\ OfKind(CacheCall, {"lru", "lru1"})
  /\ OfKind(HeapCall, {"mockHeap", "simulateHeap"}) /\ OfKind(HeapTurn, {"mockHeap", "simulateHeap"})
  /\ OfKind(StackCall, {"minStack", "minStack2"})
  /\ OfKind(CQueueCall, {"cqueue"}) /\ OfKind(MaxQueueCall, {"maxQueue"})
  /\ OfKind(KthCall, {"kthLargest"}) /\ OfKind(TrieCall, {"trie"}) /\ OfKind(StatStep, {"stringStat"})
  /\ OfKind(SetsCall, {"unionSet", "blocks", "unionFind"}) /\ OfKind(ChainCall, {"foodChain"})
  /\ OfKind(PoolCall, {"memoryPool"}) /\ OfKind(ByteCall, {"bytePool"})
<1> USE DEF OfKind, Call
<1>1. OfKind(CacheCall, {"lru", "lru1"})
  BY DEF CacheCall, CacheGet, CachePut
<1>2. OfKind(HeapCall, {"mockHeap", "simulateHeap"})
  BY DEF HeapCall
<1>3. OfKind(HeapTurn, {"mockHeap", "simulateHeap"})
  BY DEF HeapTurn, Down, Up, Turn
<1>4. OfKind(StackCall, {"minStack", "minStack2"})
  BY DEF StackCall
<1>5. OfKind(CQueueCall, {"cqueue"})
  BY DEF CQueueCall
<1>6. OfKind(MaxQueueCall, {"maxQueue"})
  BY DEF MaxQueueCall
<1>7. OfKind(KthCall, {"kthLargest"})
  BY DEF KthCall
<1>8. OfKind(TrieCall, {"trie"})
  BY DEF TrieCall
<1>9. OfKind(StatStep, {"stringStat"})
  BY DEF StatStep, StatCall, StatLetter, StatInsert, StatQuery, Begin, Turn, Return
<1>10. OfKind(SetsCall, {"unionSet", "blocks", "unionFind"})
  BY DEF SetsCall
<1>11. OfKind(ChainCall, {"foodChain"})
  BY DEF ChainCall
<1>12. OfKind(PoolCall, {"memoryPool"})
  BY DEF PoolCall
<1>13. OfKind(ByteCall, {"bytePool"})
  BY DEF ByteCall
<1>14. QED
  BY <1>1, <1>2, <1>3, <1>4, <1>5, <1>6, <1>7, <1>8, <1>9, <1>10, <1>11, <1>12, <1>13

LEMMA StructuresStart ==
  ASSUME Init
  PROVE  StructuresInv
<1>1. /\ kind \in Kinds /\ s = Empty(kind)[1] /\ m = Empty(kind)[2] /\ ops = 0
      /\ ans = <<Void, Void>>
  BY DEF Init
<1>2. AnswersAgree
  BY <1>1 DEF AnswersAgree
<1>3. kind = "lru" => LruInv
  BY <1>1, LruStarts DEF Empty
<1>4. kind = "lru1" => Lru1Inv
  BY <1>1, Lru1Starts DEF Empty
<1>5. kind \in {"mockHeap", "simulateHeap"} => HeapInv
  BY <1>1, HeapStarts DEF Empty
<1>6. (kind = "minStack" => MinStackInv) /\ (kind = "minStack2" => MinStack2Inv)
  BY <1>1, StacksStart DEF Empty
<1>7. kind = "cqueue" => CQueueInv
  BY <1>1, CQueueStarts DEF Empty
<1>8. kind = "maxQueue" => MaxQueueInv
  BY <1>1, MaxQueueStarts DEF Empty
<1>9. kind = "kthLargest" => KthInv
  BY <1>1, KthStarts DEF Empty
<1>10. kind = "trie" => TrieInv
  BY <1>1, TrieStarts DEF Empty
<1>11. kind = "stringStat" => StatInv
  BY <1>1, StatStarts DEF Empty
<1>12. kind \in {"unionSet", "blocks", "unionFind"} => SetsInv
  BY <1>1, SetsStart DEF Empty
<1>13. kind = "foodChain" => ChainInv
  BY <1>1, ChainStarts DEF Empty
<1>14. kind = "memoryPool" => MemoryPoolInv
  BY <1>1, MemoryPoolStarts DEF Empty
<1>15. kind = "bytePool" => BytePoolInv
  BY <1>1, BytePoolStarts DEF Empty
<1>16. StateInv
  BY <1>3, <1>4, <1>5, <1>6, <1>7, <1>8, <1>9, <1>10, <1>11, <1>12, <1>13, <1>14, <1>15 DEF StateInv
<1>17. QED
  BY <1>1, <1>2, <1>16 DEF StructuresInv

LEMMA StructuresStep ==
  ASSUME MaxQueueDiffers, StructuresInv, Next
  PROVE  StructuresInv'
<1>1. kind \in Kinds /\ StateInv /\ AnswersAgree
  BY DEF StructuresInv
<1>2. CASE CacheCall
  <2>1. kind \in {"lru", "lru1"} /\ kind' = kind
    BY <1>2, CallsStay DEF OfKind
  <2>2. kind = "lru" => LruInv' /\ AnswersAgree'
    BY <1>1, <1>2, LruStep DEF StateInv
  <2>3. kind = "lru1" => Lru1Inv' /\ AnswersAgree'
    BY <1>1, <1>2, Lru1Step DEF StateInv
  <2>4. QED
    BY <1>1, <2>1, <2>2, <2>3 DEF StructuresInv, StateInv
<1>3. CASE HeapCall \/ HeapTurn
  <2>1. kind \in {"mockHeap", "simulateHeap"} /\ kind' = kind
    BY <1>3, CallsStay DEF OfKind
  <2>2. HeapInv
    BY <1>1, <2>1 DEF StateInv
  <2>3. HeapInv' /\ AnswersAgree'
    BY <1>1, <1>3, <2>2, HeapCallStep, HeapTurnStep
  <2>4. QED
    BY <1>1, <2>1, <2>3 DEF StructuresInv, StateInv
<1>4. CASE StackCall
  <2>1. kind \in {"minStack", "minStack2"} /\ kind' = kind
    BY <1>4, CallsStay DEF OfKind
  <2>2. kind = "minStack" => MinStackInv' /\ AnswersAgree'
    BY <1>1, <1>4, MinStackStep DEF StateInv
  <2>3. kind = "minStack2" => MinStack2Inv' /\ AnswersAgree'
    BY <1>1, <1>4, MinStack2Step DEF StateInv
  <2>4. QED
    BY <1>1, <2>1, <2>2, <2>3 DEF StructuresInv, StateInv
<1>5. CASE CQueueCall
  <2>1. kind = "cqueue" /\ kind' = kind
    BY <1>5, CallsStay DEF OfKind
  <2>2. CQueueInv' /\ AnswersAgree'
    BY <1>1, <1>5, <2>1, CQueueStep DEF StateInv
  <2>3. QED
    BY <1>1, <2>1, <2>2 DEF StructuresInv, StateInv
<1>6. CASE MaxQueueCall
  <2>1. kind = "maxQueue" /\ kind' = kind
    BY <1>6, CallsStay DEF OfKind
  <2>2. ~Repeats
    BY <1>1, <2>1 DEF MaxQueueDiffers
  <2>3. MaxQueueInv' /\ AnswersAgree'
    BY <1>1, <1>6, <2>1, <2>2, MaxQueueStep DEF StateInv
  <2>4. QED
    BY <1>1, <2>1, <2>3 DEF StructuresInv, StateInv
<1>7. CASE KthCall
  <2>1. kind = "kthLargest" /\ kind' = kind
    BY <1>7, CallsStay DEF OfKind
  <2>2. KthInv' /\ AnswersAgree'
    BY <1>1, <1>7, <2>1, KthStep DEF StateInv
  <2>3. QED
    BY <1>1, <2>1, <2>2 DEF StructuresInv, StateInv
<1>8. CASE TrieCall
  <2>1. kind = "trie" /\ kind' = kind
    BY <1>8, CallsStay DEF OfKind
  <2>2. TrieInv' /\ AnswersAgree'
    BY <1>1, <1>8, <2>1, TrieStep DEF StateInv
  <2>3. QED
    BY <1>1, <2>1, <2>2 DEF StructuresInv, StateInv
<1>9. CASE StatStep
  <2>1. kind = "stringStat" /\ kind' = kind
    BY <1>9, CallsStay DEF OfKind
  <2>2. StatInv' /\ AnswersAgree'
    BY <1>1, <1>9, <2>1, StatStepKeeps DEF StateInv
  <2>3. QED
    BY <1>1, <2>1, <2>2 DEF StructuresInv, StateInv
<1>10. CASE SetsCall
  <2>1. kind \in {"unionSet", "blocks", "unionFind"} /\ kind' = kind
    BY <1>10, CallsStay DEF OfKind
  <2>2. SetsInv' /\ AnswersAgree'
    BY <1>1, <1>10, <2>1, SetsStep DEF StateInv
  <2>3. QED
    BY <1>1, <2>1, <2>2 DEF StructuresInv, StateInv
<1>11. CASE ChainCall
  <2>1. kind = "foodChain" /\ kind' = kind
    BY <1>11, CallsStay DEF OfKind
  <2>2. ChainInv' /\ AnswersAgree'
    BY <1>1, <1>11, <2>1, ChainStep DEF StateInv
  <2>3. QED
    BY <1>1, <2>1, <2>2 DEF StructuresInv, StateInv
<1>12. CASE PoolCall
  <2>1. kind = "memoryPool" /\ kind' = kind
    BY <1>12, CallsStay DEF OfKind
  <2>2. MemoryPoolInv' /\ AnswersAgree'
    BY <1>1, <1>12, <2>1, MemoryPoolStep DEF StateInv
  <2>3. QED
    BY <1>1, <2>1, <2>2 DEF StructuresInv, StateInv
<1>13. CASE ByteCall
  <2>1. kind = "bytePool" /\ kind' = kind
    BY <1>13, CallsStay DEF OfKind
  <2>2. BytePoolInv' /\ AnswersAgree'
    BY <1>1, <1>13, <2>1, BytePoolStep DEF StateInv
  <2>3. QED
    BY <1>1, <2>1, <2>2 DEF StructuresInv, StateInv
<1>14. QED
  BY <1>2, <1>3, <1>4, <1>5, <1>6, <1>7, <1>8, <1>9, <1>10, <1>11, <1>12, <1>13 DEF Next

\* A step that changes nothing.
LEMMA StructuresStutter ==
  ASSUME StructuresInv, UNCHANGED vars
  PROVE  StructuresInv'
<1>1. s' = s /\ m' = m /\ ops' = ops /\ kind' = kind /\ ans' = ans
  BY DEF vars
<1>2. QED
  BY <1>1 DEF StructuresInv, StateInv, AnswersAgree, LruInv, Lru1Inv, HeapInv, MinStackInv, MinStack2Inv,
     CQueueInv, MaxQueueInv, KthInv, TrieInv, Inserted, StatInv, SetsInv, ChainInv, MemoryPoolInv, BytePoolInv

\* The invariant the two theorems below rest on, of whatever structures, elements,
\* capacities and number of calls: the state of the code is, at every call and at every
\* turn of a loop, one of the states that stand for the object, and the answers agree.
THEOREM StructuresInvariant ==
  ASSUME MaxQueueDiffers
  PROVE  Spec => []StructuresInv
<1>1. Init => StructuresInv
  BY StructuresStart
<1>2. StructuresInv /\ [Next]_vars => StructuresInv'
  BY StructuresStep, StructuresStutter
<1>3. QED
  BY <1>1, <1>2, PTL DEF Spec

\* After any sequence of legal calls the caches, the heaps, the stacks and queues, the
\* tries, the disjoint sets, the food chain and the memory pools answer what the map,
\* the sequence, the partition, or the set of the blocks held, that they stand for answers.
THEOREM StructuresAnswerRight ==
  ASSUME MaxQueueDiffers
  PROVE  Spec => []AnswersAgree
<1>1. StructuresInv => AnswersAgree
  BY DEF StructuresInv
<1>2. QED
  BY <1>1, StructuresInvariant, PTL

LEMMA PartsAreConsistent ==
  ASSUME StructuresInv
  PROVE  PartsConsistent
<1>1. StateInv
  BY DEF StructuresInv
<1>2. CacheSound
  <2>1. CASE kind = "lru"
    <3>1. LruInv
      BY <1>1, <2>1 DEF StateInv
    <3>2. s.cache = DOMAIN m /\ Linked(s, s.cache) /\ Falling(s, s.cache, m)
          /\ \A k \in s.cache : s.value[k] = m[k].val
      BY <3>1 DEF LruInv
    <3>3. QED
      BY <2>1, <3>2 DEF CacheSound, Linked, Falling
  <2>2. CASE kind = "lru1"
    <3>1. Lru1Inv
      BY <1>1, <2>2 DEF StateInv
    <3>2. /\ DOMAIN s.map = DOMAIN m /\ Listed(s.keys, m)
          /\ \A k \in DOMAIN m : s.map[k] = m[k].val
      BY <3>1 DEF Lru1Inv
    <3>3. QED
      BY <2>2, <3>2 DEF CacheSound, Listed
  <2>3. CASE kind # "lru" /\ kind # "lru1"
    BY <2>3 DEF CacheSound
  <2>4. QED
    BY <2>1, <2>2, <2>3
<1>3. HeapSound
  <2>1. CASE kind \in {"mockHeap", "simulateHeap"}
    BY <1>1, <2>1, HeapInvIsSound DEF StateInv
  <2>2. CASE kind \notin {"mockHeap", "simulateHeap"}
    BY <2>2 DEF HeapSound
  <2>3. QED
    BY <2>1, <2>2
<1>4. SetsSound
  <2>1. CASE kind \in {"unionSet", "blocks", "unionFind"}
    BY <1>1, <2>1, SetsInvIsSound DEF StateInv
  <2>2. CASE kind \notin {"unionSet", "blocks", "unionFind"}
    BY <2>2 DEF SetsSound
  <2>3. QED
    BY <2>1, <2>2
<1>5. PoolsSound
  <2>1. kind = "memoryPool" =>
          IsInjective(s.free) /\ ToSet(s.free) \cap m = {} /\ ToSet(s.free) \cup m = 1 .. s.fresh
    BY <1>1 DEF StateInv, MemoryPoolInv, Blocks
  <2>2. ASSUME kind = "bytePool", s.orderly
        PROVE  /\ \A i, j \in DOMAIN m : Overlap(m[i], m[j]) => i = j
               /\ \A i \in DOMAIN m : m[i].at + m[i].len <= ChunkSize
    <3>1. BytePoolInv
      BY <1>1, <2>2 DEF StateInv
    <3>2. m \in Seq(Block) /\ Stacked(s.chunks[1].id, s.chunks[1].used, m)
      BY <2>2, <3>1 DEF BytePoolInv
    <3>3. QED
      BY <3>2, StackedIsSound
  <2>3. QED
    BY <2>1, <2>2 DEF PoolsSound
<1>6. QED
  BY <1>2, <1>3, <1>4, <1>5 DEF PartsConsistent

\* After every call the redundant parts of the structures agree: list and map of the
\* caches in the order of use, both position maps of the heaps at every turn of their
\* loops, the trees of the disjoint sets with their sizes, and the free list of the pool
\* with the blocks the client holds, so that no block is handed out twice.
THEOREM StructuresAreConsistent ==
  ASSUME MaxQueueDiffers
  PROVE  Spec => []PartsConsistent
<1>1. StructuresInv => PartsConsistent
  BY PartsAreConsistent
<1>2. QED
  BY <1>1, StructuresInvariant, PTL
=============================================================================
