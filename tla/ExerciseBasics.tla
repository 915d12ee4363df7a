--------------------------- MODULE ExerciseBasics ---------------------------
(***************************************************************************)
(* What the exercise modules share.  An array of the programs, indexed     *)
(* from 0 there, is a sequence, indexed from 1, here.                      *)
(***************************************************************************)
EXTENDS Integers, Sequences, FiniteSets, SequencesExt, FiniteSetsExt, Functions, TLC

Infinity == 1000                          \* INT_MAX, 0x3f3f3f3f and their like

Upto(a, b) == [k \in 1 .. b - a + 1 |-> a + k - 1]
Downto(a, b) == [k \in 1 .. a - b + 1 |-> a - k + 1]

\* std::swap(d[i], d[j])
Exchange(d, i, j) == [d EXCEPT ![i] = d[j], ![j] = d[i]]

Ascending(d) == SortSeq(d, <)             \* std::sort
Descending(d) == SortSeq(d, >)

Total(d) == FoldLeft(+, 0, d)
Largest(S) == IF S = {} THEN -Infinity ELSE Max(S)
Smallest(S) == IF S = {} THEN Infinity ELSE Min(S)
Bigger(a, b) == IF a > b THEN a ELSE b
Lesser(a, b) == IF a < b THEN a ELSE b
Distance(a, b) == IF a > b THEN a - b ELSE b - a

\* The sums of every element of a with every element of b, row by row.
CrossSums(a, b) ==
  [n \in 1 .. Len(a) * Len(b) |-> a[((n - 1) \div Len(b)) + 1] + b[((n - 1) % Len(b)) + 1]]

First(d, n) == SubSeq(d, 1, n)
At(d, k) == d[k + 1]                      \* indexed from 0, as the programs do

\* A stack, or the back of a deque, popped while the test holds of its top.
PopWhile(q, Test(_)) == First(q, Largest({0} \cup {n \in DOMAIN q : ~Test(q[n])}))

HowOften(d, v) == Cardinality({i \in DOMAIN d : d[i] = v})
Subsets(S, n) == {T \in SUBSET S : Cardinality(T) = n}
=============================================================================
