------------------------------ MODULE Sorting ------------------------------
(***************************************************************************)
(* The sorting, selection and heap exercises.  A pivot drawn with rand()   *)
(* may be any element: such a program is the set of its possible answers.  *)
(***************************************************************************)
EXTENDS ExerciseBasics

-----------------------------------------------------------------------------
(* Simple sorts.                                                           *)

BubblePass(d, i) ==
  FoldLeft(LAMBDA a, j : IF a[j] > a[j + 1] THEN Exchange(a, j, j + 1) ELSE a, d, Upto(1, i - 1))

\* A pass that swapped nothing is the last.
RECURSIVE BubbleFrom(_, _)
BubbleFrom(d, i) ==
  LET p == BubblePass(d, i) IN IF i < 1 \/ p = d THEN d ELSE BubbleFrom(p, i - 1)
BubbleSort(d) == BubbleFrom(d, Len(d))

\* tmp moves left in steps of gap until an element not larger stands before it.
RECURSIVE Slide(_, _, _, _)
Slide(d, i, gap, tmp) ==
  IF i > gap /\ d[i - gap] > tmp THEN Slide([d EXCEPT ![i] = d[i - gap]], i - gap, gap, tmp)
  ELSE [d EXCEPT ![i] = tmp]

\* Faulty variant: the gaps stop at 2.
GapPassNotLast(d, gap) ==
  IF gap = 1 THEN d
  ELSE FoldLeft(LAMBDA a, p : Slide(a, p, gap, a[p]), d, Upto(gap + 1, Len(d)))

GapPass(d, gap) == FoldLeft(LAMBDA a, p : Slide(a, p, gap, a[p]), d, Upto(gap + 1, Len(d)))

InsertionSort(d) == GapPass(d, 1)

RECURSIVE OriginShellFrom(_, _)
OriginShellFrom(d, gap) ==
  IF gap = 0 THEN d ELSE OriginShellFrom(GapPass(d, gap), gap \div 2)
Origin_Shell_Sort(d) == OriginShellFrom(d, Len(d) \div 2)

\* Only gaps below the length are used, the first of them twice.  Of an empty array
\* the program reads past the end of its gaps.
Sedgewick == <<929, 505, 209, 109, 41, 19, 5, 1>>
Sedgewick_Shell_Sort(d) ==
  LET gaps == SelectSeq(Sedgewick, LAMBDA x : x < Len(d)) IN
    FoldLeft(GapPass, d, First(gaps, Lesser(1, Len(gaps))) \o gaps)

ScanForMinIndex(d, from) == Min({i \in from .. Len(d) : \A j \in from .. Len(d) : d[i] <= d[j]})
Selection_Sort(d) ==
  FoldLeft(LAMBDA a, i : Exchange(a, ScanForMinIndex(a, i), i), d, Upto(1, Len(d)))

-----------------------------------------------------------------------------
(* Quicksort and selection by partition.                                   *)

\* Hoare's loop; g = 1 puts the small elements first, g = -1 the large ones.
\* Answers the array and where the two scans stopped.
RECURSIVE Partition(_, _, _, _, _)
Partition(d, i, j, x, g) ==
  LET p == Min({k \in i + 1 .. Len(d) : g * d[k] >= g * x})
      q == Max({k \in 1 .. j - 1 : g * d[k] <= g * x})
  IN IF p < q THEN Partition(Exchange(d, p, q), p, q, x, g) ELSE <<d, p, q>>

RECURSIVE QuickSort(_, _, _)
QuickSort(d, l, r) ==
  IF l >= r THEN d
  ELSE LET part == Partition(d, l - 1, r + 1, d[(l + r) \div 2], 1)
           j == part[3]
       IN QuickSort(QuickSort(part[1], l, j), j + 1, r)

\* ACW 785 recurses on (l, i), not (l, j).  depth bounds the calls: with two
\* equal elements the program calls itself with the same arguments for ever.
RECURSIVE quick_sort(_, _, _, _)
quick_sort(d, l, r, depth) ==
  IF l >= r \/ depth = 0 THEN d
  ELSE LET part == Partition(d, l - 1, r + 1, d[(l + r) \div 2], 1)
       IN quick_sort(quick_sort(part[1], l, part[2], depth - 1), part[3] + 1, r, depth - 1)

\* The median of left, centre and right is hidden at right - 1.
Median3(d, left, right) ==
  LET centre == (left + right) \div 2
      order(a, i, j) == IF a[i] > a[j] THEN Exchange(a, i, j) ELSE a
      sorted == order(order(order(d, left, centre), left, right), centre, right)
  IN Exchange(sorted, centre, right - 1)

RECURSIVE Quick_Sort(_, _, _)
Quick_Sort(d, left, right) ==
  IF left >= right THEN d
  ELSE LET m == Median3(d, left, right)
           pivot == m[right - 1]
           part == IF left < right - 1 THEN Partition(m, left, right - 1, pivot, 1)
                   ELSE <<m, left, left>>
           done == Exchange(part[1], part[2], right - 1)
       IN Quick_Sort(Quick_Sort(done, left, part[2] - 1), part[2] + 1, right)

RECURSIVE quick_select(_, _, _, _)
quick_select(d, l, r, k) ==
  IF l = r THEN d[l]
  ELSE LET part == Partition(d, l - 1, r + 1, d[(l + r) \div 2], 1)
           n == part[3] - l + 1
       IN IF n >= k THEN quick_select(part[1], l, part[3], k)
          ELSE quick_select(part[1], part[3] + 1, r, k - n)

\* The pivots from which the scans meet before r.  With another one nothing
\* moves and the same call is made again, which draws again.
Useful(d, l, r, g) == {x \in l .. r : Partition(d, l - 1, r + 1, d[x], g)[3] < r}

\* The k-th largest, any pivot.
RECURSIVE quickSelect(_, _, _, _)
quickSelect(d, l, r, k) ==
  IF l = r THEN {d[l]}
  ELSE UNION {LET part == Partition(d, l - 1, r + 1, d[x], -1)
                  n == part[3] - l + 1
              IN IF n >= k THEN quickSelect(part[1], l, part[3], k)
                 ELSE quickSelect(part[1], part[3] + 1, r, k - n) : x \in Useful(d, l, r, -1)}

\* The elements not above (g = 1), or not below (g = -1), the last one go
\* first, then that one.  Answers the array and the pivot's place.
Lomuto(d, l, r, g) ==
  LET step(st, j) ==
        IF g * st[1][j] <= g * d[r] THEN <<Exchange(st[1], st[2] + 1, j), st[2] + 1>> ELSE st
      st == FoldLeft(step, <<d, l - 1>>, Upto(l, r - 1))
  IN <<Exchange(st[1], st[2] + 1, r), st[2] + 1>>

RandomPartitions(d, l, r, g) == {Lomuto(Exchange(d, x, r), l, r, g) : x \in l .. r}

RECURSIVE quikSelect(_, _, _, _)
quikSelect(d, l, r, index) ==
  UNION {IF part[2] = index THEN {part[1][index]}
         ELSE IF part[2] < index THEN quikSelect(part[1], part[2] + 1, r, index)
         ELSE quikSelect(part[1], l, part[2] - 1, index) : part \in RandomPartitions(d, l, r, 1)}

-----------------------------------------------------------------------------
(* Merge sort.                                                             *)

\* When two are equal the left one goes first (n counts the inversions).
RECURSIVE Merge(_, _)
Merge(a, b) ==
  IF a = <<>> THEN [d |-> b, n |-> 0]
  ELSE IF b = <<>> THEN [d |-> a, n |-> 0]
  ELSE IF Head(a) <= Head(b)
       THEN LET m == Merge(Tail(a), b) IN [m EXCEPT !.d = <<Head(a)>> \o @]
       ELSE LET m == Merge(a, Tail(b)) IN [d |-> <<Head(b)>> \o m.d, n |-> m.n + Len(a)]

RECURSIVE MergeSort(_)
MergeSort(d) ==
  IF Len(d) <= 1 THEN [d |-> d, n |-> 0]
  ELSE LET mid == (Len(d) + 1) \div 2
           left == MergeSort(First(d, mid))
           right == MergeSort(SubSeq(d, mid + 1, Len(d)))
           m == Merge(left.d, right.d)
       IN [m EXCEPT !.n = @ + left.n + right.n]

\* ACW 787 sorts d and prints tmp, which a single element never reaches.
PrintedByMergeSort(d) == IF Len(d) = 1 THEN <<0>> ELSE MergeSort(d).d

-----------------------------------------------------------------------------
(* Heaps: g = 1 for the largest on top, g = -1 for the smallest.           *)

RECURSIVE down(_, _, _, _)
down(h, i, n, g) ==
  LET above(t, c) == IF c <= n /\ g * h[c] > g * h[t] THEN c ELSE t
      t == above(above(i, 2 * i), 2 * i + 1)
  IN IF t = i THEN h ELSE down(Exchange(h, t, i), t, n, g)

Heapify(d, g) == FoldLeft(LAMBDA h, i : down(h, i, Len(h), g), d, Downto(Len(d) \div 2, 1))

HeapSort(d) ==
  FoldLeft(LAMBDA h, i : down(Exchange(h, 1, i), 1, i - 1, 1), Heapify(d, 1), Downto(Len(d), 2))

\* The m smallest are taken off the top; the last element takes its place.
RECURSIVE PopSmallest(_, _, _)
PopSmallest(h, n, m) ==
  IF m = 0 THEN <<>>
  ELSE <<h[1]>> \o PopSmallest(down([h EXCEPT ![1] = h[n]], 1, n - 1, -1), n - 1, m - 1)
SmallestFirst(d, m) == PopSmallest(Heapify(d, -1), Len(d), m)

\* The first k in a max-heap, whose top any smaller later element replaces.
HeapLeastNumbers(d, k) ==
  FoldLeft(LAMBDA h, v : IF v < h[1] THEN down([h EXCEPT ![1] = v], 1, k, 1) ELSE h,
           Heapify(First(d, k), 1), SubSeq(d, k + 1, Len(d)))

\* A priority queue or multiset of at most k, the worst (to go first) in
\* front; better(v, w) says that v displaces w.
KeepBest(d, k, better(_, _)) ==
  FoldLeft(LAMBDA q, v :
             IF Len(q) < k THEN SortSeq(Append(q, v), LAMBDA a, b : better(b, a))
             ELSE IF better(v, q[1]) THEN SortSeq(Append(Tail(q), v), LAMBDA a, b : better(b, a))
             ELSE q, <<>>, d)

getLeastNumbers(d, k) == KeepBest(d, k, <)
findKthLargest(d, k) == KeepBest(d, k, >)[1]
findKthLargestFilled(d, k) ==
  FoldLeft(LAMBDA q, v : IF v > q[1] THEN Ascending(Append(Tail(q), v)) ELSE q,
           Ascending(First(d, k)), SubSeq(d, k + 1, Len(d)))[1]

\* Frequencies: the map's entries <<value, count>>, in any order.
Entries(d) == {<<v, HowOften(d, v)>> : v \in ToSet(d)}
Orders(S) == {f \in [1 .. Cardinality(S) -> S] : IsInjective(f)}

TopKFrequent(order, k) == KeepBest(order, k, LAMBDA a, b : a[2] > b[2])
\* The entry is pushed first and the worst popped after.
PushThenPop(order, k, better(_, _)) ==
  Reverse(FoldLeft(LAMBDA q, e : LET f == SortSeq(Append(q, e), LAMBDA a, b : better(b, a))
                                 IN IF Len(f) > k THEN Tail(f) ELSE f, <<>>, order))
FrequentByPush(order, k) == PushThenPop(order, k, LAMBDA a, b : a[2] > b[2])
WordBefore(a, b) == IF a[2] = b[2] THEN a[1] < b[1] ELSE a[2] > b[2]

\* By partition, on the counts alone: the answers the pivots can lead to.
RECURSIVE QuickTopK(_, _, _, _)
QuickTopK(c, l, r, k) ==
  IF l >= r THEN {c}
  ELSE UNION {LET part == Partition(c, l - 1, r + 1, c[x], -1)
                  n == part[3] - l + 1
              IN IF n >= k THEN QuickTopK(part[1], l, part[3], k)
                 ELSE QuickTopK(part[1], part[3] + 1, r, k - n) : x \in Useful(c, l, r, -1)}

\* The words program sorts both parts; c holds each entry's place under cmp.
RECURSIVE QuickWords(_, _, _)
QuickWords(c, l, r) ==
  IF l >= r THEN {c}
  ELSE UNION {LET part == Partition(c, l - 1, r + 1, c[x], 1)
              IN UNION {QuickWords(a, part[3] + 1, r) : a \in QuickWords(part[1], l, part[3])}
              : x \in Useful(c, l, r, 1)}

\* qsort() collects the counts of the k most frequent in topk.
RECURSIVE qsort(_, _, _, _)
qsort(c, start, end, k) ==
  UNION {LET q == part[2]
             front == SubSeq(part[1], start, q)
         IN IF start + k <= q THEN qsort(part[1], start, q - 1, k)
            ELSE IF start + k > q + 1
            THEN {front \o rest : rest \in qsort(part[1], q + 1, end, k - (q + 1 - start))}
            ELSE {front} : part \in RandomPartitions(c, start, end, -1)}

\* The k pairs of smallest sum, of two ascending arrays; kept by their sums.
kSmallestPairs(a, b, k) ==
  FoldLeft(LAMBDA q, v : IF Len(q) < k THEN Descending(Append(q, v))
                         ELSE IF v <= q[1] THEN Descending(Append(Tail(q), v)) ELSE q,
           <<>>, CrossSums(First(a, Lesser(k, Len(a))), First(b, Lesser(k, Len(b)))))

RECURSIVE PairsByMinHeap(_, _, _, _)
PairsByMinHeap(a, b, heap, k) ==
  IF k = 0 \/ heap = {} THEN <<>>
  ELSE LET sum(p) == a[p[1]] + b[p[2]]
           top == CHOOSE p \in heap : \A q \in heap : sum(p) <= sum(q)
           more == {<<top[1], top[2] + 1>>} \cap ({top[1]} \X (DOMAIN b))
       IN <<sum(top)>> \o PairsByMinHeap(a, b, (heap \ {top}) \cup more, k - 1)
kSmallestPairsMinHeap(a, b, k) ==
  PairsByMinHeap(a, b, {<<i, 1>> : i \in 1 .. Lesser(k, Len(a))}, k)

\* Places by score: sorted pairs, or a priority queue and an index map.
findRelativeRanks(d) ==
  LET arr == SortSeq([i \in DOMAIN d |-> <<-d[i], i>>], LAMBDA a, b : a[1] < b[1])
  IN [p \in DOMAIN d |-> CHOOSE i \in DOMAIN d : arr[i][2] = p]
RanksByQueue(d) ==
  LET pos(v) == CHOOSE i \in DOMAIN d : d[i] = v
      q == Descending(d)
  IN FoldLeft(LAMBDA ans, i : [ans EXCEPT ![pos(q[i])] = i], d, Upto(1, Len(d)))

-----------------------------------------------------------------------------
(* What the programs promise.                                              *)

Inversions(d) == Cardinality({p \in (DOMAIN d) \X (DOMAIN d) : p[1] < p[2] /\ d[p[1]] > d[p[2]]})

SortsRight(d) ==
  LET n == Len(d)
      up == Ascending(d)
      long == d \o Reverse(d)
  IN /\ BubbleSort(d) = up /\ InsertionSort(d) = up /\ Selection_Sort(d) = up
     /\ Origin_Shell_Sort(d) = up /\ Origin_Shell_Sort(long) = Ascending(long)
     /\ n > 0 => Sedgewick_Shell_Sort(d) = up /\ Sedgewick_Shell_Sort(long) = Ascending(long)
     /\ QuickSort(d, 1, n) = up /\ Quick_Sort(d, 1, n) = up
     /\ IsInjective(d) => quick_sort(d, 1, n, 2 * n) = up
     /\ MergeSort(d) = [d |-> up, n |-> Inversions(d)]
     /\ n > 1 => PrintedByMergeSort(d) = up
     /\ HeapSort(d) = up

SelectsRight(d) ==
  LET n == Len(d)
      up == Ascending(d)
      dn == Descending(d)
      counts == LET o == CHOOSE o \in Orders(Entries(d)) : TRUE IN [i \in DOMAIN o |-> o[i][2]]
      byCount == Descending(counts)
  IN /\ \A k \in 1 .. n :
          /\ SmallestFirst(d, k) = First(up, k)
          /\ Ascending(HeapLeastNumbers(d, k)) = First(up, k)
          /\ Reverse(getLeastNumbers(d, k)) = First(up, k)
          /\ quick_select(d, 1, n, k) = up[k]
          /\ quickSelect(d, 1, n, k) = {dn[k]} /\ quikSelect(d, 1, n, n + 1 - k) = {dn[k]}
          /\ findKthLargest(d, k) = dn[k] /\ findKthLargestFilled(d, k) = dn[k]
     /\ \A k \in 1 .. Len(counts) :
          /\ \A c \in QuickTopK(counts, 1, Len(counts), k) :
               Descending(First(c, k)) = First(byCount, k)
          /\ \A c \in qsort(counts, 1, Len(counts), k) : Descending(c) = First(byCount, k)
          /\ \A o \in Orders(Entries(d)) :
               LET of(q) == [i \in DOMAIN q |-> q[i][2]] IN
                 /\ of(Reverse(TopKFrequent(o, k))) = First(byCount, k)
                 /\ of(FrequentByPush(o, k)) = First(byCount, k)
                 /\ PushThenPop(o, k, WordBefore) = First(SortSeq(o, WordBefore), k)
     /\ LET places == Upto(1, Len(counts)) IN
          \A o \in Permutations(DOMAIN counts) : QuickWords(o, 1, Len(o)) = {places}
     /\ IsInjective(d) => \A p \in DOMAIN d :
          findRelativeRanks(d)[p] = HowOften([i \in DOMAIN d |-> d[i] >= d[p]], TRUE)
          /\ RanksByQueue(d) = findRelativeRanks(d)

PairsRight(a, b, k) ==
  LET sums == Ascending(CrossSums(a, b))
      best == First(sums, Lesser(k, Len(sums)))
  IN /\ Reverse(kSmallestPairs(a, b, k)) = best
     /\ kSmallestPairsMinHeap(a, b, k) = best
=============================================================================
