------------------------------ MODULE Scanning ------------------------------
(***************************************************************************)
(* Exercises that pass over an array or a string with two pointers, a      *)
(* window, a stack, a table of what was seen, or sums of prefixes.         *)
(***************************************************************************)
EXTENDS ExerciseBasics

-----------------------------------------------------------------------------
(* Two pointers from the ends.                                             *)

\* The lower side moves inwards.
maxArea(h) ==
  LET f[l \in Int, r \in Int] ==
        IF l >= r THEN 0
        ELSE Bigger(Lesser(h[l], h[r]) * (r - l), IF h[l] >= h[r] THEN f[l, r - 1] ELSE f[l + 1, r])
  IN f[1, Len(h)]

MaxAreaByCase(h) ==
  LET f[l \in Int, r \in Int] ==
        IF l >= r THEN 0
        ELSE IF h[l] < h[r] THEN Bigger(h[l] * (r - l), f[l + 1, r])
        ELSE Bigger(h[r] * (r - l), f[l, r - 1])
  IN f[1, Len(h)]

\* Rain water: from both ends (twice), with the maxima of both sides, and with
\* a stack of falling heights.
trap(h) ==
  LET f[l \in Int, r \in Int, lmax \in Int, rmax \in Int] ==
        IF l > r THEN 0
        ELSE IF lmax < rmax
        THEN LET m == Bigger(lmax, h[l]) IN m - h[l] + f[l + 1, r, m, rmax]
        ELSE LET m == Bigger(rmax, h[r]) IN m - h[r] + f[l, r - 1, lmax, m]
  IN IF h = <<>> THEN 0 ELSE f[1, Len(h), h[1], h[Len(h)]]

TrapByLower(h) ==
  LET f[l \in Int, r \in Int, lmax \in Int, rmax \in Int] ==
        LET lm == Bigger(lmax, h[l])
            rm == Bigger(rmax, h[r])
        IN IF l >= r THEN 0
           ELSE IF h[l] < h[r] THEN lm - h[l] + f[l + 1, r, lm, rm] ELSE rm - h[r] + f[l, r - 1, lm, rm]
  IN f[1, Len(h), 0, 0]

TrapByMaxima(h) ==
  LET lMaxH[i \in DOMAIN h] == IF i = 1 THEN h[1] ELSE Bigger(lMaxH[i - 1], h[i])
      rMaxH[i \in DOMAIN h] == IF i = Len(h) THEN h[i] ELSE Bigger(rMaxH[i + 1], h[i])
  IN Total([i \in DOMAIN h |-> Lesser(lMaxH[i], rMaxH[i]) - h[i]])

RECURSIVE DrainStack(_, _, _)
DrainStack(h, stk, i) ==
  IF stk = <<>> \/ h[i] <= h[Last(stk)] THEN [stk |-> stk, water |-> 0]
  ELSE LET under == Front(stk) IN
         IF under = <<>> THEN [stk |-> under, water |-> 0]
         ELSE LET left == Last(under)
                  more == DrainStack(h, under, i)
              IN [more EXCEPT !.water =
                    @ + (i - left - 1) * (Lesser(h[i], h[left]) - h[Last(stk)])]
TrapByStack(h) ==
  LET f[i \in Nat] ==
        IF i = 0 THEN [stk |-> <<>>, water |-> 0]
        ELSE LET st == DrainStack(h, f[i - 1].stk, i)
             IN [stk |-> Append(st.stk, i), water |-> f[i - 1].water + st.water]
  IN f[Len(h)].water

\* Pairs j < k of d from place i on with the given sum, equal values once.
PairsWithSum(d, i, target) ==
  LET f[j \in Int, k \in Int] ==
        IF j >= k THEN <<>>
        ELSE IF j > i /\ d[j] = d[j - 1] THEN f[j + 1, k]
        ELSE LET q == Max({j} \cup {x \in j + 1 .. k : d[j] + d[x] <= target})
             IN (IF q # j /\ d[j] + d[q] = target THEN <<<<d[j], d[q]>>>> ELSE <<>>) \o f[j + 1, q]
  IN f[i, Len(d)]

Prefixed(v, lists) == [n \in DOMAIN lists |-> <<v>> \o lists[n]]
FirstOfItsValue(d, i, from) == i = from \/ d[i] # d[i - 1]
threeSum(nums) ==
  LET d == Ascending(nums) IN
    FlattenSeq([i \in DOMAIN d |-> IF FirstOfItsValue(d, i, 1)
                                   THEN Prefixed(d[i], PairsWithSum(d, i + 1, -d[i])) ELSE <<>>])
fourSum(nums, target) ==
  LET d == Ascending(nums)
      from(a) == [b \in DOMAIN d |->
                    IF b > a /\ FirstOfItsValue(d, b, a + 1)
                    THEN Prefixed(d[b], PairsWithSum(d, b + 1, target - d[a] - d[b])) ELSE <<>>]
  IN FlattenSeq([a \in DOMAIN d |->
                   IF FirstOfItsValue(d, a, 1) THEN Prefixed(d[a], FlattenSeq(from(a))) ELSE <<>>])

\* An exact sum ends the search; among equally close ones the first stays.
Closer(sum, best, target) == IF Distance(sum, target) < Distance(best, target) THEN sum ELSE best
threeSumClosest(nums, target) ==
  LET d == Ascending(nums)
      f[i \in Int, j \in Int, k \in Int, ans \in Int] ==
        LET sum == d[i] + d[j] + d[k] IN
          IF i > Len(d) THEN ans
          ELSE IF j >= k THEN f[i + 1, i + 2, Len(d), ans]
          ELSE IF sum > target THEN f[i, j, k - 1, Closer(sum, ans, target)]
          ELSE IF sum = target THEN Closer(sum, ans, target)
          ELSE f[i, j + 1, k, Closer(sum, ans, target)]
  IN f[1, 2, Len(d), d[1] + d[2] + d[3]]

\* The other one passes over equal values, of i, of k and of j.
ClosestSkipping(nums, target) ==
  LET d == Ascending(nums)
      n == Len(d)
      f[i \in Int, j \in Int, k \in Int, best \in Int] ==
        LET sum == d[i] + d[j] + d[k]
            down == Max({j} \cup {x \in j + 1 .. k - 1 : d[x] # d[k]})
            up == Min({k} \cup {x \in j + 1 .. k - 1 : d[x] # d[j]})
        IN IF i > n THEN best
           ELSE IF j >= k \/ ~FirstOfItsValue(d, i, 1) THEN f[i + 1, i + 2, n, best]
           ELSE IF sum = target THEN sum
           ELSE IF sum > target THEN f[i, j, down, Closer(sum, best, target)]
           ELSE f[i, up, k, Closer(sum, best, target)]
  IN f[1, 2, n, Infinity]

\* In an ascending array; the pair is left at 0 when there is none.
TwoSumSorted(d, target) ==
  LET f[l \in Int, r \in Int] ==
        IF l >= r THEN <<0, 0>>
        ELSE IF d[l] + d[r] > target THEN f[l, r - 1]
        ELSE IF d[l] + d[r] = target THEN <<d[l], d[r]>> ELSE f[l + 1, r]
  IN f[1, Len(d)]

\* ACW 800, on two ascending arrays that have one solution: what is printed
\* until j would leave b, which the program does not check.
TargetSum(a, b, x) ==
  LET f[i \in Int, j \in Int] ==
        IF i > Len(a) \/ j = 0 THEN {}
        ELSE IF a[i] + b[j] > x THEN f[i, j - 1]
        ELSE (IF a[i] + b[j] = x THEN {<<i, j>>} ELSE {}) \cup f[i + 1, j]
  IN f[1, Len(b)]

\* The nearest of an ascending array, then its neighbours outwards.
closestKValues(d, target, k) ==
  LET near[i \in Int, j \in Int] ==
        IF i > Len(d) THEN j
        ELSE IF i < j /\ Distance(d[i], target) < Distance(d[j], target) THEN near[i, j - 1]
        ELSE near[i + 1, j]
      index == near[1, Len(d)]
      grow[l \in Int, r \in Int, n \in Nat] ==
        IF n = 0 THEN <<>>
        ELSE IF l >= 1 /\ (r > Len(d) \/ Distance(d[l], target) < Distance(d[r], target))
        THEN <<d[l]>> \o grow[l - 1, r, n - 1]
        ELSE <<d[r]>> \o grow[l, r + 1, n - 1]
  IN IF d = <<>> \/ k <= 0 THEN <<>> ELSE <<d[index]>> \o grow[index - 1, index + 1, k - 1]

\* Odd numbers from the front, even ones from the back.
exchange(d) ==
  LET put(st, v) ==
        IF v % 2 # 0 THEN [st EXCEPT !.ans[st.l] = v, !.l = @ + 1]
        ELSE [st EXCEPT !.ans[st.r] = v, !.r = @ - 1]
  IN FoldLeft(put, [ans |-> d, l |-> 1, r |-> Len(d)], d).ans

\* Both ends compared, the larger square goes to the back.
sortedSquares(d) ==
  LET f[i \in Int, j \in Int] ==
        IF i > j THEN <<>>
        ELSE IF d[i] * d[i] > d[j] * d[j] THEN Append(f[i + 1, j], d[i] * d[i])
        ELSE Append(f[i, j - 1], d[j] * d[j])
  IN f[1, Len(d)]

\* Merging from the front into a new array, and from the back in place.
MergeArrays(a, b) ==
  LET f[i \in Int, j \in Int] ==
        IF i > Len(a) /\ j > Len(b) THEN <<>>
        ELSE IF j > Len(b) \/ (i <= Len(a) /\ a[i] <= b[j]) THEN <<a[i]>> \o f[i + 1, j]
        ELSE <<b[j]>> \o f[i, j + 1]
  IN f[1, 1]
MergeInPlace(a, b) ==
  LET f[nums1 \in Seq(Int), i \in Int, j \in Int] ==
        IF j = 0 THEN nums1
        ELSE IF i > 0 /\ nums1[i] >= b[j] THEN f[[nums1 EXCEPT ![i + j] = nums1[i]], i - 1, j]
        ELSE f[[nums1 EXCEPT ![i + j] = b[j]], i, j - 1]
  IN f[a \o [n \in DOMAIN b |-> 0], Len(a), Len(b)]

reverseString(s) ==
  FoldLeft(LAMBDA t, l : Exchange(t, l, Len(s) + 1 - l), s, Upto(1, Len(s) \div 2))

\* A character is 0 when it is not alphanumeric; case is left out.
isPalindrome(s) ==
  LET f[i \in Int, j \in Int] ==
        LET l == Min({j} \cup {x \in i .. j : s[x] # 0})
            r == Max({l} \cup {x \in l .. j : s[x] # 0})
        IN i < j => s[l] = s[r] /\ f[l + 1, r - 1]
  IN f[1, Len(s)]

-----------------------------------------------------------------------------
(* Two pointers in one direction.                                          *)

moveZeroes(d) ==
  FoldLeft(LAMBDA st, r : IF st[2][r] # 0 THEN <<st[1] + 1, Exchange(st[2], st[1], r)>> ELSE st,
           <<1, d>>, Upto(1, Len(d)))[2]

\* The distinct values end up in front; answers them.
removeDuplicates(d) ==
  LET st == FoldLeft(LAMBDA p, v : IF v # p[2][p[1]] THEN <<p[1] + 1, [p[2] EXCEPT ![p[1] + 1] = v]>>
                                   ELSE p, <<1, d>>, d)
  IN First(st[2], st[1])

IsSubsequence(a, b) ==
  FoldLeft(LAMBDA j, v : IF j <= Len(a) /\ a[j] = v THEN j + 1 ELSE j, 1, b) = Len(a) + 1

\* The topic's version also moves i in its inner loop, which looks past the end
\* of b, where the array holds 0.
SubsequenceByRuns(a, b) ==
  LET b0(j) == IF j <= Len(b) THEN b[j] ELSE 0
      f[i \in Int, j \in Int] ==
        IF i <= Len(a) /\ a[i] = b0(j) THEN f[i + 1, j + 1]
        ELSE IF i > Len(a) \/ j >= Len(b) THEN i > Len(a) ELSE f[i, j + 1]
  IN IF b = <<>> THEN a = <<>> ELSE f[1, 1]

\* Versions are lists of their numbers; a missing one counts as 0.
compareVersion(v, w) ==
  LET part(x, i) == IF i <= Len(x) THEN x[i] ELSE 0
      f[i \in Nat] ==
        IF i > Bigger(Len(v), Len(w)) THEN 0
        ELSE IF part(v, i) # part(w, i) THEN IF part(v, i) > part(w, i) THEN 1 ELSE -1
        ELSE f[i + 1]
  IN f[1]

\* Words of s, separated by runs of 0, in the opposite order.
reverseWords(s) ==
  LET f[l \in Int, r \in Int] ==
        IF l = 0 THEN SubSeq(s, 1, r)
        ELSE IF s[l] # 0 THEN f[l - 1, r]
        ELSE LET e == Largest({0} \cup {x \in 1 .. l - 1 : s[x] # 0})
             IN SubSeq(s, l + 1, r) \o (IF e > 0 THEN <<0>> \o f[e, e] ELSE <<>>)
      end == Largest({0} \cup {x \in DOMAIN s : s[x] # 0})
  IN f[end, end]

\* Filled from the back of the lengthened string; 0 becomes "%20".
replaceSpace(s) ==
  LET f[i \in Nat] == IF i = 0 THEN <<>> ELSE f[i - 1] \o (IF s[i] = 0 THEN <<-1, -2, -3>> ELSE <<s[i]>>)
  IN f[Len(s)]

-----------------------------------------------------------------------------
(* Windows.                                                                *)

\* ACW 799: the left end moves until the new element stands once.
LongestDistinct(d) ==
  FoldLeft(LAMBDA st, i :
             LET j == Min({x \in st[1] .. i : \A y \in x .. i - 1 : d[y] # d[i]})
             IN <<j, Bigger(st[2], i - j + 1)>>, <<1, 0>>, Upto(1, Len(d)))[2]

\* LC 3: the right end moves as far as it can for each left end.
lengthOfLongestSubstring(d) ==
  LET step(st, i) ==
        LET kept == IF i = 1 THEN st.set ELSE st.set \ {d[i - 1]}
            grow[j \in Nat, set \in SUBSET Int] ==
              IF j < Len(d) /\ d[j + 1] \notin set THEN grow[j + 1, set \cup {d[j + 1]}]
              ELSE [j |-> j, set |-> set, len |-> Bigger(st.len, j - i + 1)]
        IN grow[st.j, kept]
  IN FoldLeft(step, [j |-> 0, set |-> {}, len |-> 0], Upto(1, Len(d))).len

\* Extremes of all windows of k: the deque q holds places, best in front; the
\* new element drives out all that are not better than it.
WindowsByDeque(d, k, better(_, _)) ==
  LET step(st, i) ==
        LET q0 == IF st.q # <<>> /\ Head(st.q) < i - k + 1 THEN Tail(st.q) ELSE st.q
            q == Append(PopWhile(q0, LAMBDA x : ~better(d[x], d[i])), i)
        IN [q |-> q, out |-> IF i >= k THEN Append(st.out, d[Head(q)]) ELSE st.out]
  IN FoldLeft(step, [q |-> <<>>, out |-> <<>>], Upto(1, Len(d))).out
MaxByDeque(d, k) == WindowsByDeque(d, k, >)
SlidingWindow(d, k) == <<WindowsByDeque(d, k, <), MaxByDeque(d, k)>>

\* The front is dropped after the new element was added.
MaxByDequeLate(d, k) ==
  LET step(st, i) ==
        LET q0 == Append(PopWhile(st.q, LAMBDA x : d[x] <= d[i]), i)
            q == IF i >= k THEN SelectSeq(q0, LAMBDA x : x > i - k) ELSE q0
        IN [q |-> q, out |-> IF i >= k THEN Append(st.out, d[Head(q)]) ELSE st.out]
  IN FoldLeft(step, [q |-> <<>>, out |-> <<>>], Upto(1, Len(d))).out

\* A priority queue of <<value, place>>; only the top is checked for age.
MaxByPriorityQueue(d, k) ==
  LET above(x, y) == x[1] > y[1] \/ (x[1] = y[1] /\ x[2] >= y[2])
      top(q) == CHOOSE x \in q : \A y \in q : above(x, y)
      fresh[q \in SUBSET (Int \X Int), i \in Nat] ==
        IF top(q)[2] <= i - k THEN fresh[q \ {top(q)}, i] ELSE q
      step(st, i) ==
        LET q0 == st.q \cup {<<d[i], i>>}
            q == IF i >= k THEN fresh[q0, i] ELSE q0
        IN [q |-> q, out |-> IF i >= k THEN Append(st.out, top(q)[1]) ELSE st.out]
  IN FoldLeft(step, [q |-> {}, out |-> <<>>], Upto(1, Len(d))).out

\* Prefix and suffix maxima of blocks of k.
MaxByBlocks(d, k) ==
  LET n == Len(d)
      preMaxs[i \in DOMAIN d] == IF (i - 1) % k = 0 THEN d[i] ELSE Bigger(preMaxs[i - 1], d[i])
      suffixMax[i \in DOMAIN d] == IF i = n \/ i % k = 0 THEN d[i] ELSE Bigger(suffixMax[i + 1], d[i])
  IN [i \in 1 .. n - k + 1 |-> Bigger(preMaxs[i + k - 1], suffixMax[i])]

\* Where anagrams of p begin in s; diff counts the letters out of balance.
findAnagrams(s, p) ==
  LET letters == ToSet(s) \cup ToSet(p)
      pl == Len(p)
      cnt0 == [c \in letters |-> HowOften(First(s, pl), c) - HowOften(p, c)]
      unbalanced(v) == IF v # 0 THEN 1 ELSE 0
      move(st, i) ==
        LET out == st.cnt[s[i]]
            d1 == st.diff + (IF out = 1 THEN -1 ELSE IF out = 0 THEN 1 ELSE 0)
            cnt1 == [st.cnt EXCEPT ![s[i]] = @ - 1]
            in == cnt1[s[i + pl]]
            d2 == d1 + (IF in = -1 THEN -1 ELSE IF in = 0 THEN 1 ELSE 0)
        IN [cnt |-> [cnt1 EXCEPT ![s[i + pl]] = @ + 1], diff |-> d2,
            ans |-> IF d2 = 0 THEN st.ans \cup {i + 1} ELSE st.ans]
      diff0 == Cardinality({c \in letters : cnt0[c] # 0})
      start == [cnt |-> cnt0, diff |-> diff0, ans |-> IF diff0 = 0 THEN {1} ELSE {}]
  IN IF Len(s) < pl THEN {} ELSE FoldLeft(move, start, Upto(1, Len(s) - pl)).ans

AnagramsByCounts(s, p) ==
  LET letters == ToSet(s) \cup ToSet(p)
      scnt[i \in Nat] ==
        IF i = 1 THEN [c \in letters |-> HowOften(First(s, Len(p)), c)]
        ELSE LET less == [scnt[i - 1] EXCEPT ![s[i - 1]] = @ - 1]
             IN [less EXCEPT ![s[i - 1 + Len(p)]] = @ + 1]
  IN {i \in 1 .. Len(s) - Len(p) + 1 : scnt[i] = [c \in letters |-> HowOften(p, c)]}

-----------------------------------------------------------------------------
(* Stacks.                                                                 *)

\* The nearest smaller element on the left, or -1.
MonotoneStack(d) ==
  LET step(st, x) ==
        LET stk == PopWhile(st.stk, LAMBDA y : y >= x)
        IN [stk |-> Append(stk, x), out |-> Append(st.out, IF stk = <<>> THEN -1 ELSE Last(stk))]
  IN FoldLeft(step, [stk |-> <<>>, out |-> <<>>], d).out

\* The next greater element on the right, for values looked up afterwards.
nextGreaterElement(a, b) ==
  LET step(x, st) ==
        LET stk == PopWhile(st.stk, LAMBDA y : x >= y)
        IN [stk |-> Append(stk, x),
            ump |-> (x :> (IF stk = <<>> THEN -1 ELSE Last(stk))) @@ st.ump]
      ump == FoldRight(step, b, [stk |-> <<>>, ump |-> <<>>]).ump
  IN [i \in DOMAIN a |-> ump[a[i]]]

RemoveAdjacent(s) ==
  FoldLeft(LAMBDA stk, c : IF stk # <<>> /\ Last(stk) = c THEN Front(stk) ELSE Append(stk, c), <<>>, s)

\* The brackets c and -c match; an odd length is refused at once.
isValid(s) ==
  LET f[i \in Nat, stk \in Seq(Int)] ==
        IF i > Len(s) THEN stk = <<>>
        ELSE IF s[i] > 0 THEN f[i + 1, Append(stk, s[i])]
        ELSE stk # <<>> /\ Last(stk) = -s[i] /\ f[i + 1, Front(stk)]
  IN Len(s) % 2 = 0 /\ f[1, <<>>]

largestRectangleArea(h) ==
  LET from(i) ==
        FoldLeft(LAMBDA st, j : LET low == Lesser(st[1], h[j])
                                IN <<low, Bigger(st[2], low * (j - i + 1))>>,
                 <<h[i], 0>>, Upto(i, Len(h)))[2]
  IN Bigger(0, Largest({from(i) : i \in DOMAIN h}))

-----------------------------------------------------------------------------
(* Tables.                                                                 *)

\* A pair of places with the given sum: the first found by later place.
twoSum(d, target) ==
  LET earlier(i) == {j \in 1 .. i - 1 : d[j] = target - d[i]}
      found == {i \in DOMAIN d : earlier(i) # {}}
  IN IF found = {} THEN <<>> ELSE <<Max(earlier(Min(found))), Min(found)>>
TwoSumByPairs(d, target) ==
  LET f[i \in Nat, j \in Nat] ==
        IF i > Len(d) THEN <<>>
        ELSE IF j > Len(d) THEN f[i + 1, i + 2]
        ELSE IF d[i] + d[j] = target THEN <<i, j>> ELSE f[i, j + 1]
  IN f[1, 2]

longestConsecutive(d) ==
  LET uset == ToSet(d)
      len[v \in Int] == IF v + 1 \in uset THEN 1 + len[v + 1] ELSE 1
  IN Bigger(0, Largest({len[v] : v \in {w \in uset : w - 1 \notin uset}}))

\* Words grouped under their sorted letters, and under their letter counts.
groupAnagrams(words) ==
  {{i \in DOMAIN words : Ascending(words[i]) = key} : key \in {Ascending(w) : w \in ToSet(words)}}
GroupsByCounts(words) ==
  LET cnts(w) == [c \in UNION {ToSet(v) : v \in ToSet(words)} |-> HowOften(w, c)]
  IN {{i \in DOMAIN words : cnts(words[i]) = key} : key \in {cnts(w) : w \in ToSet(words)}}

\* Whether a run of two or more sums to a multiple of k: equal remainders, the
\* first place of each kept.
checkSubarraySum(d, k) ==
  LET rem[i \in 0 .. Len(d)] == IF i = 0 THEN 0 ELSE (rem[i - 1] + d[i]) % k
  IN \E i \in DOMAIN d : i - Min({j \in 0 .. i : rem[j] = rem[i]}) >= 2

runningSum(d) == FoldLeft(LAMBDA s, i : [s EXCEPT ![i] = @ + s[i - 1]], d, Upto(2, Len(d)))

\* Five cards, 0 a joker: jokers fill the gaps.
isStraight(nums) ==
  LET d == Ascending(nums)
      zeros == HowOften(d, 0)
      f[i \in Nat, jokers \in Int] ==
        i > Len(d) \/ LET left == jokers - (d[i] - d[i - 1] - 1)
                      IN left >= 0 /\ d[i] # d[i - 1] /\ f[i + 1, left]
  IN f[zeros + 2, zeros]

-----------------------------------------------------------------------------
(* KMP.  ne and the strings are indexed from 0; ne[i] is the last place of  *)
(* the longest proper prefix that ends at i.                               *)

RECURSIVE FallBack(_, _, _, _)
FallBack(p, ne, j, c) ==
  IF j >= 0 /\ At(p, j + 1) # c THEN FallBack(p, ne, At(ne, j), c) ELSE j
Advance(p, ne, j, c) ==
  LET k == FallBack(p, ne, j, c) IN IF At(p, k + 1) = c THEN k + 1 ELSE k
NextTable(p) ==
  FoldLeft(LAMBDA ne, i : Append(ne, Advance(p, ne, Last(ne), At(p, i))), <<-1>>, Upto(1, Len(p) - 1))

\* Faulty variant: after a match the search starts over.
KmpForgets(p, s) ==
  LET ne == NextTable(p)
      f[i \in Nat, j \in Int] ==
        IF i = Len(s) THEN {}
        ELSE LET k == Advance(p, ne, j, At(s, i))
             IN IF k = Len(p) - 1 THEN {i - k} \cup f[i + 1, -1] ELSE f[i + 1, k]
  IN f[0, -1]

Kmp(p, s) ==
  LET ne == NextTable(p)
      f[i \in Nat, j \in Int] ==
        IF i = Len(s) THEN {}
        ELSE LET k == Advance(p, ne, j, At(s, i))
             IN IF k = Len(p) - 1 THEN {i - k} \cup f[i + 1, At(ne, k)] ELSE f[i + 1, k]
  IN f[0, -1]

-----------------------------------------------------------------------------
(* What the programs promise.                                              *)

Windows(d, k) == [i \in 1 .. Len(d) - k + 1 |-> ToSet(SubSeq(d, i, i + k - 1))]
Runs(d) == {<<i, j>> \in (DOMAIN d) \X (DOMAIN d) : i <= j}
Picks(d, n) == {[i \in 1 .. n |-> d[Ascending(SetToSeq(T))[i]]] : T \in Subsets(DOMAIN d, n)}

HeightsRight(h) ==
  LET area(p) == Lesser(h[p[1]], h[p[2]]) * (p[2] - p[1])
      water == Total([i \in DOMAIN h |-> Lesser(Max({h[j] : j \in 1 .. i}),
                                               Max({h[j] : j \in i .. Len(h)})) - h[i]])
      rectangle(p) == Min({h[i] : i \in p[1] .. p[2]}) * (p[2] - p[1] + 1)
  IN /\ {maxArea(h), MaxAreaByCase(h)} = {Bigger(0, Largest({area(p) : p \in Runs(h)}))}
     /\ {trap(h), TrapByLower(h), TrapByMaxima(h), TrapByStack(h)} = {water}
     /\ largestRectangleArea(h) = Bigger(0, Largest({rectangle(p) : p \in Runs(h)}))

SumsRight(d, t) ==
  LET up == Ascending(d)
      triples == Picks(up, 3)
      gap == Smallest({Distance(Total(p), t) : p \in triples})
      twos == {p \in Runs(d) : p[1] < p[2] /\ d[p[1]] + d[p[2]] = t}
      of(lists, set) == ToSet(lists) = set /\ IsInjective(lists)
  IN /\ of(threeSum(d), {p \in triples : Total(p) = 0})
     /\ of(fourSum(d, t), {p \in Picks(up, 4) : Total(p) = t})
     /\ Len(d) >= 3 => Distance(threeSumClosest(d, t), t) = gap /\ Distance(ClosestSkipping(d, t), t) = gap
     /\ \A pair \in {twoSum(d, t), TwoSumByPairs(d, t)} :
          IF twos = {} THEN pair = <<>> ELSE pair \in twos
     /\ LET pair == TwoSumSorted(up, t) IN
          IF twos = {} THEN pair = <<0, 0>> ELSE pair \in Picks(up, 2) /\ Total(pair) = t
     /\ \A n \in 1 .. Lesser(2, Len(d)) :
          LET near == closestKValues(up, t, n)
              dist(x) == [i \in DOMAIN x |-> Distance(x[i], t)]
          IN IsInjective(d) => dist(near) = First(Ascending(dist(d)), n)
     /\ t > 0 => checkSubarraySum(d, t) =
          \E p \in Runs(d) : p[1] < p[2] /\ Total(SubSeq(d, p[1], p[2])) % t = 0

\* Of an array and the window size or the second array.
ScansRight(d, k) ==
  LET nonzero == SelectSeq(d, LAMBDA v : v # 0)
      smaller(i) == {j \in 1 .. i - 1 : d[j] < d[i]}
      distinct == {p \in Runs(d) : IsInjective(SubSeq(d, p[1], p[2]))}
      longest == Bigger(0, Largest({p[2] - p[1] + 1 : p \in distinct}))
      low == [i \in DOMAIN Windows(d, k) |-> Min(Windows(d, k)[i])]
      high == [i \in DOMAIN Windows(d, k) |-> Max(Windows(d, k)[i])]
  IN /\ moveZeroes(d) = nonzero \o [i \in 1 .. Len(d) - Len(nonzero) |-> 0]
     /\ d # <<>> => removeDuplicates(Ascending(d)) = SetToSortSeq(ToSet(d), <)
     /\ Ascending(exchange(d)) = Ascending(d)
     /\ \A p \in Runs(exchange(d)) : exchange(d)[p[2]] % 2 # 0 => exchange(d)[p[1]] % 2 # 0
     /\ sortedSquares(Ascending(d)) = Ascending([i \in DOMAIN d |-> d[i] * d[i]])
     /\ reverseString(d) = Reverse(d)
     /\ isPalindrome(d) = (nonzero = Reverse(nonzero))
     /\ LongestDistinct(d) = longest /\ lengthOfLongestSubstring(d) = longest
     /\ k \in 1 .. Len(d) =>
          /\ SlidingWindow(d, k) = <<low, high>>
          /\ {MaxByDequeLate(d, k), MaxByPriorityQueue(d, k), MaxByBlocks(d, k)} = {high}
     /\ MonotoneStack(d) = [i \in DOMAIN d |-> IF smaller(i) = {} THEN -1 ELSE d[Max(smaller(i))]]
     /\ IsInjective(d) => nextGreaterElement(Reverse(d), d) = [i \in DOMAIN d |->
          LET j == Len(d) + 1 - i
              later == {x \in j + 1 .. Len(d) : d[x] > d[j]}
          IN IF later = {} THEN -1 ELSE d[Min(later)]]
     /\ runningSum(d) = [i \in DOMAIN d |-> Total(First(d, i))]
     /\ longestConsecutive(d) =
          Max({0} \cup {n \in 1 .. Len(d) : \E v \in ToSet(d) : v .. v + n - 1 \subseteq ToSet(d)})
     /\ Len(d) = 5 /\ nonzero # <<>> => isStraight(d) =
          (IsInjective(nonzero) /\ Max(ToSet(nonzero)) - Min(ToSet(nonzero)) < 5)

Occurrences(p, s) == {i \in 0 .. Len(s) - Len(p) : SubSeq(s, i + 1, i + Len(p)) = p}
RECURSIVE Reduced(_)
Reduced(s) ==
  LET doubles == {i \in 1 .. Len(s) - 1 : s[i] = s[i + 1]} IN
    IF doubles = {} THEN s
    ELSE LET i == Max(doubles) IN Reduced(First(s, i - 1) \o SubSeq(s, i + 2, Len(s)))

\* Of two arrays or strings.
PairsScanRight(a, b) ==
  LET subsequence == \E T \in Subsets(DOMAIN b, Len(a)) :
                       [i \in DOMAIN a |-> b[Ascending(SetToSeq(T))[i]]] = a
      asc == Ascending(a)
      bsc == Ascending(b)
  IN /\ IsSubsequence(a, b) = subsequence
     /\ 0 \notin ToSet(a) => SubsequenceByRuns(a, b) = subsequence
     /\ {MergeArrays(asc, bsc), MergeInPlace(asc, bsc)} = {Ascending(a \o b)}
     /\ a # <<>> => /\ Kmp(a, b) = Occurrences(a, b)
                    /\ findAnagrams(b, a) = AnagramsByCounts(b, a)
                    /\ AnagramsByCounts(b, a) = {i + 1 : i \in UNION {Occurrences(p, b) :
                         p \in {[n \in DOMAIN a |-> a[f[n]]] : f \in Permutations(DOMAIN a)}}}
     /\ compareVersion(a, b) = -compareVersion(b, a)
     /\ compareVersion(a, b) = 0 <=> IsPrefix(a, b \o [i \in DOMAIN a |-> 0]) /\ IsPrefix(b, a \o [i \in DOMAIN b |-> 0])
     /\ Len(RemoveAdjacent(b)) = Len(Reduced(b)) /\ RemoveAdjacent(b) = Reduced(b)
     /\ groupAnagrams(<<a, b, Reverse(a)>>) = GroupsByCounts(<<a, b, Reverse(a)>>)
     /\ {1, 3} \in groupAnagrams(<<a, b, Reverse(a)>>) <=> asc # bsc
     /\ \A x \in 0 .. 6 :
          LET found == {p \in (DOMAIN a) \X (DOMAIN b) : asc[p[1]] + bsc[p[2]] = x}
          IN Cardinality(found) = 1 => TargetSum(asc, bsc, x) = found

\* Words are the runs of s without 0; brackets are 1, 2 and -1, -2.
RECURSIVE Balanced(_)
Balanced(s) ==
  s = <<>> \/ \E i \in 1 .. Len(s) - 1 :
               s[i] > 0 /\ s[i + 1] = -s[i] /\ Balanced(First(s, i - 1) \o SubSeq(s, i + 2, Len(s)))
StringsRight(s) ==
  LET brackets == [i \in DOMAIN s |-> (<<1, 2, -1, -2>>)[(s[i] % 4) + 1]]
      words(x) == SelectSeq([p \in 1 .. Len(x) |->
                     IF x[p] = 0 \/ (p > 1 /\ x[p - 1] # 0) THEN <<>>
                     ELSE SubSeq(x, p, Max({q \in p .. Len(x) : \A r \in p .. q : x[r] # 0}))],
                     LAMBDA w : w # <<>>)
  IN /\ isValid(brackets) = Balanced(brackets)
     /\ words(reverseWords(s)) = Reverse(words(s))
     /\ Len(reverseWords(s)) = Bigger(0, Len(SelectSeq(s, LAMBDA c : c # 0)) + Len(words(s)) - 1)
     /\ replaceSpace(s) = FlattenSeq([i \in DOMAIN s |-> IF s[i] = 0 THEN <<-1, -2, -3>> ELSE <<s[i]>>])
=============================================================================
