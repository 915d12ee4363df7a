------------------------------- MODULE Dynamic -------------------------------
(***************************************************************************)
(* Exercises that fill a table: counting, choosing from a sequence,        *)
(* packing, words and matrices; the greedy ones and the sums of a matrix   *)
(* beside them.  A table filled in order is a recursive function, a row    *)
(* that rolls is folded.                                                   *)
(***************************************************************************)
EXTENDS ExerciseBasics

MOD == 1000000007

\* n rounds of a loop.
Rounds(Step(_), n, st) == LET f[k \in Nat] == IF k = 0 THEN st ELSE Step(f[k - 1]) IN f[n]

-----------------------------------------------------------------------------
(* Counting.                                                               *)

AddRolling(st) == [prepre |-> st.pre, pre |-> st.prepre + st.pre]
AddModulo(st) == [prepre |-> st.pre, pre |-> (st.prepre + st.pre) % MOD]

fib(n) == IF n \in {0, 1} THEN n ELSE Rounds(AddModulo, n - 1, [prepre |-> 0, pre |-> 1]).pre
numWays(n) == IF n \in {0, 1} THEN 1 ELSE Rounds(AddModulo, n - 1, [prepre |-> 1, pre |-> 1]).pre

FibByCalls(n) ==
  LET f[k \in Int] == IF k <= 1 THEN k ELSE IF k = 2 THEN 1 ELSE f[k - 1] + f[k - 2] IN f[n]
FibTable(n) == LET dp[i \in 0 .. n + 1] == IF i <= 1 THEN i ELSE dp[i - 1] + dp[i - 2] IN dp[n]
FibRolling(n) == IF n <= 1 THEN n ELSE Rounds(AddRolling, n - 1, [prepre |-> 0, pre |-> 1]).pre

MultiMatrix(m1, m2) ==
  [i \in DOMAIN m1 |-> [j \in DOMAIN m2[1] |-> Total([k \in DOMAIN m2 |-> m1[i][k] * m2[k][j]])]]
MatrixPower(matrix, n) ==
  LET unit == [i \in DOMAIN matrix |-> [j \in DOMAIN matrix |-> IF i = j THEN 1 ELSE 0]]
      f[i \in Nat, tmp \in Seq(Seq(Int)), ans \in Seq(Seq(Int))] ==
        IF i = 0 THEN ans
        ELSE f[i \div 2, MultiMatrix(tmp, tmp), IF i % 2 = 1 THEN MultiMatrix(ans, tmp) ELSE ans]
  IN f[n, matrix, unit]
Powers2(n) == MatrixPower(<<<<1, 1>>, <<1, 0>>>>, n)

\* Answers 2 for n = 2: the shortcut of the stairs has stayed in.
FibMatrix(n) ==
  IF n <= 0 THEN 0 ELSE IF n \in {1, 2} THEN n ELSE Powers2(n - 2)[1][1] + Powers2(n - 2)[2][1]

ClimbDown(n) ==
  LET process[index \in Int] ==
        IF index <= 0 THEN 0 ELSE IF index \in {1, 2} THEN index
        ELSE process[index - 1] + process[index - 2]
  IN process[n]
ClimbForward(n) ==
  LET process[index \in Int] ==
        IF index >= n THEN 0 ELSE IF index \in {n - 2, n - 1} THEN n - index
        ELSE process[index + 1] + process[index + 2]
  IN IF n <= 0 THEN 0 ELSE process[0]
ClimbTable(n) ==
  LET dp[i \in 1 .. n] == IF i <= 2 THEN i ELSE dp[i - 1] + dp[i - 2] IN IF n <= 0 THEN 0 ELSE dp[n]
ClimbRolling(n) == IF n <= 0 THEN 0 ELSE Rounds(AddRolling, n, [prepre |-> 0, pre |-> 1]).pre
ClimbMatrix(n) ==
  IF n <= 0 THEN 0 ELSE IF n \in {1, 2} THEN n ELSE 2 * Powers2(n - 2)[1][1] + Powers2(n - 2)[2][1]

AddThree(st) == <<st[2], st[3], st[1] + st[2] + st[3]>>
tribonacci(n) == IF n <= 1 THEN n ELSE IF n = 2 THEN 1 ELSE Rounds(AddThree, n - 2, <<0, 1, 1>>)[3]
TribonacciMatrix(n) ==
  LET ans == MatrixPower(<<<<1, 1, 1>>, <<1, 0, 0>>, <<0, 1, 0>>>>, n - 2)
  IN IF n <= 0 THEN 0 ELSE IF n <= 2 THEN 1 ELSE ans[1][1] + ans[1][2]
AddThreeModulo(st) == <<st[2], st[3], (((st[1] + st[2]) % MOD) + st[3]) % MOD>>
waysToStep(n) == Rounds(AddThreeModulo, n, <<0, 0, 1>>)[3]

\* A row of Pascal's triangle, from the row before or from right to left in place.
generate(numRows) ==
  LET ans[i \in Nat] == [j \in 1 .. i |-> IF j \in {1, i} THEN 1 ELSE ans[i - 1][j - 1] + ans[i - 1][j]]
  IN [i \in 1 .. numRows |-> ans[i]]
getRow(rowIndex) ==
  LET f[i \in Nat] ==
        IF i = 0 THEN <<1>> ELSE [j \in 1 .. i + 1 |-> IF j \in {1, i + 1} THEN 1 ELSE f[i - 1][j] + f[i - 1][j - 1]]
  IN f[rowIndex]

uniquePaths(m, n) ==
  LET dp[i \in 1 .. m, j \in 1 .. n] == IF 1 \in {i, j} THEN 1 ELSE dp[i - 1, j] + dp[i, j - 1] IN dp[m, n]
PathsRolling(m, n) ==
  LET NextRow(dp) == LET new[j \in 1 .. n] == IF j = 1 THEN dp[1] ELSE new[j - 1] + dp[j] IN new
  IN Rounds(NextRow, m - 1, [j \in 1 .. n |-> 1])[n]
PathsByProduct(m, n) == LET f[j \in Nat] == IF j = 0 THEN 1 ELSE (f[j - 1] * (n + j - 1)) \div j IN f[m - 1]
PathsByShorter(m, n) == IF m > n THEN PathsByProduct(n, m) ELSE PathsByProduct(m, n)

\* The best product of a cut into at least two parts: the first part and the rest
\* whole or cut again.
CutBest(products, i) == Largest({Bigger(j * (i - j), j * products[i - j]) : j \in 1 .. i - 1})
cuttingRope(n) ==
  LET products[i \in 0 .. n] == IF i <= 1 THEN 0 ELSE CutBest(products, i) IN products[n]
integerBreak(n) == LET dp[i \in 1 .. n] == IF i = 1 THEN 1 ELSE CutBest(dp, i) IN dp[n]
BreakByTable(n) == LET dp[i \in 0 .. n] == Largest({0} \cup {Bigger(j * (i - j), j * dp[i - j]) : j \in 1 .. i - 1})
                   IN dp[n]
BreakByThrees(n) ==
  LET dp[i \in 0 .. n] ==
        IF i <= 2 THEN Lesser(i, 1)
        ELSE Bigger(Bigger(2 * (i - 2), 2 * dp[i - 2]), Bigger(3 * (i - 3), 3 * dp[i - 3]))
  IN dp[n]

numSquares(n) ==
  LET dp[i \in 0 .. n] == IF i = 0 THEN 0 ELSE Smallest({dp[i - j * j] : j \in {x \in 1 .. i : x * x <= i}}) + 1
  IN dp[n]

translateNum(s) ==
  LET f[i \in 1 .. Len(s)] ==
        IF i = 1 THEN [prepre |-> 1, pre |-> 1]
        ELSE [prepre |-> f[i - 1].pre,
              pre |-> IF s[i - 1] * 10 + s[i] \in 10 .. 25 THEN f[i - 1].prepre + f[i - 1].pre ELSE f[i - 1].pre]
  IN f[Len(s)].pre

-----------------------------------------------------------------------------
(* Choosing from a sequence.                                               *)

\* Lowest price so far; the profit is taken after it moves, or before.
maxProfit(prices) ==
  LET Day(st, p) == LET low == Lesser(st.low, p) IN [low |-> low, best |-> Bigger(st.best, p - low)]
  IN FoldLeft(Day, [low |-> Infinity, best |-> 0], prices).best
ProfitBeforeMin(prices) ==
  LET Day(st, p) == [low |-> Lesser(st.low, p), best |-> Bigger(st.best, p - st.low)]
  IN FoldLeft(Day, [low |-> Infinity, best |-> 0], prices).best

\* Any number of trades: without and with the share.
TradeTable(prices) ==
  LET dp[i \in DOMAIN prices, held \in BOOLEAN] ==
        IF i = 1 THEN (IF held THEN -prices[1] ELSE 0)
        ELSE IF held THEN Bigger(dp[i - 1, TRUE], dp[i - 1, FALSE] - prices[i])
        ELSE Bigger(dp[i - 1, FALSE], dp[i - 1, TRUE] + prices[i])
  IN dp[Len(prices), FALSE]
TradeRolling(prices) ==
  LET Day(st, p) == <<Bigger(st[1], st[2] + p), Bigger(st[2], st[1] - p)>>
  IN FoldLeft(Day, <<0, -prices[1]>>, Tail(prices))[1]

\* The best sum of a block: the sum that ends here, and the best so far.
Kadane(st, num) == LET pre == Bigger(st.pre + num, num) IN [pre |-> pre, ans |-> Bigger(st.ans, pre)]
maxSubArray(nums) == FoldLeft(Kadane, [pre |-> 0, ans |-> nums[1]], nums).ans
SubArrayTable(nums) ==
  LET dp[i \in 0 .. Len(nums)] == IF i = 0 THEN 0 ELSE Bigger(nums[i], dp[i - 1] + nums[i])
  IN Largest({dp[i] : i \in DOMAIN nums})
SubArrayRolling(nums) == FoldLeft(Kadane, [pre |-> 0, ans |-> -Infinity], nums).ans

\* No two neighbours: from the right, from the left, rolling.
RobFromRight(nums) ==
  LET dp[i \in 1 .. Len(nums) + 2] == IF i > Len(nums) THEN 0 ELSE Bigger(dp[i + 2] + nums[i], dp[i + 1])
  IN dp[1]
RobTable(nums) ==
  LET dp[i \in 0 .. Len(nums) + 1] == IF i < 2 THEN 0 ELSE Bigger(dp[i - 2] + nums[i - 1], dp[i - 1])
  IN dp[Len(nums) + 1]
Robbing(st, num) == [prepre |-> st.pre, pre |-> Bigger(st.prepre + num, st.pre)]
RobRange(nums, from, to) == FoldLeft(Robbing, [prepre |-> 0, pre |-> 0], SubSeq(nums, from, to)).pre
RobRolling(nums) == RobRange(nums, 1, Len(nums))
rob(nums) == FoldLeft(Robbing, [prepre |-> 0, pre |-> nums[1]], Tail(nums)).pre

\* In a circle either the first or the last is left out.
RobCircle(nums) ==
  LET n == Len(nums) IN
    IF n = 1 THEN nums[1] ELSE IF n = 2 THEN Bigger(nums[1], nums[2])
    ELSE Bigger(RobRange(nums, 1, n - 1), RobRange(nums, 2, n))
RobCircleByLambda(nums) ==
  IF Len(nums) = 1 THEN nums[1] ELSE Bigger(RobRange(nums, 1, Len(nums) - 1), RobRange(nums, 2, Len(nums)))
RobCircleTwice(nums) ==
  Bigger(FoldLeft(Robbing, [prepre |-> 0, pre |-> nums[1]], SubSeq(nums, 2, Len(nums) - 1)).pre,
         RobRange(nums, 2, Len(nums)))

\* Taking a value forbids its neighbours: over all values, or per run of values.
deleteAndEarn(nums) ==
  FoldLeft(Robbing, [prepre |-> 0, pre |-> 0], [v \in 1 .. Largest({0} \cup ToSet(nums)) |-> v * HowOften(nums, v)]).pre
EarnByRuns(nums) ==
  LET d == Ascending(nums)
      Take(st, i) ==
        IF d[i] = d[i - 1] THEN [st EXCEPT !.dp[Len(st.dp)] = @ + d[i]]
        ELSE IF d[i] = d[i - 1] + 1 THEN [st EXCEPT !.dp = Append(@, d[i])]
        ELSE [dp |-> <<d[i]>>, ans |-> st.ans + RobRolling(st.dp)]
      end == FoldLeft(Take, [dp |-> <<d[1]>>, ans |-> 0], Upto(2, Len(d)))
  IN end.ans + RobRolling(end.dp)

\* Steps of one or two, each paid for when it is left.
minCostClimbingStairs(cost) ==
  LET Climb(st, i) == [pre |-> st.cur, cur |-> Lesser(st.pre + cost[i - 1], st.cur + cost[i])]
  IN FoldLeft(Climb, [pre |-> 0, cur |-> 0], Upto(2, Len(cost))).cur
ClimbCostTable(cost) ==
  LET dp[i \in 0 .. Len(cost)] == IF i < 2 THEN 0 ELSE Lesser(dp[i - 1] + cost[i], dp[i - 2] + cost[i - 1])
  IN dp[Len(cost)]

minFlipsMonoIncr(s) ==
  LET Read(dp, ch) == [zero |-> dp.zero + (IF ch = 1 THEN 1 ELSE 0),
                       one |-> Lesser(dp.zero, dp.one) + (IF ch = 0 THEN 1 ELSE 0)]
      end == FoldLeft(Read, [zero |-> 0, one |-> 0], s)
  IN Lesser(end.zero, end.one)

\* Longest ascending subsequence: by its last element, or by the least end of each length.
lengthOfLIS(nums) ==
  LET dp[i \in DOMAIN nums] == Largest({1} \cup {dp[j] + 1 : j \in {x \in 1 .. i - 1 : nums[x] < nums[i]}})
  IN Largest({0} \cup {dp[i] : i \in DOMAIN nums})
LisByEnds(nums) ==
  LET pos(data, v) ==
        LET f[l \in Int, r \in Int, p \in Int] ==
              LET mid == (l + r + 1) \div 2 IN
                IF l > r THEN p ELSE IF data[mid] < v THEN f[mid + 1, r, mid] ELSE f[l, mid - 1, p]
        IN f[1, Len(data), 0]
      Take(data, v) == IF Last(data) < v THEN Append(data, v) ELSE [data EXCEPT ![pos(data, v) + 1] = v]
  IN Len(FoldLeft(Take, <<nums[1]>>, Tail(nums)))

\* Longest zigzag: the best that ends going up and going down.
WiggleTable(nums) ==
  LET dp[i \in DOMAIN nums] ==
        IF i = 1 THEN [up |-> 1, down |-> 1]
        ELSE [up |-> IF nums[i - 1] < nums[i] THEN Bigger(dp[i - 1].down + 1, dp[i - 1].up) ELSE dp[i - 1].up,
              down |-> IF nums[i - 1] > nums[i] THEN Bigger(dp[i - 1].up + 1, dp[i - 1].down) ELSE dp[i - 1].down]
  IN Bigger(dp[Len(nums)].up, dp[Len(nums)].down)
WiggleRolling(nums) ==
  LET Step(st, i) ==
        IF nums[i - 1] < nums[i] THEN [st EXCEPT !.up = Bigger(st.down + 1, @)]
        ELSE IF nums[i - 1] > nums[i] THEN [st EXCEPT !.down = Bigger(st.up + 1, @)] ELSE st
      end == FoldLeft(Step, [up |-> 1, down |-> 1], Upto(2, Len(nums)))
  IN Bigger(end.up, end.down)
WiggleGreedy(nums) ==
  LET diff(i) == nums[i] - nums[i - 1]
      Turn(st, i) == IF (st.prediff >= 0 /\ diff(i) < 0) \/ (st.prediff <= 0 /\ diff(i) > 0)
                     THEN [ans |-> st.ans + 1, prediff |-> diff(i)] ELSE st
      start == [ans |-> IF diff(2) = 0 THEN 1 ELSE 2, prediff |-> diff(2)]
  IN IF Len(nums) < 2 THEN Len(nums) ELSE FoldLeft(Turn, start, Upto(3, Len(nums))).ans

\* Houses painted in three colours, no two neighbours alike.
minCost(costs) ==
  LET Next3(dp, c) == [j \in 1 .. 3 |-> Lesser(dp[(j % 3) + 1], dp[((j + 1) % 3) + 1]) + c[j]]
  IN Smallest(ToSet(FoldLeft(Next3, costs[1], Tail(costs))))

\* Cows in the order of weight plus strength; each bears those above it.
AcrobaticCow(w, s) ==
  LET order == SortSeq([i \in DOMAIN w |-> <<w[i] + s[i], s[i]>>],
                       LAMBDA x, y : x[1] < y[1] \/ (x[1] = y[1] /\ x[2] < y[2]))
      Add(st, cow) == [ans |-> Bigger(st.ans, st.sum - cow[2]), sum |-> st.sum + cow[1] - cow[2]]
  IN FoldLeft(Add, [ans |-> -Infinity, sum |-> 0], order).ans

\* Points that hit every range: the right end of a range not hit yet.
IntervalPoints(ranges) ==
  LET Hit(st, g) == IF st.end < g[1] THEN [end |-> g[2], ans |-> st.ans + 1] ELSE st
  IN FoldLeft(Hit, [end |-> -Infinity, ans |-> 0], SortSeq(ranges, LAMBDA x, y : x[2] < y[2])).ans

-----------------------------------------------------------------------------
(* Packing: volumes v, values w, a bag of n.                               *)

\* Faulty variant: the bag of single items is filled upwards, so an item may go in twice.
PackOnceUpwards(dp, v, w) ==
  LET new[j \in DOMAIN dp] == IF j >= v THEN Bigger(dp[j], new[j - v] + w) ELSE dp[j] IN new
\* One item, from the full bag down: each entry reads the ones not yet changed.
PackOnce(dp, v, w) ==
  [j \in DOMAIN dp |-> IF j >= v THEN Bigger(dp[j], dp[j - v] + w) ELSE dp[j]]
NothingPacked(n) == [j \in 0 .. n |-> 0]
Pack01(items, n) == FoldLeft(LAMBDA dp, g : PackOnce(dp, g[1], g[2]), NothingPacked(n), items)[n]
KnapsackTable(items, n) ==
  LET dp[i \in 0 .. Len(items), j \in 0 .. n] ==
        IF i = 0 \/ j = 0 THEN 0
        ELSE IF j >= items[i][1] THEN Bigger(dp[i - 1, j], dp[i - 1, j - items[i][1]] + items[i][2])
        ELSE dp[i - 1, j]
  IN dp[Len(items), n]

\* Any number of an item: upwards, so an entry reads one already changed.
PackMany(dp, v, w) ==
  LET new[j \in DOMAIN dp] == IF j >= v THEN Bigger(dp[j], new[j - v] + w) ELSE dp[j] IN new
FullKnapsack(items, n) == FoldLeft(LAMBDA dp, g : PackMany(dp, g[1], g[2]), NothingPacked(n), items)[n]

\* Up to s of an item <<v, w, s>>: every number tried, or parts 1, 2, 4, ... and the rest.
MultiKnapsack(items, n) ==
  LET PackSome(dp, g) ==
        [j \in DOMAIN dp |-> Largest({dp[j - k * g[1]] + k * g[2] : k \in {x \in 0 .. g[3] : x * g[1] <= j}})]
  IN FoldLeft(PackSome, NothingPacked(n), items)[n]
BinaryParts(s) ==
  LET f[k \in Nat, left \in Nat] ==
        IF k <= left THEN <<k>> \o f[2 * k, left - k] ELSE IF left > 0 THEN <<left>> ELSE <<>>
  IN f[1, s]
BinaryGoods(items) ==
  FlattenSeq([i \in DOMAIN items |->
    LET parts == BinaryParts(items[i][3]) IN
      [k \in DOMAIN parts |-> <<parts[k] * items[i][1], parts[k] * items[i][2]>>]])
MultiKnapsackBinary(items, n) == Pack01(BinaryGoods(items), n)

\* With a queue of the best starts in the window, one residue of v after the other.
MultiKnapsackQueue(items, n) ==
  LET PackResidue(g, v, w, s, j) ==
        LET worth(k) == g[k] - ((k - j) \div v) * w
            Slide(st, k) ==
              LET q == IF st.q # <<>> /\ k - s * v > st.q[1] THEN Tail(st.q) ELSE st.q
                  best == IF q = <<>> THEN g[k] ELSE Bigger(g[k], g[q[1]] + ((k - q[1]) \div v) * w)
              IN [q |-> Append(PopWhile(q, LAMBDA x : worth(x) <= worth(k)), k), f |-> [st.f EXCEPT ![k] = best]]
        IN FoldLeft(Slide, [q |-> <<>>, f |-> g], SelectSeq(Upto(j, n), LAMBDA k : (k - j) % v = 0)).f
      PackItem(g, t) ==
        LET parts == [j \in 0 .. t[1] - 1 |-> PackResidue(g, t[1], t[2], t[3], j)]
        IN [k \in 0 .. n |-> parts[k % t[1]][k]]
  IN FoldLeft(PackItem, NothingPacked(n), items)[n]

\* At most one of each group; the one program also reads the empty place after
\* the last, which stands for taking none.
GroupKnapsack(groups, n) ==
  LET Choose1(dp, g) ==
        [j \in DOMAIN dp |-> Largest({dp[j]} \cup {dp[j - x[1]] + x[2] : x \in {y \in ToSet(g) : y[1] <= j}})]
  IN FoldLeft(Choose1, NothingPacked(n), groups)[n]
PairedKnapsack(groups, n) == GroupKnapsack([i \in DOMAIN groups |-> Append(groups[i], <<0, 0>>)], n)

\* Half of the sum with every number once.
Reachable(nums, target) ==
  LET Mark(dp, v) == [j \in DOMAIN dp |-> dp[j] \/ (j >= v /\ dp[j - v])]
  IN FoldLeft(Mark, [j \in 0 .. target |-> j = 0], nums)[target]
CanPartition(nums) == Total(nums) % 2 = 0 /\ Reachable(nums, Total(nums) \div 2)
CanPartitionChecked(nums) ==
  /\ Total(nums) % 2 = 0 /\ Len(nums) >= 2
  /\ Largest(ToSet(nums)) <= Total(nums) \div 2
  /\ Reachable(nums, Total(nums) \div 2)

\* Signs chosen so that the sum is the target.
findTargetSumWays(nums, target) ==
  LET rest == Total(nums) - target
      Add(dp, v) == [j \in DOMAIN dp |-> dp[j] + (IF j >= v THEN dp[j - v] ELSE 0)]
  IN IF rest < 0 \/ rest % 2 = 1 THEN 0
     ELSE FoldLeft(Add, [j \in 0 .. rest \div 2 |-> IF j = 0 THEN 1 ELSE 0], nums)[rest \div 2]

\* Ordered sums; a term that would overflow is not added.
combinationSum4(nums, target) ==
  LET dp[i \in 0 .. target] ==
        IF i = 0 THEN 1
        ELSE FoldLeft(LAMBDA acc, v : IF v <= i /\ dp[i - v] < Infinity - acc THEN acc + dp[i - v] ELSE acc, 0, nums)
  IN dp[target]

\* Sums in which order does not count.
change(amount, coins) ==
  LET Add(dp, c) == LET new[j \in 0 .. amount] == dp[j] + (IF j >= c THEN new[j - c] ELSE 0) IN new
  IN FoldLeft(Add, [j \in 0 .. amount |-> IF j = 0 THEN 1 ELSE 0], coins)[amount]
coinChange(coins, amount) ==
  LET Add(dp, c) ==
        LET new[j \in 0 .. amount] ==
              IF j >= c /\ new[j - c] # Infinity THEN Lesser(dp[j], new[j - c] + 1) ELSE dp[j] IN new
      least == FoldLeft(Add, [j \in 0 .. amount |-> IF j = 0 THEN 0 ELSE Infinity], coins)[amount]
  IN IF amount < 0 \/ least = Infinity THEN -1 ELSE least

-----------------------------------------------------------------------------
(* Words.                                                                  *)

minDistance(a, b) ==
  LET dp[i \in 0 .. Len(a), j \in 0 .. Len(b)] ==
        IF 0 \in {i, j} THEN i + j
        ELSE Lesser(Lesser(dp[i - 1, j], dp[i, j - 1]) + 1, dp[i - 1, j - 1] + (IF a[i] = b[j] THEN 0 ELSE 1))
  IN dp[Len(a), Len(b)]

isSubsequence(s, t) ==
  LET f[i \in Nat, j \in Nat] ==
        IF i > Len(s) \/ j > Len(t) THEN i > Len(s) ELSE f[IF s[i] = t[j] THEN i + 1 ELSE i, j + 1]
  IN f[1, 1]

wordBreak(s, wordDict) ==
  LET dp[i \in 0 .. Len(s)] == i = 0 \/ \E j \in 0 .. i - 1 : dp[j] /\ SubSeq(s, j + 1, i) \in ToSet(wordDict)
  IN dp[Len(s)]

\* A dot matches every letter, a star repeats the letter before it.
Dot == -1
Star == -2
isMatch(s, p) ==
  LET matched(i, j) == i > 0 /\ p[j] \in {Dot, s[i]}
      dp[i \in 0 .. Len(s), j \in 0 .. Len(p)] ==
        IF j = 0 THEN i = 0
        ELSE IF p[j] = Star THEN dp[i, j - 2] \/ (matched(i, j - 1) /\ dp[i - 1, j])
        ELSE matched(i, j) /\ dp[i - 1, j - 1]
  IN dp[Len(s), Len(p)]

\* The first longest block s[i .. j] that the table marks, by length and then by start.
LongestMarked(s, Marked(_, _)) ==
  LET n == Len(s)
      len == Largest({1} \cup {l \in 2 .. n : \E i \in 1 .. n - l + 1 : Marked(i, i + l - 1)})
      start == IF len = 1 THEN 1 ELSE CHOOSE i \in 1 .. n - len + 1 : Marked(i, i + len - 1)
                                        /\ \A x \in 1 .. i - 1 : ~Marked(x, x + len - 1)
  IN SubSeq(s, start, start + len - 1)
\* The table marks short blocks apart, or blocks of length 3, or everything at first.
LongestByTable(s) ==
  LET dp[i \in DOMAIN s, j \in DOMAIN s] == i = j \/ (s[i] = s[j] /\ (j - i < 3 \/ dp[i + 1, j - 1]))
  IN IF Len(s) <= 1 THEN s ELSE LongestMarked(s, LAMBDA i, j : dp[i, j])
LongestByShortOnes(s) ==
  LET dp[i \in DOMAIN s, j \in DOMAIN s] ==
        i = j \/ (IF s[i] = s[j] /\ j - i + 1 > 3 THEN dp[i + 1, j - 1] ELSE s[i] = s[j])
  IN LongestMarked(s, LAMBDA i, j : dp[i, j])
LongestFromTrue(s) ==
  LET dp[i \in Nat, j \in Nat] == j <= i \/ (s[i] = s[j] /\ dp[i + 1, j - 1])
  IN IF Len(s) < 2 THEN s ELSE LongestMarked(s, LAMBDA i, j : dp[i, j])

\* Around a centre: the ends of what is a palindrome there.
expandAroundCenter(s, l, r) ==
  LET f[k \in Nat] == IF l - k >= 1 /\ r + k <= Len(s) /\ s[l - k] = s[r + k] THEN f[k + 1] ELSE <<l - k + 1, r + k - 1>>
  IN f[0]
Longer(p, best) == IF p[2] - p[1] > best[2] - best[1] THEN p ELSE best
CentreFirst(s) ==
  LET Try(best, i) == Longer(expandAroundCenter(s, i, i + 1), Longer(expandAroundCenter(s, i, i), best))
      p == FoldLeft(Try, <<1, 1>>, Upto(1, Len(s)))
  IN IF Len(s) < 2 THEN s ELSE SubSeq(s, p[1], p[2])
PairFirst(s) ==
  LET Try(best, i) == Longer(expandAroundCenter(s, i, i), Longer(expandAroundCenter(s, i, i + 1), best))
      p == FoldLeft(Try, <<1, 1>>, Upto(1, Len(s)))
  IN SubSeq(s, p[1], p[2])
LengthAround(s, l, r) == LET p == expandAroundCenter(s, l, r) IN p[2] - p[1] + 1
CentreByLength(s) ==
  LET Try(best, i) ==
        LET curmax == Bigger(LengthAround(s, i, i), LengthAround(s, i, i + 1)) IN
          IF curmax > best.max THEN [start |-> i - ((curmax - 1) \div 2), max |-> curmax] ELSE best
      end == FoldLeft(Try, [start |-> 1, max |-> 0], Upto(1, Len(s)))
  IN SubSeq(s, end.start, end.start + end.max - 1)

longestPalindromeSubseq(s) ==
  LET dp[i \in Nat, j \in Nat] ==
        IF i > j THEN 0 ELSE IF i = j THEN 1
        ELSE IF s[i] = s[j] THEN dp[i + 1, j - 1] + 2 ELSE Bigger(dp[i + 1, j], dp[i, j - 1])
  IN dp[1, Len(s)]

\* Longest block of distinct letters: a set of those in the window, or where each was last.
DistinctWindow(s) ==
  LET end(i, j) == Max({j} \cup {x \in j + 1 .. Len(s) : IsInjective(SubSeq(s, i, x))})
      Slide(st, i) == LET j == end(i, st.j) IN [j |-> j, ans |-> Bigger(st.ans, j - i + 1)]
  IN FoldLeft(Slide, [j |-> 0, ans |-> 0], Upto(1, Len(s))).ans
DistinctByPositions(s) ==
  LET pre(i) == Largest({0} \cup {x \in 1 .. i - 1 : s[x] = s[i]})
      Read(st, i) ==
        IF pre(i) = 0 \/ i - pre(i) > st.cur THEN [st EXCEPT !.cur = @ + 1]
        ELSE [max |-> Bigger(st.max, st.cur), cur |-> i - pre(i)]
      end == FoldLeft(Read, [cur |-> 0, max |-> 0], Upto(1, Len(s)))
  IN Bigger(end.max, end.cur)

-----------------------------------------------------------------------------
(* Matrices: paths that go right and down, squares and rectangles.         *)

Transposed(g) == [j \in DOMAIN g[1] |-> [i \in DOMAIN g |-> g[i][j]]]

\* One row that rolls down the matrix.
PathSum(g, Choose1(_, _)) ==
  LET first[j \in DOMAIN g[1]] == g[1][j] + (IF j = 1 THEN 0 ELSE first[j - 1])
      NextRow(dp, row) ==
        LET new[j \in DOMAIN row] == (IF j = 1 THEN dp[1] ELSE Choose1(dp[j], new[j - 1])) + row[j] IN new
  IN Last(FoldLeft(NextRow, first, Tail(g)))
maxValue(g) == PathSum(g, Bigger)
minPathSum(g) == PathSum(g, Lesser)

\* The row is the shorter side.
MaxValueByShorter(g) == PathSum(IF Len(g) <= Len(g[1]) THEN Transposed(g) ELSE g, Bigger)
MinPathByShorter(g) == PathSum(IF Len(g) <= Len(g[1]) THEN Transposed(g) ELSE g, Lesser)
MinPathByShorterRow(g) == PathSum(IF Len(g[1]) <= Len(g) THEN g ELSE Transposed(g), Lesser)
MinPathTable(g) ==
  LET dp[i \in DOMAIN g, j \in DOMAIN g[1]] ==
        g[i][j] + (IF i = 1 /\ j = 1 THEN 0 ELSE IF j = 1 THEN dp[i - 1, 1] ELSE IF i = 1 THEN dp[1, j - 1]
                   ELSE Lesser(dp[i - 1, j], dp[i, j - 1]))
  IN dp[Len(g), Len(g[1])]

\* 1 is an obstacle.
uniquePathsWithObstacles(g) ==
  LET dp[i \in DOMAIN g, j \in DOMAIN g[1]] ==
        IF g[i][j] = 1 THEN 0 ELSE IF i = 1 /\ j = 1 THEN 1
        ELSE IF j = 1 THEN dp[i - 1, 1] ELSE IF i = 1 THEN dp[1, j - 1] ELSE dp[i - 1, j] + dp[i, j - 1]
  IN dp[Len(g), Len(g[1])]
ObstaclesRolling(g) ==
  LET NextRow(dp, row) ==
        LET new[j \in DOMAIN row] ==
              IF row[j] = 1 THEN 0 ELSE dp[j] + (IF j > 1 /\ row[j - 1] # 1 THEN new[j - 1] ELSE 0) IN new
  IN Last(FoldLeft(NextRow, [j \in DOMAIN g[1] |-> IF j = 1 /\ g[1][1] # 1 THEN 1 ELSE 0], g))

\* The largest square of ones, by its lower right corner; with a border of zeros.
maximalSquare(g) ==
  LET dp[i \in DOMAIN g, j \in DOMAIN g[1]] ==
        IF g[i][j] # 1 THEN 0 ELSE IF 1 \in {i, j} THEN 1
        ELSE Min({dp[i - 1, j], dp[i - 1, j - 1], dp[i, j - 1]}) + 1
      maxlen == Max({dp[i, j] : i \in DOMAIN g, j \in DOMAIN g[1]})
  IN maxlen * maxlen
SquareWithBorder(g) ==
  LET dp[i \in 0 .. Len(g), j \in 0 .. Len(g[1])] ==
        IF 0 \in {i, j} \/ (i > 0 /\ j > 0 /\ g[i][j] # 1) THEN 0
        ELSE Min({dp[i - 1, j], dp[i - 1, j - 1], dp[i, j - 1]}) + 1
      maxlen == Max({dp[i, j] : i \in DOMAIN g, j \in DOMAIN g[1]})
  IN maxlen * maxlen

\* presum[x, y] is the sum of the first x rows and y columns.
Presum(g) ==
  LET p[i \in 0 .. Len(g), j \in 0 .. Len(g[1])] ==
        IF 0 \in {i, j} THEN 0 ELSE p[i - 1, j] + p[i, j - 1] - p[i - 1, j - 1] + g[i][j]
  IN p
sumRegion(g, row1, col1, row2, col2) ==
  LET p == Presum(g) IN p[row2, col2] - p[row1 - 1, col2] - p[row2, col1 - 1] + p[row1 - 1, col1 - 1]
matrixBlockSum(g, k) ==
  LET p == Presum(g)
      getRect(x, y) == p[Max({Min({x, Len(g)}), 0}), Max({Min({y, Len(g[1])}), 0})]
  IN [i \in DOMAIN g |-> [j \in DOMAIN g[1] |->
        getRect(i + k, j + k) - getRect(i - k - 1, j + k) - getRect(i + k, j - k - 1) + getRect(i - k - 1, j - k - 1)]]

\* At every cell the side grows while it still fits the threshold.
maxSideLength(g, threshold) ==
  LET m == Len(g)
      n == Len(g[1])
      fits(i, j, k) == i + k - 1 <= m /\ j + k - 1 <= n /\ sumRegion(g, i, j, i + k - 1, j + k - 1) <= threshold
      grow(ans, i, j) == Max({ans} \cup {k \in ans + 1 .. Lesser(m, n) : \A x \in ans + 1 .. k : fits(i, j, x)})
  IN FoldLeft(LAMBDA ans, c : grow(ans, (c \div n) + 1, (c % n) + 1), 0, Upto(0, m * n - 1))

-----------------------------------------------------------------------------
(* What they should answer.                                                *)

\* The ways to write n as an ordered sum.
Splits(n) ==
  LET gaps(C) == LET q == SelectSeq(Upto(1, n), LAMBDA i : i \in C) IN [i \in DOMAIN q |-> q[i] - (IF i = 1 THEN 0 ELSE q[i - 1])]
  IN IF n = 0 THEN {<<>>} ELSE {gaps(C \cup {n}) : C \in SUBSET (1 .. n - 1)}
SplitsInto(n, S) == {q \in Splits(n) : ToSet(q) \subseteq S}
Product(q) == FoldLeft(LAMBDA x, y : x * y, 1, q)

\* Every counting program agrees with the sums it counts; fib by matrix is asked only
\* where its shortcut does not make it differ from the others.
CountsRight(n) ==
  LET stairs == Cardinality(SplitsInto(n, {1, 2})) IN
    /\ \A a \in {fib(n + 1), FibByCalls(n + 1), FibTable(n + 1), FibRolling(n + 1), numWays(n)} : a = stairs
    /\ n # 1 => FibMatrix(n + 1) = stairs
    /\ n > 0 => {ClimbDown(n), ClimbForward(n), ClimbTable(n), ClimbRolling(n), ClimbMatrix(n)} = {stairs}
    /\ {tribonacci(n + 1), TribonacciMatrix(n + 1), waysToStep(n)} = {Cardinality(SplitsInto(n, {1, 2, 3}))}
    /\ getRow(n) = [j \in 1 .. n + 1 |-> Cardinality(Subsets(1 .. n, j - 1))] /\ generate(n + 1)[n + 1] = getRow(n)
    /\ n > 0 => \A m \in 1 .. n :
         {uniquePaths(m, n - m + 1), PathsRolling(m, n - m + 1), PathsByProduct(m, n - m + 1), PathsByShorter(m, n - m + 1)}
           = {Cardinality(Subsets(1 .. n - 1, m - 1))}
    /\ n > 1 => {cuttingRope(n), integerBreak(n), BreakByTable(n), BreakByThrees(n)}
                  = {Max({Product(q) : q \in Splits(n) \ {<<n>>}})}
    /\ numSquares(n) = Min({Len(q) : q \in SplitsInto(n, {x * x : x \in 1 .. n})} \cup (IF n = 0 THEN {0} ELSE {}))

Chosen(d, I) == LET q == SelectSeq(Upto(1, Len(d)), LAMBDA i : i \in I) IN [k \in DOMAIN q |-> d[q[k]]]
Blocks(d) == {SubSeq(d, i, j) : i, j \in DOMAIN d} \ {<<>>}
Apart(I) == \A i \in I : i + 1 \notin I
Zigzag(q) == /\ \A i \in 2 .. Len(q) : q[i] # q[i - 1]
             /\ \A i \in 3 .. Len(q) : (q[i] > q[i - 1]) # (q[i - 1] > q[i - 2])
Trades(q) == Total([i \in DOMAIN q |-> IF i % 2 = 0 THEN q[i] ELSE -q[i]])
\* The programs that choose from a sequence agree with a search of all choices.
ChoicesRight(d) ==
  LET n == Len(d)
      best(P(_), Worth(_)) == Max({Worth(Chosen(d, I)) : I \in {J \in SUBSET (1 .. n) : P(J)}})
      robbed == best(Apart, Total)
      earned == best(LAMBDA I : \A i, j \in I : d[i] # d[j] + 1, Total)
      longest == best(LAMBDA I : \A i, j \in I : i < j => d[i] < d[j], Len)
      zigzag == best(LAMBDA I : Zigzag(Chosen(d, I)), Len)
      paid(q) == -Total(q)
      noGap(I) == \A i \in 2 .. n : {i - 1, i} \cap I # {}
  IN /\ {maxProfit(d), ProfitBeforeMin(d)}
          = {best(LAMBDA I : Cardinality(I) \in {0, 2}, Trades)}
     /\ {RobFromRight(d), RobTable(d), RobRolling(d)} = {robbed}
     /\ deleteAndEarn(d) = earned /\ lengthOfLIS(d) = longest /\ WiggleGreedy(d) = zigzag
     /\ n > 0 =>
          /\ {TradeTable(d), TradeRolling(d)} = {best(LAMBDA I : Cardinality(I) % 2 = 0, Trades)}
          /\ {maxSubArray(d), SubArrayTable(d), SubArrayRolling(d)} = {Max({Total(b) : b \in Blocks(d)})}
          /\ rob(d) = robbed /\ EarnByRuns(d) = earned /\ LisByEnds(d) = longest
          /\ {WiggleTable(d), WiggleRolling(d)} = {zigzag}
          /\ {RobCircle(d), RobCircleByLambda(d), RobCircleTwice(d)}
               = {best(LAMBDA I : Apart(I) /\ (n > 1 => ~({1, n} \subseteq I)), Total)}
     /\ n > 1 => {minCostClimbingStairs(d), ClimbCostTable(d)} = {-best(noGap, paid)}

\* Splitting, summing and packing numbers to a target.
TargetsRight(d, t) ==
  LET values == ToSet(d)
      rest(I) == (1 .. Len(d)) \ I
      sum(I) == Total(Chosen(d, I))
      halves == \E I \in SUBSET (1 .. Len(d)) : sum(I) = sum(rest(I))
      positive == {q \in Splits(t) : ToSet(q) \subseteq values}
      bits == [i \in 1 .. Len(d) |-> IF d[i] > 1 THEN 1 ELSE 0]
  IN /\ findTargetSumWays(d, t) = Cardinality({I \in SUBSET (1 .. Len(d)) : sum(I) - sum(rest(I)) = t})
     /\ CanPartition(d) = halves
     /\ 0 \notin values =>
          /\ (d # <<>> => CanPartitionChecked(d) = halves)
          /\ combinationSum4(SetToSeq(values), t) = Cardinality(positive)
          /\ change(t, SetToSeq(values)) = Cardinality({SortSeq(q, <) : q \in positive})
          /\ coinChange(d, t) = (IF positive = {} THEN -1 ELSE Min({Len(q) : q \in positive}))
     /\ minFlipsMonoIncr(bits) = Min({Cardinality({i \in DOMAIN d : bits[i] # (IF i > k THEN 1 ELSE 0)}) : k \in 0 .. Len(d)})
     /\ d # <<>> => translateNum(d) =
          Cardinality({q \in SplitsInto(Len(d), {1, 2}) :
            \A k \in DOMAIN q : LET end == Total(First(q, k)) IN q[k] = 2 => 10 * d[end - 1] + d[end] \in 10 .. 25})

\* Bags: volumes a (from 1), values b, room n; some items come in twos or in groups of two.
Zipped(a, b) == [i \in 1 .. Lesser(Len(a), Len(b)) |-> <<a[i], b[i]>>]
PacksRight(a, b, n) ==
  LET items == Zipped(a, b)
      I == DOMAIN items
      counted(k) == [i \in I |-> <<a[i], b[i], k>>]
      room(take) == Total([i \in I |-> take[i] * a[i]]) <= n
      worth(take) == Total([i \in I |-> take[i] * b[i]])
      best(takes) == Max({worth(take) : take \in {x \in takes : room(x)}})
      pairs == [k \in 1 .. (Len(items) + 1) \div 2 |-> SubSeq(items, 2 * k - 1, Lesser(2 * k, Len(items)))]
      order(p) == [i \in I |-> items[p[i]]]
      risk(q) == Max({Total([k \in 1 .. i - 1 |-> q[k][1]]) - q[i][2] : i \in DOMAIN q})
      ranges == [i \in I |-> <<a[i], a[i] + b[i]>>]
  IN /\ {Pack01(items, n), KnapsackTable(items, n)} = {best([I -> 0 .. 1])}
     /\ FullKnapsack(items, n) = best([I -> 0 .. n])
     /\ \A k \in 1 .. 3 : {MultiKnapsack(counted(k), n), MultiKnapsackBinary(counted(k), n),
                           MultiKnapsackQueue(counted(k), n)} = {best([I -> 0 .. k])}
     /\ {GroupKnapsack(pairs, n), PairedKnapsack(pairs, n)}
          = {best({x \in [I -> 0 .. 1] : \A i \in I : i % 2 = 1 /\ i + 1 \in I => x[i] + x[i + 1] <= 1})}
     /\ items # <<>> => AcrobaticCow(First(a, Len(items)), First(b, Len(items))) = Min({risk(order(p)) : p \in {x \in [I -> I] : IsInjective(x)}})
     /\ IntervalPoints(ranges) = Min({Cardinality(P) : P \in {X \in SUBSET {r[2] : r \in ToSet(ranges)} :
                                        \A r \in ToSet(ranges) : X \cap (r[1] .. r[2]) # {}}})

\* The least cost of turning a into b over all ordered matchings of letters.
EditCost(a, b) ==
  LET ordered(M) == \A x, y \in M : x # y => (x[1] < y[1] /\ x[2] < y[2]) \/ (y[1] < x[1] /\ y[2] < x[2])
  IN Min({Len(a) + Len(b) - 2 * Cardinality(M) + Cardinality({x \in M : a[x[1]] # b[x[2]]}) :
            M \in {X \in SUBSET ((DOMAIN a) \X (DOMAIN b)) : ordered(X)}})
\* The words a pattern stands for, up to a length: 0 is a star, 1 a dot.
Expands(s, p) ==
  LET f[i \in Nat, j \in Nat] ==
        IF j > Len(p) THEN i > Len(s)
        ELSE IF j < Len(p) /\ p[j + 1] = Star
        THEN \E k \in i - 1 .. Len(s) : (\A x \in i .. k : p[j] \in {Dot, s[x]}) /\ f[k + 1, j + 2]
        ELSE i <= Len(s) /\ p[j] \in {Dot, s[i]} /\ f[i + 1, j + 1]
  IN f[1, 1]
WordsRight(s, t) ==
  LET pattern == [j \in DOMAIN t |-> IF t[j] = 0 THEN Star ELSE IF t[j] = 1 THEN Dot ELSE t[j]]
      legal == \A j \in DOMAIN t : t[j] = 0 => j > 1 /\ t[j - 1] # 0
      words == <<First(t, Lesser(1, Len(t))), t>>
      mirrored(q) == q = Reverse(q)
      blocks == {b \in Blocks(s) : mirrored(b)}
      longest == {LongestByTable(s), LongestByShortOnes(s), LongestFromTrue(s), CentreFirst(s), PairFirst(s), CentreByLength(s)}
  IN /\ minDistance(s, t) = EditCost(s, t)
     /\ isSubsequence(s, t) = (\E I \in SUBSET (1 .. Len(t)) : Chosen(t, I) = s)
     /\ legal => isMatch(s, pattern) = Expands(s, pattern)
     /\ wordBreak(s, words) = (\E q \in Splits(Len(s)) : \A k \in DOMAIN q :
                                 SubSeq(s, Total(First(q, k - 1)) + 1, Total(First(q, k))) \in ToSet(words))
     /\ s # <<>> => /\ \A q \in longest : q \in blocks /\ \A x \in blocks : Len(x) <= Len(q)
                    /\ longestPalindromeSubseq(s) = Max({Cardinality(I) : I \in {J \in SUBSET (1 .. Len(s)) : mirrored(Chosen(s, J))}})
     /\ {DistinctWindow(s), DistinctByPositions(s)} = {Max({0} \cup {Len(x) : x \in {y \in Blocks(s) : IsInjective(y)}})}

\* Paths, squares and sums of a matrix, k a threshold and a reach.
MatricesRight(g, k) ==
  LET m == Len(g)
      n == Len(g[1])
      path(D) == LET row(c) == 1 + Cardinality({x \in D : x < c}) IN {<<row(c), c - row(c) + 1>> : c \in 1 .. m + n - 1}
      paths == {path(D) : D \in Subsets(1 .. m + n - 2, m - 1)}
      sum(C) == FoldSet(LAMBDA c, acc : acc + g[c[1]][c[2]], 0, C)
      rect(r1, c1, r2, c2) == ((r1 .. r2) \cap (1 .. m)) \X ((c1 .. c2) \cap (1 .. n))
      squares == {l \in 1 .. Lesser(m, n) : \E i \in 1 .. m - l + 1, j \in 1 .. n - l + 1 :
                    \A c \in rect(i, j, i + l - 1, j + l - 1) : g[c[1]][c[2]] = 1}
      fitting == {l \in 1 .. Lesser(m, n) : \E i \in 1 .. m - l + 1, j \in 1 .. n - l + 1 :
                    sum(rect(i, j, i + l - 1, j + l - 1)) <= k}
  IN /\ {maxValue(g), MaxValueByShorter(g)} = {Max({sum(p) : p \in paths})}
     /\ {minPathSum(g), MinPathByShorter(g), MinPathByShorterRow(g), MinPathTable(g)} = {Min({sum(p) : p \in paths})}
     /\ {uniquePathsWithObstacles(g), ObstaclesRolling(g)}
          = {Cardinality({p \in paths : \A c \in p : g[c[1]][c[2]] # 1})}
     /\ {maximalSquare(g), SquareWithBorder(g)} = {Max({0} \cup {l * l : l \in squares})}
     /\ \A r1 \in 1 .. m, c1 \in 1 .. n : \A r2 \in r1 .. m, c2 \in c1 .. n :
          sumRegion(g, r1, c1, r2, c2) = sum(rect(r1, c1, r2, c2))
     /\ matrixBlockSum(g, k) = [i \in 1 .. m |-> [j \in 1 .. n |-> sum(rect(i - k, j - k, i + k, j + k))]]
     /\ maxSideLength(g, k) = Max({0} \cup fitting)
     /\ n = 3 => minCost(g) = Min({Total([i \in 1 .. m |-> g[i][colour[i]]]) :
                                    colour \in {f \in [1 .. m -> 1 .. 3] : \A i \in 2 .. m : f[i] # f[i - 1]}})

=============================================================================
