----------------------------- MODULE Searching -----------------------------
(***************************************************************************)
(* Binary searches and the arithmetic exercises.                           *)
(***************************************************************************)
EXTENDS ExerciseBasics, Bitwise

-----------------------------------------------------------------------------
(* The four shapes of the loop.  The first two keep an answer; the others  *)
(* shrink the interval until one place is left.                            *)

BinaryFirst(lo, hi, none, P(_)) ==
  LET f[l \in Int, r \in Int, ans \in Int] ==
        LET mid == (l + r) \div 2
        IN IF l > r THEN ans ELSE IF P(mid) THEN f[l, mid - 1, mid] ELSE f[mid + 1, r, ans]
  IN f[lo, hi, none]

BinaryLast(lo, hi, none, P(_)) ==
  LET f[l \in Int, r \in Int, ans \in Int] ==
        LET mid == (l + r) \div 2
        IN IF l > r THEN ans ELSE IF P(mid) THEN f[mid + 1, r, mid] ELSE f[l, mid - 1, ans]
  IN f[lo, hi, none]

BinaryLow(lo, hi, P(_)) ==
  LET f[l \in Int, r \in Int] ==
        LET mid == (l + r) \div 2
        IN IF l >= r THEN l ELSE IF P(mid) THEN f[l, mid] ELSE f[mid + 1, r]
  IN f[lo, hi]

BinaryHigh(lo, hi, P(_)) ==
  LET f[l \in Int, r \in Int] ==
        LET mid == (l + r + 1) \div 2
        IN IF l >= r THEN l ELSE IF P(mid) THEN f[mid, r] ELSE f[l, mid - 1]
  IN f[lo, hi]

mySqrt(x) == BinaryHigh(0, x, LAMBDA mid : mid <= x \div mid)
MySqrtSigned(x) == IF x < 0 THEN -1 ELSE BinaryLast(0, x, 0, LAMBDA mid : mid * mid <= x)

\* Answers 0 where the program answers -1, as indices are one more here.
search(d, target) ==
  LET f[l \in Int, r \in Int] ==
        LET mid == (l + r) \div 2
        IN IF l > r THEN 0
           ELSE IF d[mid] > target THEN f[l, mid - 1]
           ELSE IF d[mid] < target THEN f[mid + 1, r] ELSE mid
  IN f[1, Len(d)]

dataRange(d, target) ==
  LET l == BinaryLow(1, Len(d), LAMBDA mid : d[mid] >= target)
      r == BinaryHigh(1, Len(d), LAMBDA mid : d[mid] <= target)
  IN IF d[l] # target THEN <<0, 0>> ELSE <<l, IF d[r] = target THEN r ELSE 0>>

searchInsert(d, target) == BinaryFirst(1, Len(d), Len(d) + 1, LAMBDA mid : d[mid] >= target)

peakIndexInMountainArray(d) == BinaryFirst(1, Len(d), 1, LAMBDA mid : d[mid] > d[mid + 1])

singleNonDuplicate(d) ==
  At(d, BinaryLow(0, Len(d) - 1, LAMBDA mid : At(d, mid) # At(d, mid ^^ 1)))

\* The duplicate among 1 .. n - 1: by counting the values up to mid, and by the
\* tortoise and the hare on the graph i -> nums[i].
findDuplicate(d) ==
  BinaryFirst(0, Len(d) - 1, -1, LAMBDA mid : Cardinality({i \in DOMAIN d : d[i] <= mid}) > mid)

DuplicateByCycle(d) ==
  LET meet[slow \in Int, fast \in Int] ==
        IF slow = fast THEN slow ELSE meet[At(d, slow), At(d, fast)]
      chase[slow \in Int, fast \in Int] ==
        LET s == At(d, slow)
            f == At(d, At(d, fast))
        IN IF s = f THEN meet[0, f] ELSE chase[s, f]
  IN chase[0, 0]

-----------------------------------------------------------------------------
(* Arithmetic.  An int has 4 bits here.                                    *)

MinInt == -8
MaxInt == 7

\* Both operands are made negative, the side with one value more.
Negative(x) == IF x > 0 THEN -x ELSE x
SignedAnswer(a, b, ans) == IF (a > 0) # (b > 0) THEN -ans ELSE ans

divide(a, b) ==
  LET m == Negative(a)
      n == Negative(b)
      rest[x \in Int] ==
        LET grow[div \in Int, times \in Int] ==
              IF div >= MinInt \div 2 /\ x <= div + div THEN grow[div + div, times + times]
              ELSE <<div, times>>
            step == grow[n, 1]
        IN IF x > n THEN 0 ELSE step[2] + rest[x - step[1]]
  IN IF a = MinInt /\ b = 1 THEN MinInt
     ELSE IF a = MinInt /\ b = -1 THEN MaxInt
     ELSE IF b = MinInt THEN IF a = MinInt THEN 1 ELSE 0
     ELSE IF a = 0 THEN 0
     ELSE SignedAnswer(a, b, rest[m])

\* Whether b added times times does not go below a, without overflow.
quickAdd(a, b, times) ==
  LET f[add \in Int, ans \in Int, t \in Int] ==
        /\ t > 0 /\ t % 2 = 1 => a - add <= ans
        /\ t > 1 => a - add <= add
        /\ t > 1 => f[add + add, IF t % 2 = 1 THEN ans + add ELSE ans, t \div 2]
  IN f[b, 0, times]

DivideBySearch(a, b) ==
  IF a = MinInt /\ b = 1 THEN MinInt
  ELSE IF a = MinInt /\ b = -1 THEN MaxInt
  ELSE IF b = MinInt THEN IF a = MinInt THEN 1 ELSE 0
  ELSE SignedAnswer(a, b,
         BinaryLast(0, MaxInt, 0, LAMBDA mid : quickAdd(Negative(a), Negative(b), mid)))

\* Powers of one x, each kept as its exponent: 1 is 0, a product is a sum and
\* 1 / x is -x.
myPow(x, n) ==
  LET f[e \in Int, pn \in Int] ==
        IF pn = 0 THEN 0
        ELSE LET b == IF pn < 0 THEN -e ELSE e
                 k == IF pn < 0 THEN -pn ELSE pn
                 y == f[b, k \div 2]
             IN IF k % 2 = 1 THEN y + y + b ELSE y + y
  IN f[x, n]

PowByLoop(x, n) ==
  LET f[e \in Int, pn \in Int, ans \in Int] ==
        IF pn = 0 THEN ans ELSE f[e + e, pn \div 2, IF pn % 2 = 1 THEN ans + e ELSE ans]
  IN IF n < 0 THEN f[-x, -n, 0] ELSE f[x, n, 0]

qmi(a, b, p) ==
  LET f[x \in Int, n \in Int, res \in Int] ==
        IF n = 0 THEN res
        ELSE f[(x * x) % p, n \div 2, IF n % 2 = 1 THEN (res * x) % p ELSE res]
  IN f[a, b, 1]

\* Ones in a word of 4 bits: shifting the word, shifting a flag until it falls
\* out, clearing the lowest one, subtracting lowbit().
WordValues == 16
hammingWeight(n) ==
  LET f[k \in Nat] == IF k = 0 THEN 0 ELSE f[k \div 2] + (k & 1) IN f[n]
WeightByFlag(n) ==
  LET f[flag \in Nat] ==
        IF flag = 0 THEN 0 ELSE f[(2 * flag) % WordValues] + (IF n & flag # 0 THEN 1 ELSE 0)
  IN f[1]
WeightByClearing(n) ==
  LET f[k \in Nat] == IF k = 0 THEN 0 ELSE f[k & (k - 1)] + 1 IN f[n]
lowbit(n) == n & ((WordValues - 1 - n + 1) % WordValues)
OnesByLowbit(n) == LET f[k \in Nat] == IF k = 0 THEN 0 ELSE f[k - lowbit(k)] + 1 IN f[n]

\* Binomial coefficients by Pascal's rule, modulo 10^9 + 7.
Combined(a, b) ==
  LET d[i \in Nat, j \in Nat] ==
        IF j = 0 THEN 1 ELSE IF j > i THEN 0 ELSE (d[i - 1, j] + d[i - 1, j - 1]) % 1000000007
  IN d[a, b]

PathsByProduct(m, n) ==
  LET rows == Lesser(m, n)
      cols == Bigger(m, n)
  IN FoldLeft(LAMBDA ans, y : (ans * (cols + y - 1)) \div y, 1, Upto(1, rows - 1))

-----------------------------------------------------------------------------
(* What the programs promise.                                              *)

\* Of an ascending array.
SearchesRight(d, target) ==
  LET places == {i \in DOMAIN d : d[i] = target} IN
    /\ IF places = {} THEN search(d, target) = 0 ELSE search(d, target) \in places
    /\ searchInsert(d, target) = Min({i \in 1 .. Len(d) + 1 : i > Len(d) \/ d[i] >= target})
    /\ d # <<>> => dataRange(d, target) =
         IF places = {} THEN <<0, 0>> ELSE <<Min(places), Max(places)>>

\* Of an array that is a mountain, that pairs all but one, that holds a duplicate.
PeaksRight(d) ==
  LET n == Len(d)
      Mountain(p) == /\ p \in 2 .. n - 1
                     /\ \A i \in 1 .. p - 1 : d[i] < d[i + 1]
                     /\ \A i \in p .. n - 1 : d[i] > d[i + 1]
      Odd(v) == HowOften(d, v) = 1 /\ \A w \in ToSet(d) \ {v} : HowOften(d, w) = 2
  IN /\ \A p \in DOMAIN d : Mountain(p) => peakIndexInMountainArray(d) = p
     /\ \A v \in ToSet(d) : Odd(v) /\ d = Ascending(d) => singleNonDuplicate(d) = v
     /\ \A v \in ToSet(d) :
          n > 1 /\ ToSet(d) \subseteq 1 .. n - 1 /\ {w \in ToSet(d) : HowOften(d, w) > 1} = {v} =>
            findDuplicate(d) = v /\ DuplicateByCycle(d) = v

Quotient(a, b) ==
  LET q == (IF a < 0 THEN -a ELSE a) \div (IF b < 0 THEN -b ELSE b) IN
    Lesser(IF (a < 0) = (b < 0) THEN q ELSE -q, MaxInt)

ArithmeticRight(x, n) ==
  /\ n # 0 => divide(x, n) = Quotient(x, n) /\ DivideBySearch(x, n) = Quotient(x, n)
  /\ myPow(x, n) = x * n /\ PowByLoop(x, n) = x * n
  /\ x < 0 => MySqrtSigned(x) = -1
  /\ x >= 0 => /\ mySqrt(x) = MySqrtSigned(x)
               /\ mySqrt(x) * mySqrt(x) <= x /\ x < (mySqrt(x) + 1) * (mySqrt(x) + 1)
  /\ x >= 0 => LET ones == Cardinality({b \in 0 .. 3 : (x \div 2^b) % 2 = 1}) IN
       {hammingWeight(x), WeightByFlag(x), WeightByClearing(x), OnesByLowbit(x)} = {ones}
  /\ x >= 0 /\ n >= 0 /\ n <= x => Combined(x, n) = Cardinality(kSubset(n, 1 .. x))
  /\ x \in 1 .. 4 /\ n \in 1 .. 4 => PathsByProduct(x, n) = Combined(x + n - 2, x - 1)
  /\ x > 0 /\ n >= 0 => \A p \in 2 .. 5 : qmi(x, n, p) = (x^n) % p
=============================================================================
