------------------------ MODULE AccountTransferProofs ------------------------
(***************************************************************************)
(* Theorems about AccountTransfer, for any set of concurrent transfers of  *)
(* any amounts, between any accounts, known or not.                        *)
(***************************************************************************)
EXTENDS AccountTransfer, SumLemmas, TLAPS

-----------------------------------------------------------------------------
(* The inductive invariant.                                                *)

\* What an add() body has established between its read and its put().
ReadIsSafe ==
  \A x \in Transfer, l \in Leg :
    /\ leg[x][l] \in {"read", "added"} => Account(x, l) \in Known
    /\ leg[x][l] = "read" => seen[x][l] + Delta(x, l) \in 0 .. IntMax

\* A refund fails only for a negative amount, a source that has grown too full,
\* or an unknown source.
RefundFailure ==
  \A x \in Transfer :
    /\ leg[x]["refund"] = "refused" => Amount[x] < 0 \/ RefundOverflows(x)
    /\ leg[x]["refund"] = "thrown" => From[x] \notin Known

\* Which legs have been started, stage by stage.
Shape(x) ==
  LET d == leg[x]["debit"]
      c == leg[x]["credit"]
      r == leg[x]["refund"]
  IN /\ at[x] = "idle" => d = "idle" /\ c = "idle" /\ r = "idle"
     /\ at[x] = "debiting" => c = "idle" /\ r = "idle"
     /\ at[x] = "undoing" => d = "refused" /\ c = "idle" /\ r # "idle"
     /\ at[x] = "crediting" => d = "added" /\ r = "idle"
     /\ at[x] = "recovering" => d = "added" /\ c \in {"refused", "thrown"} /\ r # "idle"
     /\ at[x] = "finished" =>
          \/ d = "thrown" /\ c = "idle" /\ r = "idle"
          \/ d = "refused" /\ c = "idle" /\ r # "idle"
          \/ d = "added" /\ c = "added" /\ r = "idle"
          \/ d = "added" /\ c \in {"refused", "thrown"} /\ r # "idle"

Shapes == \A x \in Transfer : Shape(x)

LedgerInv == TypeOK /\ NeverOverdrawn /\ ReadIsSafe /\ RefundFailure /\ Shapes

\* A sum of two ints, or the negation of one, is an int again.
LEMMA WrapInt ==
  ASSUME NEW m \in JavaInt, NEW n \in JavaInt
  PROVE  Wrap(m + n) \in JavaInt /\ Wrap(-1 * n) \in JavaInt
BY IntAssumption DEF Wrap, JavaInt

\* Added to a balance that is not negative, an amount gives a negative int or the
\* true sum; with an amount that is not negative, a negative int means overflow.
LEMMA WrapSum ==
  ASSUME NEW b \in 0 .. IntMax, NEW n \in JavaInt
  PROVE  /\ Wrap(b + n) >= 0 => b + n \in 0 .. IntMax
         /\ Wrap(b + n) < 0 /\ n >= 0 => b + n > IntMax
BY IntAssumption DEF Wrap, JavaInt

LEMMA WrapSame ==
  ASSUME NEW n \in 0 .. IntMax
  PROVE  Wrap(n) = n
BY IntAssumption DEF Wrap

LEMMA DeltaInt == \A x \in Transfer, l \in Leg : Delta(x, l) \in JavaInt
<1>1. 0 \in JavaInt
  BY IntAssumption DEF JavaInt
<1>2. QED
  BY <1>1, AmountAssumption, WrapInt DEF Delta

LEMMA LedgerInit == Init => LedgerInv
<1> SUFFICES ASSUME Init PROVE LedgerInv
  OBVIOUS
<1>1. /\ leg = [x \in Transfer |-> [l \in Leg |-> "idle"]]
      /\ at = [x \in Transfer |-> "idle"]
  BY DEF Init
<1>2. TypeOK
  <2>1. leg \in [Transfer -> [Leg -> Progress]] /\ at \in [Transfer -> Stage]
    BY <1>1 DEF Progress, Stage
  <2>2. /\ reply \in [Transfer -> Reply] /\ result \in [Transfer -> {"0", "-1"}]
        /\ seen \in [Transfer -> [Leg -> JavaInt]]
    BY IntAssumption DEF Init, Reply, JavaInt
  <2>3. balance \in [Known -> JavaInt]
    BY IntAssumption, OpeningAssumption DEF Init, JavaInt
  <2>4. overwrote \in BOOLEAN
    BY DEF Init
  <2>5. QED
    BY <2>1, <2>2, <2>3, <2>4 DEF TypeOK
<1>3. NeverOverdrawn
  BY OpeningAssumption DEF Init, NeverOverdrawn
<1>4. ReadIsSafe /\ RefundFailure /\ Shapes
  BY <1>1 DEF ReadIsSafe, RefundFailure, Shapes, Shape, Leg
<1>5. QED
  BY <1>2, <1>3, <1>4 DEF LedgerInv

LEMMA ReadKeeps ==
  ASSUME LedgerInv, NEW x \in Transfer, NEW l \in Leg, Read(x, l)
  PROVE  LedgerInv'
<1> USE DEF LedgerInv
<1>1. PICK next \in {"thrown", "refused", "read"} :
        /\ leg' = [leg EXCEPT ![x][l] = next]
        /\ next = "thrown" <=> Account(x, l) \notin Known
        /\ next = "refused" => Wrap(balance[Account(x, l)] + Delta(x, l)) < 0
        /\ next = "read" => Wrap(balance[Account(x, l)] + Delta(x, l)) >= 0
        /\ next = "thrown" => seen' = seen
        /\ next # "thrown" => seen' = [seen EXCEPT ![x][l] = balance[Account(x, l)]]
  <2>1. CASE Account(x, l) \notin Known
    BY <2>1 DEF Read
  <2>2. CASE Account(x, l) \in Known /\ Wrap(balance[Account(x, l)] + Delta(x, l)) < 0
    BY <2>2 DEF Read
  <2>3. CASE Account(x, l) \in Known /\ ~(Wrap(balance[Account(x, l)] + Delta(x, l)) < 0)
    <3>1. Wrap(balance[Account(x, l)] + Delta(x, l)) \in JavaInt
      BY <2>3, DeltaInt, WrapInt DEF TypeOK
    <3>2. Wrap(balance[Account(x, l)] + Delta(x, l)) >= 0
      BY <2>3, <3>1, IntAssumption DEF JavaInt
    <3>3. QED
      BY <2>3, <3>2 DEF Read
  <2>4. QED
    BY <2>1, <2>2, <2>3
<1>2. /\ leg[x][l] = "asked"
      /\ UNCHANGED <<balance, at, result, reply, overwrote>>
      /\ \A y \in Transfer, m \in Leg :
           /\ leg'[y][m] = IF y = x /\ m = l THEN next ELSE leg[y][m]
           /\ ~(y = x /\ m = l) => seen'[y][m] = seen[y][m]
  BY <1>1 DEF Read, TypeOK
<1>3. TypeOK'
  <2>1. leg' \in [Transfer -> [Leg -> Progress]]
    BY <1>1 DEF TypeOK, Progress
  <2>2. seen' \in [Transfer -> [Leg -> JavaInt]]
    <3>1. seen \in [Transfer -> [Leg -> JavaInt]] /\ balance \in [Known -> JavaInt]
      BY DEF TypeOK
    <3>2. next # "thrown" => balance[Account(x, l)] \in JavaInt
      BY <1>1, <3>1
    <3>3. CASE next = "thrown"
      BY <1>1, <3>1, <3>3
    <3>4. CASE next # "thrown"
      <4>1. seen' = [seen EXCEPT ![x][l] = balance[Account(x, l)]]
        BY <1>1, <3>4
      <4>2. QED
        BY <3>1, <3>2, <3>4, <4>1
    <3>5. QED
      BY <3>3, <3>4
  <2>3. QED
    BY <1>2, <2>1, <2>2 DEF TypeOK
<1>4. NeverOverdrawn'
  BY <1>2 DEF NeverOverdrawn
<1>5. next # "thrown" => /\ seen'[x][l] = balance[Account(x, l)]
                        /\ Account(x, l) \in Known
                        /\ balance[Account(x, l)] \in 0 .. IntMax
  BY <1>1 DEF TypeOK, NeverOverdrawn, JavaInt
<1>6. ReadIsSafe'
  <2>1. next = "read" => balance[Account(x, l)] + Delta(x, l) \in 0 .. IntMax
    BY <1>1, <1>5, DeltaInt, WrapSum
  <2>2. QED
    BY <1>1, <1>2, <1>5, <2>1 DEF ReadIsSafe, Account, Delta
<1>7. RefundFailure'
  <2>1. ASSUME l = "refund"
        PROVE  /\ next = "refused" => Amount[x] < 0 \/ seen'[x]["refund"] + Amount[x] > IntMax
               /\ next = "thrown" => From[x] \notin Known
    <3>1. Account(x, l) = From[x] /\ Delta(x, l) = Amount[x] /\ Amount[x] \in JavaInt
      BY <2>1, AmountAssumption DEF Account, Delta
    <3>2. next = "refused" /\ Amount[x] >= 0 => balance[From[x]] + Amount[x] > IntMax
      BY <1>1, <1>5, <3>1, WrapSum
    <3>3. Amount[x] >= 0 \/ Amount[x] < 0
      BY <3>1, IntAssumption DEF JavaInt
    <3>4. QED
      BY <1>1, <1>5, <2>1, <3>1, <3>2, <3>3
  <2>2. QED
    BY <1>2, <2>1 DEF RefundFailure, RefundOverflows, Leg
<1>8. Shapes'
  BY <1>2 DEF Shapes, Shape, Leg
<1>9. QED
  BY <1>3, <1>4, <1>6, <1>7, <1>8

LEMMA PutKeeps ==
  ASSUME LedgerInv, NEW x \in Transfer, NEW l \in Leg, Put(x, l)
  PROVE  LedgerInv'
<1> USE DEF LedgerInv
<1>1. /\ leg[x][l] = "read"
      /\ leg' = [leg EXCEPT ![x][l] = "added"]
      /\ balance' = [balance EXCEPT ![Account(x, l)] = Wrap(seen[x][l] + Delta(x, l))]
      /\ UNCHANGED <<seen, at, result, reply>>
  BY DEF Put
<1>2. /\ Account(x, l) \in Known
      /\ Wrap(seen[x][l] + Delta(x, l)) \in 0 .. IntMax
  BY <1>1, WrapSame DEF ReadIsSafe
<1>3. \A y \in Transfer, m \in Leg :
        leg'[y][m] = IF y = x /\ m = l THEN "added" ELSE leg[y][m]
  BY <1>1 DEF TypeOK
<1>4. TypeOK'
  <2>1. leg' \in [Transfer -> [Leg -> Progress]]
    BY <1>1 DEF TypeOK, Progress
  <2>2. balance' \in [Known -> JavaInt]
    BY <1>1, <1>2, IntAssumption DEF TypeOK, JavaInt
  <2>3. overwrote' \in BOOLEAN
    BY DEF Put, TypeOK
  <2>4. QED
    BY <1>1, <2>1, <2>2, <2>3 DEF TypeOK
<1>5. NeverOverdrawn'
  BY <1>1, <1>2, IntAssumption DEF NeverOverdrawn, TypeOK
<1>6. ReadIsSafe'
  BY <1>1, <1>2, <1>3 DEF ReadIsSafe, Account, Delta
<1>7. RefundFailure'
  BY <1>1, <1>3 DEF RefundFailure, RefundOverflows, Leg
<1>8. Shapes'
  BY <1>1, <1>3 DEF Shapes, Shape, Leg
<1>9. QED
  BY <1>4, <1>5, <1>6, <1>7, <1>8

\* A step of the chain starts at most one leg and moves one transfer on.
LEMMA ChainKeeps ==
  ASSUME LedgerInv, NEW x \in Transfer, Call(x) \/ Continue(x) \/ Answer(x)
  PROVE  LedgerInv'
<1> USE DEF LedgerInv
<1>1. /\ UNCHANGED <<balance, seen, overwrote>>
      /\ reply' \in [Transfer -> Reply] /\ result' \in [Transfer -> {"0", "-1"}]
  BY DEF Call, Continue, Debited, DebitRefused, DebitThrew, Credited, CreditFailed,
         RetryTransfer, Answer, TypeOK, Reply
<1>2. PICK next \in Stage : at' = [at EXCEPT ![x] = next]
  <2>1. CASE Answer(x)
    <3>1. at[x] \in Stage /\ at' = [at EXCEPT ![x] = at[x]]
      BY <2>1 DEF Answer, TypeOK
    <3>2. QED
      BY <3>1
  <2>2. CASE ~Answer(x)
    BY <2>2 DEF Call, Continue, Debited, DebitRefused, DebitThrew, Credited, CreditFailed,
                RetryTransfer, Stage
  <2>3. QED
    BY <2>1, <2>2
<1>3. leg' = leg \/ \E l \in Leg : leg' = [leg EXCEPT ![x][l] = "asked"]
  BY DEF Call, Continue, Debited, DebitRefused, DebitThrew, Credited, CreditFailed,
         RetryTransfer, Answer, Leg
<1>4. leg' \in [Transfer -> [Leg -> Progress]]
  <2>1. CASE leg' = leg
    BY <2>1 DEF TypeOK
  <2>2. ASSUME NEW l \in Leg, leg' = [leg EXCEPT ![x][l] = "asked"]
        PROVE  leg' \in [Transfer -> [Leg -> Progress]]
    BY <2>2 DEF TypeOK, Progress
  <2>3. QED
    BY <1>3, <2>1, <2>2
<1>5. TypeOK'
  BY <1>1, <1>2, <1>4 DEF TypeOK
<1>6. NeverOverdrawn'
  BY <1>1 DEF NeverOverdrawn
<1>7. \A y \in Transfer, m \in Leg : leg'[y][m] = leg[y][m] \/ leg'[y][m] = "asked"
  BY <1>3 DEF TypeOK
<1>8. ReadIsSafe'
  BY <1>1, <1>7 DEF ReadIsSafe, Account, Delta
<1>9. RefundFailure'
  BY <1>1, <1>7 DEF RefundFailure, RefundOverflows, Leg
<1>10. \A y \in Transfer : y # x => leg'[y] = leg[y] /\ at'[y] = at[y]
  BY <1>2, <1>3 DEF TypeOK
<1>11. Shape(x)'
  <2>1. Shape(x)
    BY DEF Shapes
  <2>2. CASE Call(x)
    BY <2>1, <2>2 DEF Call, Shape, TypeOK, Leg
  <2>3. CASE Debited(x)
    BY <2>1, <2>3 DEF Debited, Shape, TypeOK, Leg
  <2>4. CASE DebitRefused(x)
    BY <2>1, <2>4 DEF DebitRefused, Shape, TypeOK, Leg
  <2>5. CASE DebitThrew(x)
    BY <2>1, <2>5 DEF DebitThrew, Shape, TypeOK, Leg
  <2>6. CASE Credited(x)
    BY <2>1, <2>6 DEF Credited, Shape, TypeOK, Leg
  <2>7. CASE CreditFailed(x)
    BY <2>1, <2>7 DEF CreditFailed, Shape, TypeOK, Leg
  <2>8. CASE RetryTransfer(x)
    BY <2>1, <2>8 DEF RetryTransfer, Shape, TypeOK, Leg
  <2>9. CASE Answer(x)
    BY <2>1, <2>9 DEF Answer, Shape
  <2>10. QED
    BY <2>2, <2>3, <2>4, <2>5, <2>6, <2>7, <2>8, <2>9 DEF Continue
<1>12. Shapes'
  BY <1>10, <1>11 DEF Shapes, Shape
<1>13. QED
  BY <1>5, <1>6, <1>8, <1>9, <1>12

LEMMA LedgerStep == LedgerInv /\ [Next]_vars => LedgerInv'
<1> SUFFICES ASSUME LedgerInv, [Next]_vars PROVE LedgerInv'
  OBVIOUS
<1>1. CASE Next
  BY <1>1, ReadKeeps, PutKeeps, ChainKeeps DEF Next, Work, Add
<1>2. CASE UNCHANGED vars
  BY <1>2 DEF vars, LedgerInv, TypeOK, NeverOverdrawn, ReadIsSafe, RefundFailure,
              RefundOverflows, Shapes, Shape
<1>3. QED
  BY <1>1, <1>2

LEMMA LedgerHolds == Spec => []LedgerInv
BY LedgerInit, LedgerStep, PTL DEF Spec

\* Balances, legs and stages keep their types under any overlap of transfers.
THEOREM TransferTypeCorrect == Spec => []TypeOK
<1>1. LedgerInv => TypeOK
  BY DEF LedgerInv
<1>2. QED
  BY <1>1, LedgerHolds, PTL

\* No overlap of transfers, lost updates included, overdraws an account.
THEOREM AccountsStayCovered == Spec => []NeverOverdrawn
<1>1. LedgerInv => NeverOverdrawn
  BY DEF LedgerInv
<1>2. QED
  BY <1>1, LedgerHolds, PTL

\* When a transfer of any amount that an int can hold has come to rest, money it
\* took from the source is at the target or back, whatever the other transfers did;
\* it is neither only if the refund went over the largest int.
THEOREM MoneyArrivesOrReturns == Spec => []NothingVanishes
<1>1. ASSUME LedgerInv, NEW x \in Transfer
      PROVE  /\ at[x] = "finished" /\ Idle(x) /\ Amount[x] >= 0 /\ leg[x]["debit"] = "added" =>
                  (leg[x]["credit"] = "added") #
                    (leg[x]["refund"] = "added" \/ RefundOverflows(x))
             /\ leg[x]["credit"] = "added" => leg[x]["debit"] = "added"
  <2>1. Shape(x) /\ at[x] \in Stage
    BY <1>1 DEF LedgerInv, Shapes, TypeOK
  <2>2. leg[x]["credit"] = "added" => leg[x]["debit"] = "added"
    BY <2>1 DEF Shape, Stage
  <2>3. ASSUME at[x] = "finished", Idle(x), Amount[x] >= 0, leg[x]["debit"] = "added"
        PROVE  (leg[x]["credit"] = "added") #
                 (leg[x]["refund"] = "added" \/ RefundOverflows(x))
    <3>1. leg[x]["refund"] \in Progress \ {"asked", "read"}
      BY <1>1, <2>3 DEF LedgerInv, TypeOK, Idle, Leg
    <3>2. leg[x]["refund"] = "refused" <=> RefundOverflows(x)
      BY <1>1, <2>3, AmountAssumption, IntAssumption
      DEF LedgerInv, RefundFailure, RefundOverflows, JavaInt
    <3>3. leg[x]["refund"] # "thrown"
      BY <1>1, <2>3 DEF LedgerInv, RefundFailure, ReadIsSafe, Account, Leg
    <3>4. QED
      BY <2>1, <2>3, <3>1, <3>2, <3>3 DEF Shape, Progress
  <2>4. QED
    BY <2>2, <2>3
<1>2. LedgerInv => NothingVanishes
  BY <1>1 DEF NothingVanishes
<1>3. QED
  BY <1>2, LedgerHolds, PTL

-----------------------------------------------------------------------------
(* The books.  The legs applied to an account change by one put() at a     *)
(* time, and a put() that overwrites nothing adds to the balance what its  *)
(* leg adds to the sum.                                                    *)

Total(a) == SumFunction([xl \in Applied(a) |-> Delta(xl[1], xl[2])])

Adds == Transfer \X Leg

LEMMA AddsFinite ==
  ASSUME NEW A, A \subseteq Adds
  PROVE  IsFiniteSet(A)
<1>1. IsFiniteSet({"debit"} \cup {"credit"} \cup {"refund"})
  BY FS_Singleton, FS_Union
<1>2. IsFiniteSet(Leg)
  <2>1. Leg = {"debit"} \cup {"credit"} \cup {"refund"}
    BY DEF Leg
  <2>2. QED
    BY <1>1, <2>1
<1>3. IsFiniteSet(Adds)
  BY <1>2, TransferAssumption, FS_Product DEF Adds
<1>4. QED
  BY <1>3, FS_Subset

\* The summands of all accounts, as one function.
DeltaOf == [xl \in Adds |-> Delta(xl[1], xl[2])]

LEMMA SumOfAdds ==
  ASSUME NEW A, A \subseteq Adds
  PROVE  SumFunction([xl \in A |-> Delta(xl[1], xl[2])]) = SumFunctionOnSet(DeltaOf, A)
<1> DEFINE h == [xl \in A |-> Delta(xl[1], xl[2])]
<1>1. SumFunction(h) = SumFunctionOnSet(h, A)
  BY DEF SumFunction
<1>2. \A xl \in A : DeltaOf[xl] \in Int /\ h[xl] = DeltaOf[xl]
  BY DeltaInt DEF DeltaOf, Adds, JavaInt
<1>3. SumFunctionOnSet(h, A) = SumFunctionOnSet(DeltaOf, A)
  <2> HIDE DEF h
  <2> QED
    BY <1>2, AddsFinite, SumOfEquals
<1>4. QED
  BY <1>1, <1>3

Booked == ~overwrote => \A a \in Known : balance[a] = Opening[a] + Total(a)

LEMMA BookedInit == Init => Booked
<1> SUFFICES ASSUME Init, NEW a \in Known PROVE balance[a] = Opening[a] + Total(a)
  BY DEF Booked
<1>1. Applied(a) = {}
  BY DEF Init, Applied
<1>2. Total(a) = 0
  BY <1>1, SumOfAdds, SumOfNothing DEF Total
<1>3. QED
  BY <1>2, OpeningAssumption DEF Init

\* Nothing but a put() adds a leg to those applied.
LEMMA AppliedSame ==
  ASSUME LedgerInv, Booked, balance' = balance, overwrote' = overwrote,
         \A y \in Transfer, l \in Leg : leg'[y][l] = "added" <=> leg[y][l] = "added"
  PROVE  Booked'
<1>1. ASSUME NEW a \in Known
      PROVE  Total(a)' = Total(a)
  <2>1. Applied(a)' = Applied(a)
    BY DEF Applied, Account
  <2>2. QED
    BY <2>1 DEF Total, Delta
<1>2. QED
  BY <1>1 DEF Booked

LEMMA PutBooked ==
  ASSUME LedgerInv, Booked, NEW x \in Transfer, NEW l \in Leg, Put(x, l)
  PROVE  Booked'
<1> DEFINE acc == Account(x, l)
<1> SUFFICES ASSUME ~overwrote', NEW a \in Known
             PROVE  balance'[a] = Opening[a] + Total(a)'
  BY DEF Booked
<1>1. /\ leg[x][l] = "read"
      /\ leg' = [leg EXCEPT ![x][l] = "added"]
      /\ balance' = [balance EXCEPT ![acc] = seen[x][l] + Delta(x, l)]
      /\ ~overwrote /\ balance[acc] = seen[x][l]
  BY WrapSame DEF Put, LedgerInv, ReadIsSafe
<1>2. /\ acc \in Known
      /\ balance \in [Known -> JavaInt]
      /\ Delta(x, l) \in Int
  BY <1>1, DeltaInt DEF LedgerInv, ReadIsSafe, TypeOK, JavaInt
<1>3. balance[a] = Opening[a] + Total(a) /\ Opening[a] \in Int
  BY <1>1, OpeningAssumption DEF Booked
<1>4. \A y \in Transfer, k \in Leg :
        leg'[y][k] = IF y = x /\ k = l THEN "added" ELSE leg[y][k]
  BY <1>1 DEF LedgerInv, TypeOK
<1>5. Total(a)' = SumFunctionOnSet(DeltaOf, Applied(a)')
  <2>1. Applied(a)' \subseteq Adds
    BY DEF Applied, Adds
  <2>2. Total(a)' = SumFunction([xl \in Applied(a)' |-> Delta(xl[1], xl[2])])
    BY DEF Total, Delta
  <2>3. QED
    BY <2>1, <2>2, SumOfAdds
<1>6. Applied(a) \subseteq Adds /\ Total(a) = SumFunctionOnSet(DeltaOf, Applied(a))
  <2>1. Applied(a) \subseteq Adds
    BY DEF Applied, Adds
  <2>2. QED
    BY <2>1, SumOfAdds DEF Total
<1>7. CASE a # acc
  <2>1. Applied(a)' = Applied(a)
    BY <1>4, <1>7 DEF Applied, Account
  <2>2. balance'[a] = balance[a]
    BY <1>1, <1>2, <1>7
  <2>3. QED
    BY <1>3, <1>5, <1>6, <2>1, <2>2
<1>8. CASE a = acc
  <2>1. Applied(a)' = Applied(a) \cup {<<x, l>>} /\ <<x, l>> \notin Applied(a)
    BY <1>1, <1>4, <1>8 DEF Applied, Account
  <2>2. DeltaOf[<<x, l>>] = Delta(x, l) /\ \A xl \in Applied(a) : DeltaOf[xl] \in Int
    BY <1>6, DeltaInt DEF DeltaOf, Adds, JavaInt
  <2>3. /\ SumFunctionOnSet(DeltaOf, Applied(a)) \in Int
        /\ SumFunctionOnSet(DeltaOf, Applied(a) \cup {<<x, l>>}) =
             SumFunctionOnSet(DeltaOf, Applied(a)) + DeltaOf[<<x, l>>]
    BY <1>2, <1>6, <2>1, <2>2, AddsFinite, SumOfOneMore
  <2>4. balance'[a] = balance[a] + Delta(x, l)
    BY <1>1, <1>2, <1>8 DEF JavaInt
  <2>5. QED
    BY <1>2, <1>3, <1>5, <1>6, <2>1, <2>2, <2>3, <2>4
<1>9. QED
  BY <1>7, <1>8

LEMMA BookedStep == LedgerInv /\ Booked /\ [Next]_vars => Booked'
<1> SUFFICES ASSUME LedgerInv, Booked, [Next]_vars PROVE Booked'
  OBVIOUS
<1>1. ASSUME NEW x \in Transfer, NEW l \in Leg, Read(x, l)
      PROVE  Booked'
  <2>1. \A y \in Transfer, k \in Leg : leg'[y][k] = "added" <=> leg[y][k] = "added"
    <3>1. leg \in [Transfer -> [Leg -> Progress]] /\ leg[x][l] = "asked"
      BY <1>1 DEF Read, LedgerInv, TypeOK
    <3>2. PICK next \in {"thrown", "refused", "read"} : leg' = [leg EXCEPT ![x][l] = next]
      BY <1>1 DEF Read
    <3>3. \A y \in Transfer, k \in Leg : leg'[y][k] = IF y = x /\ k = l THEN next ELSE leg[y][k]
      BY <3>1, <3>2
    <3>4. QED
      BY <3>1, <3>3
  <2>2. balance' = balance /\ overwrote' = overwrote
    BY <1>1 DEF Read
  <2>3. QED
    BY <2>1, <2>2, AppliedSame
<1>2. ASSUME NEW x \in Transfer, Call(x) \/ Continue(x) \/ Answer(x)
      PROVE  Booked'
  <2>1. /\ balance' = balance /\ overwrote' = overwrote
        /\ leg' = leg \/ \E l \in Leg : leg[x][l] = "idle" /\ leg' = [leg EXCEPT ![x][l] = "asked"]
    BY <1>2 DEF Call, Continue, Debited, DebitRefused, DebitThrew, Credited, CreditFailed,
                RetryTransfer, Answer, LedgerInv, Shapes, Shape, Leg
  <2>2. \A y \in Transfer, k \in Leg : leg'[y][k] = "added" <=> leg[y][k] = "added"
    BY <2>1 DEF LedgerInv, TypeOK
  <2>3. QED
    BY <2>1, <2>2, AppliedSame
<1>3. CASE UNCHANGED vars
  BY <1>3, AppliedSame DEF vars
<1>4. QED
  BY <1>1, <1>2, <1>3, PutBooked DEF Next, Work, Add

\* Whatever overlaps: as long as no put() has overwritten another, every balance is
\* the opening balance plus all that the completed add() calls added.
THEOREM BooksBalance == Spec => []Ledger
<1>1. Booked => Ledger
  BY DEF Booked, Ledger, Total
<1>2. QED
  BY <1>1, LedgerHolds, BookedInit, BookedStep, PTL DEF Spec
=============================================================================
