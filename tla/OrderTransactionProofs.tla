----------------------- MODULE OrderTransactionProofs -----------------------
(***************************************************************************)
(* The shopping cart never hears of an order that was never created, for   *)
(* every number of orders, restarts and check-backs.                       *)
(***************************************************************************)
EXTENDS OrderTransaction, TLAPS

\* createOrder() has returned for m, or died before it could.
Past(m) == m[2] < run \/ (m[2] = run /\ m[1] < i)
\* The local transaction of m cannot have run yet.
Before(m) == m[2] > run \/ (m[2] = run /\ (m[1] > i \/ (m[1] = i /\ ppc \in {"create", "local"})))
\* The half message of m has not been sent.
Unsent(m) == m[2] > run \/ (m[2] = run /\ (m[1] > i \/ (m[1] = i /\ ppc = "create")))

CreatedFor(o) == \E n \in created : n[1] = o

\* The calls come one after the other.
InTurn ==
  /\ ppc \in {"local", "end"} => Current \in Message
  /\ ppc = "end" => /\ verdict \in {"commit", "rollback"}
                    /\ verdict = "commit" <=> Current \in created
  /\ \A m \in created : ~Before(m)
  /\ \A m \in Message : Unsent(m) => broker[m] = "none"

\* What is said to the broker, or was answered, is true of the orders.
TruthTold ==
  /\ \A o \in orderMap : CreatedFor(o)
  /\ \A m \in Message :
       /\ <<m, "commit">> \in ends => CreatedFor(m[1])
       /\ <<m, "rollback">> \in ends \/ broker[m] = "rolledback" \/ answer[m] = "false"
            => m \notin created /\ Past(m)

OrderInv == TypeOK /\ InTurn /\ TruthTold /\ NoPhantomOrder

-----------------------------------------------------------------------------
LEMMA MessagePair ==
  ASSUME NEW m \in Message
  PROVE  /\ m[1] \in Int /\ m[2] \in Int /\ m = <<m[1], m[2]>>
         /\ 1 <= m[1] /\ m[1] <= Orders
BY OrderAssumption DEF Message

LEMMA NotBoth ==
  ASSUME TypeOK, NEW m \in Message
  PROVE  /\ Past(m) => ~Before(m) /\ m # Current
         /\ Before(m) /\ m # Current => ~Past(m)
         /\ run \in Int /\ i \in Int
BY MessagePair, OrderAssumption DEF TypeOK, Past, Before, Current

LEMMA Initially == Init => OrderInv
BY OrderAssumption, MessagePair
   DEF Init, OrderInv, TypeOK, InTurn, TruthTold, NoPhantomOrder, Visible, Unsent, Before, Past

LEMMA TypeStep ==
  ASSUME OrderInv, [Next]_vars
  PROVE  TypeOK'
<1> USE OrderAssumption DEF OrderInv, TypeOK
<1>1. Current \in Message => i <= Orders
  BY MessagePair DEF Current
<1>2. CASE SendHalf
  BY <1>2 DEF SendHalf
<1>3. CASE SendFails
  BY <1>1, <1>3 DEF SendFails, Return
<1>4. CASE ExecuteLocalTransaction
  <2>1. Current \in Message /\ i \in 1 .. Orders
    BY <1>1, <1>4 DEF ExecuteLocalTransaction, InTurn
  <2>2. orderMap' \subseteq 1 .. Orders /\ created' \subseteq Message
        /\ verdict' \in {"commit", "rollback"} /\ ppc' = "end"
    BY <1>4, <2>1 DEF ExecuteLocalTransaction
  <2>3. QED
    BY <1>4, <2>2 DEF ExecuteLocalTransaction
<1>5. CASE EndTransaction
  BY <1>1, <1>5 DEF EndTransaction, Return, InTurn
<1>6. CASE Close \/ Crash \/ Restart
  <2>1. CASE Close
    BY <2>1 DEF Close
  <2>2. CASE Crash
    BY <2>2 DEF Crash
  <2>3. CASE Restart
    <3>1. run' \in 1 .. Runs /\ i' \in 1 .. Orders + 1
      BY <2>3 DEF Restart
    <3>2. QED
      BY <2>3, <3>1 DEF Restart
  <2>4. QED
    BY <1>6, <2>1, <2>2, <2>3
<1>7. ASSUME NEW m \in Message, CheckLocalTransaction(m) \/ CheckUnanswered(m)
      PROVE  TypeOK'
  <2>1. /\ checks' = [checks EXCEPT ![m] = @ + 1] /\ checks[m] < MaxChecks
        /\ UNCHANGED <<run, i, ppc, verdict, orderMap, created, answer, broker, seen>>
        /\ ends' \subseteq ends \cup {<<m, "commit">>}
    BY <1>7 DEF CheckLocalTransaction, CheckUnanswered
  <2>2. QED
    BY <2>1
<1>8. ASSUME NEW m \in Message, Decide(m)
      PROVE  TypeOK'
  BY <1>8 DEF Decide
<1>9. ASSUME NEW m \in Message, Discard(m) \/ ConsumeMessage(m) \/ ReconsumeLater(m)
      PROVE  TypeOK'
  BY <1>9 DEF Discard, ConsumeMessage, ReconsumeLater
<1>10. CASE UNCHANGED vars
  BY <1>10 DEF vars
<1>11. QED
  BY <1>2, <1>3, <1>4, <1>5, <1>6, <1>7, <1>8, <1>9, <1>10 DEF Next, CreateOrder, BrokerStep

LEMMA TurnStep ==
  ASSUME OrderInv, TypeOK', [Next]_vars
  PROVE  InTurn'
<1> USE MessagePair DEF OrderInv, InTurn, Before, Unsent
<1>0. /\ run \in Int /\ i \in Int /\ created \subseteq Message
      /\ ppc \in {"create", "local", "end", "closed", "crashed"}
      /\ broker \in [Message -> {"none", "half", "committed", "consumed", "rolledback", "discarded"}]
  BY OrderAssumption DEF TypeOK
<1>1. CASE SendHalf
  BY <1>0, <1>1 DEF SendHalf, Current
<1>2. CASE SendFails
  BY <1>0, <1>2 DEF SendFails, Return, Current
<1>3. CASE ExecuteLocalTransaction
  BY <1>0, <1>3 DEF ExecuteLocalTransaction, Current
<1>4. CASE EndTransaction
  BY <1>0, <1>4 DEF EndTransaction, Return, Current
<1>5. CASE Close \/ Crash \/ Restart
  BY <1>0, <1>5 DEF Close, Crash, Restart, Current
<1>6. ASSUME NEW m \in Message, BrokerStep(m) \/ ReconsumeLater(m)
      PROVE  InTurn'
  <2>1. UNCHANGED <<run, i, ppc, verdict, created>>
    BY <1>6 DEF BrokerStep, CheckLocalTransaction, CheckUnanswered, Decide, Discard, ConsumeMessage,
           ReconsumeLater
  <2>2. \A n \in Message : broker[n] = "none" => broker'[n] = "none"
    BY <1>0, <1>6
       DEF BrokerStep, CheckLocalTransaction, CheckUnanswered, Decide, Discard, ConsumeMessage,
           ReconsumeLater
  <2>3. QED
    BY <2>1, <2>2 DEF Current
<1>7. CASE UNCHANGED vars
  BY <1>7 DEF vars, Current
<1>8. QED
  BY <1>1, <1>2, <1>3, <1>4, <1>5, <1>6, <1>7 DEF Next, CreateOrder

LEMMA TruthStep ==
  ASSUME OrderInv, TypeOK', InTurn', [Next]_vars
  PROVE  TruthTold' /\ NoPhantomOrder'
<1> USE DEF OrderInv, TruthTold, NoPhantomOrder, CreatedFor, Visible
<1>0. /\ run \in Int /\ i \in Int /\ created \subseteq Message
      /\ ends \subseteq Message \X {"commit", "rollback"}
      /\ broker \in [Message -> {"none", "half", "committed", "consumed", "rolledback", "discarded"}]
      /\ answer \in [Message -> {"none", "true", "false"}]
  BY OrderAssumption DEF TypeOK
<1>1. CASE SendHalf
  <2>1. broker[Current] = "none" /\ Current \in Message
    BY <1>0, <1>1, MessagePair DEF SendHalf, InTurn, Unsent, Current
  <2>2. QED
    BY <1>0, <1>1, <2>1, MessagePair DEF SendHalf, Past
<1>2. CASE SendFails
  <2>1. broker[Current] = "none" /\ Current \in Message /\ Current \notin created
    BY <1>0, <1>2, MessagePair DEF SendFails, InTurn, Unsent, Before, Current
  <2>2. \A m \in Message : Past(m) => Past(m)'
    BY <1>0, <1>2, MessagePair DEF SendFails, Return, Past
  <2>3. \A m \in Message : m = Current => Past(m)'
    BY <1>0, <1>2 DEF SendFails, Return, Past, Current
  <2>4. /\ \A m \in Message : answer'[m] = "false" => answer[m] = "false" \/ m = Current
        /\ \A m \in Message : m # Current => broker'[m] = broker[m]
        /\ broker'[Current] \in {"none", "half"}
    BY <1>0, <1>2, <2>1 DEF SendFails, Return
  <2>5. /\ UNCHANGED <<orderMap, created, seen>>
        /\ ends' \subseteq ends \cup {<<Current, "rollback">>}
    BY <1>2 DEF SendFails
  <2>6. QED
    BY <2>1, <2>2, <2>3, <2>4, <2>5
<1>3. CASE ExecuteLocalTransaction
  <2>1. Current \in Message /\ ~Past(Current)
    BY <1>0, <1>3 DEF ExecuteLocalTransaction, InTurn, Past, Current
  <2>2. \A m \in Message : Past(m)' <=> Past(m)
    BY <1>3 DEF ExecuteLocalTransaction, Past
  <2>3. /\ UNCHANGED <<answer, broker, ends, seen>>
        /\ \A o \in orderMap' : o \in orderMap \/ (o = i /\ Current \in created')
        /\ created \subseteq created' /\ created' \subseteq created \cup {Current}
    BY <1>3 DEF ExecuteLocalTransaction
  <2>4. \A o \in orderMap' : \E n \in created' : n[1] = o
    BY <2>3 DEF Current
  <2>5. QED
    BY <2>1, <2>2, <2>3, <2>4
<1>4. CASE EndTransaction
  <2>1. Current \in Message
    BY <1>4 DEF EndTransaction, InTurn
  <2>2. \A m \in Message : Past(m) => Past(m)'
    BY <1>0, <1>4, MessagePair DEF EndTransaction, Return, Past
  <2>3. Current[1] = i /\ Current[2] = run /\ i' = i + 1 /\ run' = run
    BY <1>4 DEF EndTransaction, Return, Current
  <2>4. verdict = "commit" => Current \in created
    BY <1>4 DEF EndTransaction, InTurn
  <2>5. verdict = "rollback" => Current \notin created
    BY <1>4 DEF EndTransaction, InTurn
  <2>6. \A m \in Message : answer'[m] = "false" => answer[m] = "false"
    BY <1>0, <1>4, <2>1 DEF EndTransaction, Return
  <2>7. \A m \in Message, d \in {"commit", "rollback"} :
          <<m, d>> \in ends' => <<m, d>> \in ends \/ (m = Current /\ d = verdict)
    BY <1>4 DEF EndTransaction
  <2>8. UNCHANGED <<orderMap, created, broker, seen>>
    BY <1>4 DEF EndTransaction
  <2>9. \A m \in Message : m = Current => Past(m)'
    BY <1>0, <2>3 DEF Past
  <2>10. QED
    BY <2>2, <2>3, <2>4, <2>5, <2>6, <2>7, <2>8, <2>9
<1>5. CASE Close \/ Crash \/ Restart
  <2>1. \A m \in Message : Past(m) => Past(m)'
    BY <1>0, <1>5, MessagePair DEF Close, Crash, Restart, Past
  <2>2. orderMap' \subseteq orderMap /\ UNCHANGED <<created, ends, broker, answer, seen>>
    BY <1>5 DEF Close, Crash, Restart
  <2>3. QED
    BY <2>1, <2>2
<1>6. ASSUME NEW m \in Message, CheckLocalTransaction(m) \/ CheckUnanswered(m)
      PROVE  TruthTold' /\ NoPhantomOrder'
  <2>1. \A n \in Message : Past(n)' <=> Past(n)
    BY <1>6 DEF CheckLocalTransaction, CheckUnanswered, Past
  <2>2. QED
    BY <1>6, <2>1 DEF CheckLocalTransaction, CheckUnanswered
<1>7. ASSUME NEW m \in Message, Decide(m)
      PROVE  TruthTold' /\ NoPhantomOrder'
  <2>1. \A n \in Message : Past(n)' <=> Past(n)
    BY <1>7 DEF Decide, Past
  <2>2. PICK d \in {"commit", "rollback"} :
          /\ <<m, d>> \in ends
          /\ ends' = ends \ {<<m, d>>}
          /\ broker' = [broker EXCEPT ![m] =
               IF @ # "half" THEN @ ELSE IF d = "commit" THEN "committed" ELSE "rolledback"]
    BY <1>7 DEF Decide
  <2>3. UNCHANGED <<orderMap, created, answer, seen>> /\ ends' \subseteq ends
    BY <1>7, <2>2 DEF Decide
  <2>4. \A n \in Message : broker'[n] = "rolledback" =>
          broker[n] = "rolledback" \/ <<n, "rollback">> \in ends
    BY <1>0, <2>2
  <2>5. \A n \in Message : broker'[n] \in {"committed", "consumed"} =>
          broker[n] \in {"committed", "consumed"} \/ <<n, "commit">> \in ends
    BY <1>0, <2>2
  <2>6. \A n \in Message : broker[n] \in {"committed", "consumed"} =>
          broker'[n] \in {"committed", "consumed"}
    BY <1>0, <2>2
  <2>7. QED
    BY <2>1, <2>3, <2>4, <2>5, <2>6
<1>8. ASSUME NEW m \in Message, Discard(m) \/ ConsumeMessage(m) \/ ReconsumeLater(m)
      PROVE  TruthTold' /\ NoPhantomOrder'
  <2>1. \A n \in Message : Past(n)' <=> Past(n)
    BY <1>8 DEF Discard, ConsumeMessage, ReconsumeLater, Past
  <2>2. QED
    BY <1>0, <1>8, <2>1 DEF Discard, ConsumeMessage, ReconsumeLater
<1>9. CASE UNCHANGED vars
  <2>1. \A n \in Message : Past(n)' <=> Past(n)
    BY <1>9 DEF vars, Past
  <2>2. QED
    BY <1>9, <2>1 DEF vars
<1>10. QED
  BY <1>1, <1>2, <1>3, <1>4, <1>5, <1>6, <1>7, <1>8, <1>9 DEF Next, CreateOrder, BrokerStep

LEMMA OrderInvHolds == Spec => []OrderInv
<1>1. OrderInv /\ [Next]_vars => OrderInv'
  BY TypeStep, TurnStep, TruthStep DEF OrderInv
<1>2. QED
  BY <1>1, Initially, PTL DEF Spec

\* The types of the state of the order system, the broker and the cart.
THEOREM OrderTypes == Spec => []TypeOK
BY OrderInvHolds, PTL DEF OrderInv

\* What the shopping cart processes was created by createOrder() in some run; what
\* the broker rolls back, or createOrder() reports as failed, was not.
THEOREM NoOrderOutOfNothing == Spec => []NoPhantomOrder
BY OrderInvHolds, PTL DEF OrderInv

=============================================================================
