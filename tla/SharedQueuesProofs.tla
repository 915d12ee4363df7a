-------------------------- MODULE SharedQueuesProofs --------------------------
(***************************************************************************)
(* The producer and consumer programs consume every item once and in       *)
(* order, and lose no wake-up and no token, for every loop bound and every *)
(* number of consumers.                                                    *)
(***************************************************************************)
EXTENDS SharedQueues, SequenceTheorems, FiniteSetTheorems, TLAPS

-----------------------------------------------------------------------------
(* What is done to a sequence, index by index.                             *)

LEMMA Appended ==
  ASSUME NEW S, NEW q \in Seq(S), NEW e \in S
  PROVE  /\ Append(q, e) \in Seq(S)
         /\ Len(q) \in Nat /\ Len(Append(q, e)) = Len(q) + 1
         /\ \A i \in 1 .. Len(q) + 1 : Append(q, e)[i] = IF i = Len(q) + 1 THEN e ELSE q[i]
BY AppendProperties, LenProperties

LEMMA PutInFront ==
  ASSUME NEW S, NEW q \in Seq(S), NEW e \in S
  PROVE  /\ <<e>> \o q \in Seq(S)
         /\ Len(q) \in Nat /\ Len(<<e>> \o q) = Len(q) + 1
         /\ \A i \in 1 .. Len(q) + 1 : (<<e>> \o q)[i] = IF i = 1 THEN e ELSE q[i - 1]
<1>1. <<e>> \in Seq(S) /\ Len(<<e>>) = 1 /\ <<e>>[1] = e /\ Len(q) \in Nat
  BY LenProperties
<1>2. QED
  BY <1>1, ConcatProperties

LEMMA HeadTaken ==
  ASSUME NEW S, NEW q \in Seq(S), q # <<>>
  PROVE  /\ Head(q) = q[1] /\ Head(q) \in S /\ Tail(q) \in Seq(S)
         /\ Len(q) \in Nat \ {0} /\ Len(Tail(q)) = Len(q) - 1
         /\ \A i \in 1 .. Len(q) - 1 : Tail(q)[i] = q[i + 1]
<1>1. Len(q) \in Nat \ {0}
  BY EmptySeq
<1>2. QED
  BY <1>1, HeadTailProperties

LEMMA LastTaken ==
  ASSUME NEW S, NEW q \in Seq(S), q # <<>>
  PROVE  /\ Last(q) = q[Len(q)] /\ Last(q) \in S /\ Front(q) \in Seq(S)
         /\ Len(q) \in Nat \ {0} /\ Len(Front(q)) = Len(q) - 1
         /\ \A i \in 1 .. Len(q) - 1 : Front(q)[i] = q[i]
<1>1. Len(q) \in Nat \ {0} /\ Len(q) \in 1 .. Len(q)
  BY EmptySeq
<1>2. \A i \in 1 .. Len(q) : q[i] \in S
  BY ElementOfSeq
<1>3. /\ SubSeq(q, 1, Len(q) - 1) \in Seq(S)
      /\ Len(SubSeq(q, 1, Len(q) - 1)) = Len(q) - 1
      /\ \A i \in 1 .. Len(q) - 1 : SubSeq(q, 1, Len(q) - 1)[i] = q[i]
  <2> DEFINE n == Len(q) - 1
  <2>1. n \in Int /\ 1 \in Int /\ n >= 0 /\ \A i \in 1 .. n : q[i] \in S
    BY <1>1, <1>2
  <2> HIDE DEF n
  <2>2. /\ SubSeq(q, 1, n) \in Seq(S)
        /\ Len(SubSeq(q, 1, n)) = IF 1 <= n THEN n - 1 + 1 ELSE 0
        /\ \A i \in 1 .. n - 1 + 1 : SubSeq(q, 1, n)[i] = q[1 + i - 1]
    BY <2>1, SubSeqProperties
  <2>3. /\ Len(SubSeq(q, 1, n)) = n
        /\ \A i \in 1 .. n : SubSeq(q, 1, n)[i] = q[i]
    BY <2>1, <2>2
  <2>4. QED
    BY <2>2, <2>3 DEF n
<1>4. QED
  BY <1>1, <1>2, <1>3 DEF Last, Front

-----------------------------------------------------------------------------
(* Types, and who can be where in which program.                           *)

WhereTheyAre ==
  /\ demo \in {"one", "more"} => \A c \in Consumer : cpc[c] \in {"idle", "waiting", "out"}
  /\ demo = "more" => \A c \in Consumer : cpc[c] # "out"
  /\ demo = "semaphore" => \A c \in Consumer : cpc[c] \in {"idle", "token"}
  /\ demo = "stack" => \A c \in Consumer : cpc[c] \in {"idle", "pop"}
  /\ demo = "gui" => \A c \in Consumer : cpc[c] \in {"idle", "look", "run", "out"}
  /\ Single(demo) => \A c \in Consumer : c # 1 => cpc[c] = "out"
  /\ demo \in {"stack", "gui"} => ppc # "signal"
  /\ hand # None <=> demo = "gui" /\ cpc[1] = "run"
  /\ demo = "one" => value <= Bound + 1

Control == TypeOK /\ WhereTheyAre

LEMMA Consumers == 1 \in Consumer /\ Consumer \subseteq Nat /\ Bound \in Nat /\ None \notin Item
BY SharedQueuesAssumption DEF Consumer, None, Item

LEMMA ControlInit == Init => Control
<1> SUFFICES ASSUME Init PROVE Control
  OBVIOUS
<1>1. value \in 0 .. Bound + 2
  BY Consumers DEF Init
<1>2. cpc \in [Consumer -> {"idle", "waiting", "token", "pop", "look", "run", "out"}]
  BY DEF Init
<1>3. TypeOK
  <2>1. <<>> \in Seq(Item)
    BY EmptySeq
  <2>2. QED
    BY <1>1, <1>2, <2>1 DEF Init, TypeOK
<1>4. WhereTheyAre
  <2>1. \A c \in Consumer : cpc[c] = IF Single(demo) /\ c > 1 THEN "out" ELSE "idle"
    BY DEF Init
  <2>2. /\ demo = "more" \/ demo = "semaphore" \/ demo = "stack" => ~Single(demo)
        /\ Single(demo) => \A c \in Consumer : c # 1 => c > 1
    BY Consumers DEF Single, Consumer
  <2>3. hand = None /\ ppc = "make" /\ cpc[1] = "idle" /\ value \in {0, 1} /\ (demo = "one" => value = 0)
    BY <2>1, Consumers DEF Init
  <2>4. QED
    BY <2>1, <2>2, <2>3, Consumers DEF WhereTheyAre
<1>5. QED
  BY <1>3, <1>4 DEF Control

LEMMA ControlStep == Control /\ [Next]_vars => Control'
<1> SUFFICES ASSUME Control, [Next]_vars PROVE Control'
  OBVIOUS
<1> USE Consumers
<1>1. CASE Make
  <2>1. value \in Item /\ value + 1 \in 0 .. Bound + 2 /\ (demo = "one" => value + 1 <= Bound + 1)
    BY <1>1 DEF Make, Control, TypeOK, Item
  <2>2. tasks' \in Seq(Item)
    BY <1>1, <2>1, Appended, PutInFront DEF Make, Control, TypeOK
  <2>3. TypeOK'
    BY <1>1, <2>1, <2>2 DEF Make, Control, TypeOK
  <2>4. WhereTheyAre'
    BY <1>1, <2>1 DEF Make, Control, WhereTheyAre
  <2>5. QED
    BY <2>3, <2>4 DEF Control
<1>2. CASE Signal
  <2>1. sem' \in Nat
    BY <1>2 DEF Signal, Control, TypeOK
  <2>2. cpc' = cpc \/ \E c \in Consumer : cpc[c] = "waiting" /\ cpc' = [cpc EXCEPT ![c] = "idle"]
    BY <1>2 DEF Signal, Move
  <2>3. cpc' \in [Consumer -> {"idle", "waiting", "token", "pop", "look", "run", "out"}]
    BY <2>2 DEF Control, TypeOK
  <2>4. TypeOK'
    BY <1>2, <2>1, <2>3 DEF Signal, Control, TypeOK
  <2>5. WhereTheyAre'
    BY <1>2, <2>2 DEF Signal, Control, TypeOK, WhereTheyAre, Single
  <2>6. QED
    BY <2>4, <2>5 DEF Control
<1>3. CASE Quit
  BY <1>3 DEF Quit, Control, TypeOK, WhereTheyAre, Single
<1>4. ASSUME NEW c \in Consumer, Wait(c) \/ Spurious(c) \/ StackEmpty(c) \/ GuiCheck(c)
      PROVE  Control'
  <2>1. PICK to \in {"idle", "waiting", "pop", "look", "out"} : cpc' = [cpc EXCEPT ![c] = to]
    BY <1>4 DEF Wait, Spurious, StackEmpty, GuiCheck, Move
  <2>2. UNCHANGED <<demo, tasks, value, ppc, sem, stop, hand, ran>>
    BY <1>4 DEF Wait, Spurious, StackEmpty, GuiCheck
  <2>3. TypeOK'
    BY <2>1, <2>2 DEF Control, TypeOK
  <2>4. WhereTheyAre'
    BY <1>4 DEF Wait, Spurious, StackEmpty, GuiCheck, Move, Control, TypeOK, WhereTheyAre, Single
  <2>5. QED
    BY <2>3, <2>4 DEF Control
<1>5. ASSUME NEW c \in Consumer, ConsumeOne(c) \/ ConsumeMore(c) \/ ConsumeToken(c) \/ StackPop(c)
      PROVE  Control'
  <2>1. tasks' \in Seq(Item) /\ ran' \in Seq(Item)
    <3>1. \/ tasks' = tasks /\ ran' = ran
          \/ /\ tasks # <<>>
             /\ tasks' \in {Front(tasks), Tail(tasks)}
             /\ ran' \in {Append(ran, Head(tasks)), Append(ran, Last(tasks))}
      BY <1>5 DEF ConsumeOne, ConsumeMore, ConsumeToken, StackPop
    <3>2. tasks # <<>> => /\ Head(tasks) \in Item /\ Last(tasks) \in Item
                          /\ Tail(tasks) \in Seq(Item) /\ Front(tasks) \in Seq(Item)
      BY HeadTaken, LastTaken DEF Control, TypeOK
    <3>3. /\ tasks \in Seq(Item) /\ ran \in Seq(Item)
          /\ tasks # <<>> => /\ Append(ran, Head(tasks)) \in Seq(Item)
                             /\ Append(ran, Last(tasks)) \in Seq(Item)
      BY <3>2, Appended DEF Control, TypeOK
    <3>4. QED
      BY <3>1, <3>2, <3>3
  <2>2. /\ UNCHANGED <<demo, value, ppc, sem, stop, hand>>
        /\ \/ cpc' = cpc
           \/ cpc' = [cpc EXCEPT ![c] = "idle"]
           \/ cpc' = [cpc EXCEPT ![c] = "out"]
    BY <1>5 DEF ConsumeOne, ConsumeMore, ConsumeToken, StackPop, Move
  <2>3. TypeOK'
    BY <2>1, <2>2 DEF Control, TypeOK
  <2>4. WhereTheyAre'
    BY <1>5, <2>2 DEF ConsumeOne, ConsumeMore, ConsumeToken, StackPop, Move, Control, TypeOK,
                      WhereTheyAre, Single
  <2>5. QED
    BY <2>3, <2>4 DEF Control
<1>6. ASSUME NEW c \in Consumer, Acquire(c)
      PROVE  Control'
  <2>1. TypeOK'
    BY <1>6 DEF Acquire, Move, Control, TypeOK
  <2>2. WhereTheyAre'
    BY <1>6 DEF Acquire, Move, Control, TypeOK, WhereTheyAre, Single
  <2>3. QED
    BY <2>1, <2>2 DEF Control
<1>7. ASSUME NEW c \in Consumer, GuiTake(c)
      PROVE  Control'
  <2>1. demo = "gui" /\ c = 1
    BY <1>7 DEF GuiTake, Control, TypeOK, WhereTheyAre, Single, Demo
  <2>2. tasks' \in Seq(Item) /\ (tasks # <<>> => hand' \in Item /\ hand' # None)
    <3>1. tasks # <<>> => Head(tasks) \in Item /\ Head(tasks) # None /\ Tail(tasks) \in Seq(Item)
      BY HeadTaken DEF Control, TypeOK
    <3>2. QED
      BY <1>7, <3>1 DEF GuiTake, Control, TypeOK
  <2>3. TypeOK'
    BY <1>7, <2>2 DEF GuiTake, Move, Control, TypeOK
  <2>4. WhereTheyAre'
    BY <1>7, <2>1, <2>2 DEF GuiTake, Move, Control, TypeOK, WhereTheyAre, Single
  <2>5. QED
    BY <2>3, <2>4 DEF Control
<1>8. ASSUME NEW c \in Consumer, GuiRun(c)
      PROVE  Control'
  <2>1. demo = "gui" /\ c = 1
    BY <1>8 DEF GuiRun, Control, TypeOK, WhereTheyAre, Single, Demo
  <2>2. ran' \in Seq(Item)
    BY <1>8, <2>1, Appended DEF GuiRun, Control, TypeOK, WhereTheyAre
  <2>3. TypeOK'
    BY <1>8, <2>2 DEF GuiRun, Move, Control, TypeOK
  <2>4. WhereTheyAre'
    BY <1>8, <2>1 DEF GuiRun, Move, Control, TypeOK, WhereTheyAre, Single
  <2>5. QED
    BY <2>3, <2>4 DEF Control
<1>9. CASE UNCHANGED vars
  BY <1>9 DEF vars, Control, TypeOK, WhereTheyAre, Single
<1>10. QED
  BY <1>1, <1>2, <1>3, <1>4, <1>5, <1>6, <1>7, <1>8, <1>9 DEF Next, Produce, Consume

LEMMA ControlHolds == Spec => []Control
BY ControlInit, ControlStep, PTL DEF Spec

\* Items, values and places keep their types in all programs.
THEOREM QueuesTypeCorrect == Spec => []TypeOK
<1>1. Control => TypeOK
  BY DEF Control
<1>2. QED
  BY <1>1, ControlHolds, PTL

-----------------------------------------------------------------------------
(* Where the numbered items are.                                           *)

InHand == IF hand = None THEN 0 ELSE 1

\* The list is filled at the front: its last element is the oldest.
OneInOrder ==
  /\ Len(ran) + Len(tasks) = value
  /\ \A i \in 1 .. Len(ran) : ran[i] = i - 1
  /\ \A j \in 1 .. Len(tasks) : tasks[j] = value - j
  /\ cpc[1] = "out" => Len(ran) = Bound + 1

QueueInOrder ==
  /\ Len(ran) + InHand + Len(tasks) = value - 1
  /\ \A i \in 1 .. Len(ran) : ran[i] = i
  /\ hand # None => hand = Len(ran) + 1
  /\ \A j \in 1 .. Len(tasks) : tasks[j] = Len(ran) + InHand + j

\* No item is twice in the stack, twice with the consumers, or in both.
StackApart ==
  /\ \A i \in 1 .. Len(ran) : ran[i] < value
  /\ \A j \in 1 .. Len(tasks) : tasks[j] < value
  /\ \A i, k \in 1 .. Len(ran) : ran[i] = ran[k] => i = k
  /\ \A j, k \in 1 .. Len(tasks) : tasks[j] = tasks[k] => j = k
  /\ \A i \in 1 .. Len(ran), j \in 1 .. Len(tasks) : ran[i] # tasks[j]

Order ==
  /\ demo = "one" => OneInOrder
  /\ demo \in {"more", "gui"} => QueueInOrder
  /\ demo = "stack" => StackApart

OrderInv == Control /\ Order

LEMMA OrderInit == Init => Order
<1> SUFFICES ASSUME Init PROVE Order
  OBVIOUS
<1>1. /\ tasks = <<>> /\ ran = <<>> /\ hand = None
      /\ value = IF demo = "one" THEN 0 ELSE 1
      /\ demo = "one" => cpc[1] # "out"
  BY Consumers DEF Init
<1>2. Len(tasks) = 0 /\ Len(ran) = 0
  BY <1>1
<1>3. QED
  BY <1>1, <1>2 DEF Order, OneInOrder, QueueInOrder, StackApart, InHand

\* The steps that move an item, and in which program they are taken.
ItemMoves ==
  \/ Make
  \/ demo = "one" /\ ConsumeOne(1)
  \/ demo = "more" /\ \E c \in Consumer : ConsumeMore(c)
  \/ demo = "semaphore"
  \/ /\ demo = "stack"
     /\ tasks # <<>>
     /\ ran' = Append(ran, Last(tasks)) /\ tasks' = Front(tasks)
     /\ UNCHANGED <<value, hand>>
  \/ demo = "gui" /\ tasks # <<>> /\ GuiTake(1)
  \/ demo = "gui" /\ GuiRun(1)

LEMMA WhoMoves ==
  ASSUME Control, [Next]_vars
  PROVE  /\ demo' = demo
         /\ \/ ItemMoves
            \/ /\ UNCHANGED <<tasks, value, hand, ran>>
               /\ demo = "one" /\ cpc'[1] = "out" => cpc[1] = "out"
<1> USE Consumers
<1>1. CASE Make \/ Quit \/ UNCHANGED vars
  BY <1>1 DEF Make, Quit, vars, ItemMoves
<1>2. CASE Signal
  BY <1>2 DEF Signal, Move, Control, TypeOK
<1>3. ASSUME NEW c \in Consumer, Wait(c) \/ Spurious(c) \/ Acquire(c) \/ StackEmpty(c) \/ GuiCheck(c)
      PROVE  /\ UNCHANGED <<demo, tasks, value, hand, ran>>
             /\ demo = "one" /\ cpc'[1] = "out" => cpc[1] = "out"
  BY <1>3 DEF Wait, Spurious, Acquire, StackEmpty, GuiCheck, Move, Control, TypeOK
<1>4. ASSUME NEW c \in Consumer, ConsumeOne(c)
      PROVE  demo' = demo /\ demo = "one" /\ ConsumeOne(1)
  <2>1. c = 1
    BY <1>4 DEF ConsumeOne, Control, WhereTheyAre, Single
  <2>2. QED
    BY <1>4, <2>1 DEF ConsumeOne
<1>5. ASSUME NEW c \in Consumer, ConsumeMore(c)
      PROVE  demo' = demo /\ demo = "more" /\ ConsumeMore(c)
  BY <1>5 DEF ConsumeMore
<1>6. ASSUME NEW c \in Consumer, ConsumeToken(c)
      PROVE  demo' = demo /\ demo = "semaphore"
  BY <1>6 DEF ConsumeToken, Control, TypeOK, Demo, WhereTheyAre
<1>7. ASSUME NEW c \in Consumer, StackPop(c)
      PROVE  /\ demo' = demo /\ demo = "stack"
             /\ \/ UNCHANGED <<tasks, value, hand, ran>>
                \/ /\ tasks # <<>>
                   /\ ran' = Append(ran, Last(tasks)) /\ tasks' = Front(tasks)
                   /\ UNCHANGED <<value, hand>>
  BY <1>7 DEF StackPop, Control, TypeOK, Demo, WhereTheyAre
<1>8. ASSUME NEW c \in Consumer, GuiTake(c)
      PROVE  /\ demo' = demo /\ demo = "gui"
             /\ UNCHANGED <<tasks, value, hand, ran>> \/ (tasks # <<>> /\ GuiTake(1))
  <2>1. demo = "gui" /\ c = 1
    BY <1>8 DEF GuiTake, Control, TypeOK, WhereTheyAre, Single, Demo
  <2>2. QED
    BY <1>8, <2>1 DEF GuiTake
<1>9. ASSUME NEW c \in Consumer, GuiRun(c)
      PROVE  demo' = demo /\ demo = "gui" /\ GuiRun(1)
  <2>1. demo = "gui" /\ c = 1
    BY <1>9 DEF GuiRun, Control, TypeOK, WhereTheyAre, Single, Demo
  <2>2. QED
    BY <1>9, <2>1 DEF GuiRun
<1>10. Make \/ Quit \/ Signal \/ UNCHANGED vars
       \/ \E c \in Consumer :
            \/ Wait(c) \/ Spurious(c) \/ Acquire(c) \/ StackEmpty(c) \/ GuiCheck(c)
            \/ ConsumeOne(c) \/ ConsumeMore(c) \/ ConsumeToken(c) \/ StackPop(c)
            \/ GuiTake(c) \/ GuiRun(c)
  BY DEF Next, Produce, Consume
<1>11. CASE Signal
  BY <1>2, <1>11 DEF Signal
<1>12. QED
  BY <1>1, <1>2, <1>11, <1>3, <1>4, <1>5, <1>6, <1>7, <1>8, <1>9, <1>10 DEF ItemMoves

LEMMA OneStep ==
  ASSUME Control, [Next]_vars, demo = "one", OneInOrder
  PROVE  OneInOrder'
<1> USE Consumers
<1>1. tasks \in Seq(Item) /\ ran \in Seq(Item) /\ value \in Nat
  BY DEF Control, TypeOK
<1>2. Len(ran) \in Nat /\ Len(tasks) \in Nat
  BY <1>1, LenProperties
<1>3. CASE Make
  <2>1. value \in Item /\ tasks' = <<value>> \o tasks /\ value' = value + 1 /\ ran' = ran /\ cpc' = cpc
    BY <1>1, <1>3 DEF Make, Item
  <2>2. /\ Len(tasks') = Len(tasks) + 1
        /\ \A j \in 1 .. Len(tasks) + 1 : tasks'[j] = IF j = 1 THEN value ELSE tasks[j - 1]
    BY <1>1, <2>1, PutInFront
  <2>3. ASSUME NEW j \in 1 .. Len(tasks') PROVE tasks'[j] = value' - j
    <3>1. j \in 1 .. Len(tasks) + 1 /\ tasks'[j] = IF j = 1 THEN value ELSE tasks[j - 1]
      BY <2>2
    <3>2. j # 1 => j - 1 \in 1 .. Len(tasks) /\ tasks[j - 1] = value - (j - 1)
      BY <1>2, <3>1 DEF OneInOrder
    <3>3. QED
      BY <1>1, <2>1, <3>1, <3>2
  <2>4. QED
    BY <1>1, <1>2, <2>1, <2>2, <2>3 DEF OneInOrder
<1>4. CASE ConsumeOne(1)
  <2>1. /\ tasks # <<>> /\ tasks' = Front(tasks) /\ ran' = Append(ran, Last(tasks)) /\ value' = value
        /\ cpc' = [cpc EXCEPT ![1] = IF Last(tasks) < Bound THEN "idle" ELSE "out"]
    BY <1>4 DEF ConsumeOne, Move
  <2>2. /\ Last(tasks) = tasks[Len(tasks)] /\ Last(tasks) \in Item
        /\ Len(tasks) \in Nat \ {0} /\ Len(tasks') = Len(tasks) - 1
        /\ \A j \in 1 .. Len(tasks) - 1 : tasks'[j] = tasks[j]
    BY <1>1, <2>1, LastTaken
  <2>3. /\ Len(ran') = Len(ran) + 1
        /\ \A i \in 1 .. Len(ran) + 1 : ran'[i] = IF i = Len(ran) + 1 THEN Last(tasks) ELSE ran[i]
    BY <1>1, <2>1, <2>2, Appended
  <2>4. Last(tasks) = Len(ran) /\ value <= Bound + 1
    BY <1>1, <1>2, <2>2 DEF OneInOrder, Control, WhereTheyAre
  <2>5. cpc'[1] = "out" => Len(ran') = Bound + 1
    <3>1. cpc'[1] = IF Last(tasks) < Bound THEN "idle" ELSE "out"
      BY <2>1 DEF Control, TypeOK
    <3>2. QED
      BY <1>1, <1>2, <2>2, <2>3, <2>4, <3>1 DEF OneInOrder
  <2>6. Len(ran') + Len(tasks') = value'
    <3>1. Len(ran) + Len(tasks) = value
      BY DEF OneInOrder
    <3>2. value' = value /\ Len(tasks') = Len(tasks) - 1 /\ Len(ran') = Len(ran) + 1
      BY <2>1, <2>2, <2>3
    <3>3. QED
      BY <1>2, <3>1, <3>2
  <2>7. ASSUME NEW i \in 1 .. Len(ran') PROVE ran'[i] = i - 1
    <3>1. i \in 1 .. Len(ran) + 1 /\ ran'[i] = IF i = Len(ran) + 1 THEN Len(ran) ELSE ran[i]
      BY <2>3, <2>4
    <3>2. i # Len(ran) + 1 => i \in 1 .. Len(ran) /\ ran[i] = i - 1
      BY <1>2, <3>1 DEF OneInOrder
    <3>3. QED
      BY <1>2, <3>1, <3>2
  <2>8. ASSUME NEW j \in 1 .. Len(tasks') PROVE tasks'[j] = value' - j
    BY <1>2, <2>1, <2>2 DEF OneInOrder
  <2>9. QED
    BY <2>5, <2>6, <2>7, <2>8 DEF OneInOrder
<1>5. CASE UNCHANGED <<tasks, value, hand, ran>> /\ (cpc'[1] = "out" => cpc[1] = "out")
  BY <1>5 DEF OneInOrder
<1>6. QED
  BY <1>3, <1>4, <1>5, WhoMoves DEF ItemMoves

LEMMA QueueStep ==
  ASSUME Control, [Next]_vars, demo \in {"more", "gui"}, QueueInOrder
  PROVE  QueueInOrder'
<1> USE Consumers
<1>1. tasks \in Seq(Item) /\ ran \in Seq(Item) /\ value \in Nat /\ InHand \in {0, 1}
  BY DEF Control, TypeOK, InHand
<1>2. Len(ran) \in Nat /\ Len(tasks) \in Nat
  BY <1>1, LenProperties
<1>3. CASE Make
  <2>1. /\ value \in Item /\ tasks' = Append(tasks, value) /\ value' = value + 1
        /\ ran' = ran /\ hand' = hand /\ InHand' = InHand
    BY <1>1, <1>3 DEF Make, Item, InHand
  <2>2. /\ Len(tasks') = Len(tasks) + 1
        /\ \A j \in 1 .. Len(tasks) + 1 : tasks'[j] = IF j = Len(tasks) + 1 THEN value ELSE tasks[j]
    BY <1>1, <2>1, Appended
  <2>3. Len(ran') + InHand' + Len(tasks') = value' - 1
    BY <1>1, <1>2, <2>1, <2>2 DEF QueueInOrder
  <2>4. ASSUME NEW j \in 1 .. Len(tasks') PROVE tasks'[j] = Len(ran') + InHand' + j
    <3>1. j \in 1 .. Len(tasks) + 1 /\ tasks'[j] = IF j = Len(tasks) + 1 THEN value ELSE tasks[j]
      BY <2>2
    <3>2. j # Len(tasks) + 1 => j \in 1 .. Len(tasks) /\ tasks[j] = Len(ran) + InHand + j
      BY <1>2, <3>1 DEF QueueInOrder
    <3>3. value = Len(ran) + InHand + Len(tasks) + 1
      BY <1>1, <1>2 DEF QueueInOrder
    <3>4. Len(ran') = Len(ran) /\ InHand' = InHand
      BY <2>1
    <3>5. CASE j = Len(tasks) + 1
      <4>1. tasks'[j] = value
        BY <3>1, <3>5
      <4>2. QED
        BY <1>1, <1>2, <3>3, <3>4, <3>5, <4>1
    <3>6. CASE j # Len(tasks) + 1
      <4>1. tasks'[j] = tasks[j]
        BY <3>1, <3>6
      <4>2. QED
        BY <3>2, <3>4, <3>6, <4>1
    <3>7. QED
      BY <3>5, <3>6
  <2>5. QED
    BY <2>1, <2>3, <2>4 DEF QueueInOrder
<1>4. ASSUME NEW c \in Consumer, demo = "more", ConsumeMore(c)
      PROVE  QueueInOrder'
  <2>1. /\ tasks # <<>> /\ tasks' = Tail(tasks) /\ ran' = Append(ran, Head(tasks))
        /\ value' = value /\ hand' = hand /\ hand = None /\ InHand = 0 /\ InHand' = 0
    BY <1>4 DEF ConsumeMore, Control, WhereTheyAre, InHand
  <2>2. /\ Head(tasks) = tasks[1] /\ Head(tasks) \in Item
        /\ Len(tasks) \in Nat \ {0} /\ Len(tasks') = Len(tasks) - 1
        /\ \A j \in 1 .. Len(tasks) - 1 : tasks'[j] = tasks[j + 1]
    BY <1>1, <2>1, HeadTaken
  <2>3. /\ Len(ran') = Len(ran) + 1
        /\ \A i \in 1 .. Len(ran) + 1 : ran'[i] = IF i = Len(ran) + 1 THEN Head(tasks) ELSE ran[i]
    BY <1>1, <2>1, <2>2, Appended
  <2>4. QED
    BY <1>1, <1>2, <2>1, <2>2, <2>3 DEF QueueInOrder
<1>5. CASE demo = "gui" /\ tasks # <<>> /\ GuiTake(1)
  <2>1. /\ tasks # <<>> /\ tasks' = Tail(tasks) /\ ran' = ran /\ value' = value
        /\ hand' = Head(tasks) /\ hand = None /\ InHand = 0
    BY <1>5 DEF GuiTake, Control, WhereTheyAre, InHand
  <2>2. /\ Head(tasks) = tasks[1] /\ Head(tasks) \in Item
        /\ Len(tasks) \in Nat \ {0} /\ Len(tasks') = Len(tasks) - 1
        /\ \A j \in 1 .. Len(tasks) - 1 : tasks'[j] = tasks[j + 1]
    BY <1>1, <2>1, HeadTaken
  <2>3. InHand' = 1
    BY <2>1, <2>2 DEF InHand
  <2>4. QED
    BY <1>1, <1>2, <2>1, <2>2, <2>3 DEF QueueInOrder
<1>6. CASE demo = "gui" /\ GuiRun(1)
  <2>1. /\ tasks' = tasks /\ ran' = Append(ran, hand) /\ value' = value
        /\ hand' = None /\ hand # None /\ InHand = 1 /\ InHand' = 0 /\ hand \in Item
    BY <1>6 DEF GuiRun, Control, TypeOK, WhereTheyAre, InHand
  <2>2. /\ Len(ran') = Len(ran) + 1
        /\ \A i \in 1 .. Len(ran) + 1 : ran'[i] = IF i = Len(ran) + 1 THEN hand ELSE ran[i]
    BY <1>1, <2>1, Appended
  <2>3. QED
    BY <1>1, <1>2, <2>1, <2>2 DEF QueueInOrder
<1>7. CASE UNCHANGED <<tasks, value, hand, ran>>
  BY <1>7 DEF QueueInOrder, InHand
<1>8. QED
  BY <1>3, <1>4, <1>5, <1>6, <1>7, WhoMoves DEF ItemMoves

LEMMA StackStep ==
  ASSUME Control, [Next]_vars, demo = "stack", StackApart
  PROVE  StackApart'
<1> USE Consumers
<1>1. tasks \in Seq(Item) /\ ran \in Seq(Item) /\ value \in Nat
  BY DEF Control, TypeOK
<1>2. Len(ran) \in Nat /\ Len(tasks) \in Nat
  BY <1>1, LenProperties
<1>3. /\ \A i \in 1 .. Len(ran) : ran[i] \in Nat
      /\ \A j \in 1 .. Len(tasks) : tasks[j] \in Nat
  <2>1. Item \subseteq Nat
    BY DEF Item
  <2>2. QED
    BY <1>1, <2>1, ElementOfSeq
<1>4. CASE Make
  <2>1. value \in Item /\ tasks' = Append(tasks, value) /\ value' = value + 1 /\ ran' = ran
    BY <1>1, <1>4 DEF Make, Item
  <2>2. /\ Len(tasks') = Len(tasks) + 1
        /\ \A j \in 1 .. Len(tasks) + 1 : tasks'[j] = IF j = Len(tasks) + 1 THEN value ELSE tasks[j]
    BY <1>1, <2>1, Appended
  <2>3. QED
    BY <1>1, <1>2, <1>3, <2>1, <2>2 DEF StackApart
<1>5. CASE tasks # <<>> /\ ran' = Append(ran, Last(tasks)) /\ tasks' = Front(tasks)
           /\ UNCHANGED <<value, hand>>
  <2>1. /\ Last(tasks) = tasks[Len(tasks)] /\ Last(tasks) \in Item
        /\ Len(tasks) \in Nat \ {0} /\ Len(tasks') = Len(tasks) - 1
        /\ \A j \in 1 .. Len(tasks) - 1 : tasks'[j] = tasks[j]
    BY <1>1, <1>5, LastTaken
  <2>2. /\ Len(ran') = Len(ran) + 1
        /\ \A i \in 1 .. Len(ran) + 1 : ran'[i] = IF i = Len(ran) + 1 THEN Last(tasks) ELSE ran[i]
    BY <1>1, <1>5, <2>1, Appended
  <2>3. /\ \A j \in 1 .. Len(tasks') : tasks'[j] < value /\ tasks'[j] # Last(tasks)
        /\ Last(tasks) < value
        /\ \A i \in 1 .. Len(ran) : ran[i] < value /\ ran[i] # Last(tasks)
    BY <1>2, <1>3, <2>1 DEF StackApart
  <2>4. \A i \in 1 .. Len(ran') : ran'[i] < value'
    BY <1>2, <1>5, <2>2, <2>3
  <2>5. \A i, k \in 1 .. Len(ran') : ran'[i] = ran'[k] => i = k
    <3>1. \A i \in 1 .. Len(ran') :
            i # Len(ran) + 1 => i \in 1 .. Len(ran) /\ ran'[i] = ran[i]
      BY <1>2, <2>2
    <3>2. \A i \in 1 .. Len(ran') : i = Len(ran) + 1 => ran'[i] = Last(tasks)
      BY <1>2, <2>2
    <3>3. \A i, k \in 1 .. Len(ran) : ran[i] = ran[k] => i = k
      BY DEF StackApart
    <3>4. QED
      BY <2>3, <3>1, <3>2, <3>3
  <2>6. \A j, k \in 1 .. Len(tasks') : tasks'[j] = tasks'[k] => j = k
    BY <2>1 DEF StackApart
  <2>7. \A i \in 1 .. Len(ran'), j \in 1 .. Len(tasks') : ran'[i] # tasks'[j]
    <3>1. \A j \in 1 .. Len(tasks') : j \in 1 .. Len(tasks) /\ tasks'[j] = tasks[j]
      BY <2>1
    <3>2. \A i \in 1 .. Len(ran), j \in 1 .. Len(tasks) : ran[i] # tasks[j]
      BY DEF StackApart
    <3>3. \A i \in 1 .. Len(ran') : ran'[i] = Last(tasks) \/ \E k \in 1 .. Len(ran) : ran'[i] = ran[k]
      BY <1>2, <2>2
    <3>4. QED
      BY <2>3, <3>1, <3>2, <3>3
  <2>8. QED
    BY <1>5, <2>3, <2>4, <2>5, <2>6, <2>7 DEF StackApart
<1>6. CASE UNCHANGED <<tasks, value, hand, ran>>
  BY <1>6 DEF StackApart
<1>7. QED
  BY <1>4, <1>5, <1>6, WhoMoves DEF ItemMoves

LEMMA OrderHolds == Spec => []OrderInv
<1>1. Init => OrderInv
  BY ControlInit, OrderInit DEF OrderInv
<1>2. OrderInv /\ [Next]_vars => OrderInv'
  BY ControlStep, WhoMoves, OneStep, QueueStep, StackStep DEF OrderInv, Order
<1>3. QED
  BY <1>1, <1>2, PTL DEF Spec

\* What the consumers handled, what they hold and what is queued, put together.
LEMMA HandledInOrder == OrderInv => InOrder
<1> SUFFICES ASSUME OrderInv PROVE InOrder
  OBVIOUS
<1> USE Consumers
<1> DEFINE held == IF hand = None THEN <<>> ELSE <<hand>>
           queued == IF demo = "one" THEN Reverse(tasks) ELSE tasks
           done == ran \o held
<1>1. /\ tasks \in Seq(Item) /\ ran \in Seq(Item) /\ value \in Nat
      /\ Len(ran) \in Nat /\ Len(tasks) \in Nat /\ InHand \in {0, 1}
  <2>1. tasks \in Seq(Item) /\ ran \in Seq(Item) /\ value \in Nat
    BY DEF OrderInv, Control, TypeOK
  <2>2. QED
    BY <2>1, LenProperties DEF InHand
<1>2. held \in Seq(Item) /\ Len(held) = InHand /\ (hand # None => held[1] = hand)
  BY DEF OrderInv, Control, TypeOK, InHand
<1>3. /\ done \in Seq(Item) /\ Len(done) = Len(ran) + InHand
      /\ \A i \in 1 .. Len(ran) + InHand :
           done[i] = IF i <= Len(ran) THEN ran[i] ELSE held[i - Len(ran)]
  <2> HIDE DEF held
  <2>1. QED
    BY <1>1, <1>2, ConcatProperties
<1>4. /\ queued \in Seq(Item) /\ Len(queued) = Len(tasks)
      /\ \A j \in 1 .. Len(tasks) :
           queued[j] = IF demo = "one" THEN tasks[Len(tasks) - j + 1] ELSE tasks[j]
  <2>1. \A j \in 1 .. Len(tasks) : tasks[j] \in Item
    BY <1>1, ElementOfSeq
  <2>2. Reverse(tasks) \in [1 .. Len(tasks) -> Item]
    BY <1>1, <2>1 DEF Reverse
  <2>3. Reverse(tasks) \in Seq(Item) /\ Len(Reverse(tasks)) = Len(tasks)
    BY <1>1, <2>2
  <2>4. \A j \in 1 .. Len(tasks) : Reverse(tasks)[j] = tasks[Len(tasks) - j + 1]
    BY DEF Reverse
  <2>5. QED
    BY <1>1, <2>3, <2>4
<1> HIDE DEF held, queued, done
<1>5. Handled = done \o queued
  BY DEF Handled, done, held, queued
<1>6. /\ Handled \in Seq(Item) /\ Len(Handled) = Len(ran) + InHand + Len(tasks)
      /\ \A i \in 1 .. Len(Handled) :
           Handled[i] = IF i <= Len(ran) + InHand THEN done[i] ELSE queued[i - (Len(ran) + InHand)]
  <2> DEFINE n == Len(ran) + InHand
  <2>1. n \in Nat /\ Len(done) = n /\ done \in Seq(Item)
    BY <1>1, <1>3
  <2> HIDE DEF n
  <2>2. /\ done \o queued \in Seq(Item) /\ Len(done \o queued) = n + Len(tasks)
        /\ \A i \in 1 .. n + Len(tasks) :
             (done \o queued)[i] = IF i <= n THEN done[i] ELSE queued[i - n]
    <3>1. queued \in Seq(Item) /\ Len(queued) = Len(tasks)
      BY <1>4
    <3>2. /\ done \o queued \in Seq(Item) /\ Len(done \o queued) = Len(done) + Len(queued)
          /\ \A i \in 1 .. Len(done) + Len(queued) :
               (done \o queued)[i] = IF i <= Len(done) THEN done[i] ELSE queued[i - Len(done)]
      BY <2>1, <3>1, ConcatProperties
    <3>3. QED
      BY <2>1, <3>1, <3>2
  <2>3. QED
    BY <1>5, <2>2 DEF n
<1>7. ASSUME demo \in {"one", "more", "gui"}
      PROVE  Handled = [i \in 1 .. Len(Handled) |-> IF demo = "one" THEN i - 1 ELSE i]
  <2>1. \A i \in 1 .. Len(Handled) : Handled[i] = IF demo = "one" THEN i - 1 ELSE i
    <3>1. CASE demo = "one"
      <4>1. OneInOrder /\ hand = None /\ InHand = 0
        BY <3>1 DEF OrderInv, Order, Control, WhereTheyAre, InHand
      <4>2. QED
        <5>1. ASSUME NEW i \in 1 .. Len(ran) PROVE Handled[i] = i - 1
          BY <1>1, <1>3, <1>6, <4>1 DEF OneInOrder
        <5>2. ASSUME NEW i \in 1 .. Len(Handled), i > Len(ran) PROVE Handled[i] = i - 1
          <6>1. i - Len(ran) \in 1 .. Len(tasks) /\ Handled[i] = queued[i - Len(ran)]
            BY <1>1, <1>6, <4>1, <5>2
          <6>2. queued[i - Len(ran)] = tasks[Len(tasks) - (i - Len(ran)) + 1]
            BY <1>4, <3>1, <6>1
          <6>3. /\ Len(tasks) - (i - Len(ran)) + 1 \in 1 .. Len(tasks)
                /\ value - (Len(tasks) - (i - Len(ran)) + 1) = i - 1
            <7>1. value = Len(ran) + Len(tasks) /\ Len(ran) \in Nat /\ Len(tasks) \in Nat /\ i \in Int
              BY <1>1, <1>6, <4>1 DEF OneInOrder
            <7>2. QED
              BY <6>1, <7>1
          <6>4. QED
            BY <4>1, <6>1, <6>2, <6>3 DEF OneInOrder
        <5>3. QED
          BY <1>1, <1>6, <3>1, <4>1, <5>1, <5>2
    <3>2. CASE demo \in {"more", "gui"}
      <4>1. QueueInOrder
        BY <3>2 DEF OrderInv, Order
      <4>2. hand # None => held[1] = Len(ran) + 1
        BY <1>2, <4>1 DEF QueueInOrder
      <4>3. InHand = 1 <=> hand # None
        BY DEF InHand
      <4>4. QED
        <5>1. ASSUME NEW i \in 1 .. Len(ran) PROVE Handled[i] = i
          BY <1>1, <1>3, <1>6, <4>1 DEF QueueInOrder
        <5>2. ASSUME InHand = 1 PROVE Handled[Len(ran) + 1] = Len(ran) + 1
          BY <1>1, <1>3, <1>6, <4>2, <4>3, <5>2
        <5>3. ASSUME NEW i \in 1 .. Len(Handled), i > Len(ran) + InHand PROVE Handled[i] = i
          <6>1. /\ i - (Len(ran) + InHand) \in 1 .. Len(tasks)
                /\ Handled[i] = queued[i - (Len(ran) + InHand)]
            BY <1>1, <1>6, <5>3
          <6>2. queued[i - (Len(ran) + InHand)] = tasks[i - (Len(ran) + InHand)]
            BY <1>4, <3>2, <6>1
          <6>3. tasks[i - (Len(ran) + InHand)] = Len(ran) + InHand + (i - (Len(ran) + InHand))
            BY <4>1, <6>1 DEF QueueInOrder
          <6>4. QED
            BY <1>1, <6>1, <6>2, <6>3
        <5>4. ASSUME NEW i \in 1 .. Len(Handled)
              PROVE  i \in 1 .. Len(ran) \/ (InHand = 1 /\ i = Len(ran) + 1) \/ i > Len(ran) + InHand
          BY <1>1
        <5>5. QED
          BY <3>2, <5>1, <5>2, <5>3, <5>4
    <3>3. QED
      BY <1>7, <3>1, <3>2
  <2>2. Handled = [i \in 1 .. Len(Handled) |-> Handled[i]]
    BY <1>6, LenProperties
  <2>3. QED
    BY <2>1, <2>2
<1>8. ASSUME demo = "stack" PROVE IsInjective(Handled)
  <2>1. StackApart /\ InHand = 0
    BY <1>8 DEF OrderInv, Order, Control, WhereTheyAre, InHand
  <2>2. \A i \in 1 .. Len(Handled) : Handled[i] = IF i <= Len(ran) THEN ran[i] ELSE tasks[i - Len(ran)]
    <3>1. ASSUME NEW i \in 1 .. Len(Handled), i <= Len(ran) PROVE Handled[i] = ran[i]
      BY <1>1, <1>3, <1>6, <2>1, <3>1
    <3>2. ASSUME NEW i \in 1 .. Len(Handled), i > Len(ran) PROVE Handled[i] = tasks[i - Len(ran)]
      <4>1. i - Len(ran) \in 1 .. Len(tasks) /\ Handled[i] = queued[i - Len(ran)]
        BY <1>1, <1>6, <2>1, <3>2
      <4>2. QED
        BY <1>4, <1>8, <4>1
    <3>3. QED
      BY <1>1, <3>1, <3>2
  <2>3. DOMAIN Handled = 1 .. Len(ran) + Len(tasks) /\ Len(Handled) = Len(ran) + Len(tasks)
    BY <1>1, <1>6, <2>1, LenProperties
  <2>4. \A i, k \in 1 .. Len(ran) + Len(tasks) : Handled[i] = Handled[k] => i = k
    BY <1>1, <2>1, <2>2, <2>3 DEF StackApart
  <2>5. QED
    BY <2>3, <2>4 DEF IsInjective
<1>9. QED
  BY <1>7, <1>8 DEF InOrder

\* Every item is queued, held or consumed exactly once, and but for the stack
\* the consumers get the items in the order in which they were made.
THEOREM ItemsInOrder == Spec => []InOrder
BY OrderHolds, HandledInOrder, PTL

-----------------------------------------------------------------------------
(* Wake-ups.                                                               *)

\* The only consumer leaves no item behind.
LEMMA OneLeavesNothing ==
  ASSUME OrderInv, demo = "one", cpc[1] = "out"
  PROVE  tasks = <<>>
<1>1. /\ tasks \in Seq(Item) /\ Len(ran) \in Nat /\ Len(tasks) \in Nat /\ value \in Nat
      /\ value <= Bound + 1 /\ Len(ran) = Bound + 1 /\ Len(ran) + Len(tasks) = value
  <2>1. tasks \in Seq(Item) /\ ran \in Seq(Item)
    BY DEF OrderInv, Control, TypeOK
  <2>2. QED
    BY <2>1, LenProperties DEF OrderInv, Order, OneInOrder, Control, TypeOK, WhereTheyAre
<1>2. Len(tasks) = 0
  BY <1>1, Consumers
<1>3. QED
  BY <1>1, <1>2, EmptySeq

LEMMA WakeupStep ==
  ASSUME OrderInv, OrderInv', [Next]_vars, NoLostWakeup
  PROVE  NoLostWakeup'
<1> USE Consumers
<1>1. demo' = demo
  BY WhoMoves DEF OrderInv
<1> SUFFICES ASSUME demo \in {"one", "more"}, tasks' # <<>>
             PROVE  ppc' = "signal" \/ \E c \in Consumer : cpc'[c] = "idle"
  BY <1>1 DEF NoLostWakeup
<1>2. /\ cpc \in [Consumer -> {"idle", "waiting", "token", "pop", "look", "run", "out"}]
      /\ \A c \in Consumer : cpc[c] \in {"idle", "waiting", "out"}
      /\ demo = "more" => \A c \in Consumer : cpc[c] # "out"
  BY DEF OrderInv, Control, TypeOK, WhereTheyAre
<1>3. /\ demo = "one" => cpc'[1] # "out"
      /\ cpc'[1] \in {"idle", "waiting", "out"}
      /\ demo = "more" => cpc'[1] # "out"
  <2>1. (demo = "one" /\ cpc[1] = "out" => tasks = <<>>)'
    BY OneLeavesNothing, PTL
  <2>2. QED
    BY <1>1, <2>1 DEF OrderInv, Control, WhereTheyAre
<1>4. CASE Make
  BY <1>4 DEF Make, OrderInv, Control, TypeOK, WhereTheyAre
<1>5. CASE Signal
  <2>1. \/ \E c \in Consumer : cpc' = [cpc EXCEPT ![c] = "idle"]
        \/ (\A c \in Consumer : cpc[c] # "waiting") /\ cpc' = cpc
    BY <1>5 DEF Signal, Move
  <2>2. ASSUME NEW c \in Consumer, cpc' = [cpc EXCEPT ![c] = "idle"]
        PROVE  cpc'[c] = "idle"
    BY <1>2, <2>2
  <2>3. (\A c \in Consumer : cpc[c] # "waiting") /\ cpc' = cpc => cpc'[1] = "idle"
    BY <1>3
  <2>4. QED
    BY <2>1, <2>2, <2>3
<1>6. CASE Quit
  BY <1>6 DEF Quit
<1>7. ASSUME NEW c \in Consumer, Wait(c)
      PROVE  FALSE
  BY <1>7 DEF Wait
<1>8. ASSUME NEW c \in Consumer, Spurious(c)
      PROVE  cpc'[c] = "idle"
  BY <1>2, <1>8 DEF Spurious, Move
<1>9. ASSUME NEW c \in Consumer, ConsumeOne(c)
      PROVE  cpc'[1] = "idle"
  <2>1. /\ demo = "one" /\ c = 1
        /\ cpc' = [cpc EXCEPT ![1] = IF Last(tasks) < Bound THEN "idle" ELSE "out"]
    BY <1>9 DEF ConsumeOne, Move, OrderInv, Control, WhereTheyAre, Single
  <2>2. QED
    BY <1>2, <1>3, <2>1
<1>10. ASSUME NEW c \in Consumer, ConsumeMore(c)
       PROVE  cpc'[c] = "idle"
  BY <1>10 DEF ConsumeMore
<1>11. ASSUME NEW c \in Consumer,
              \/ Acquire(c) \/ ConsumeToken(c) \/ StackEmpty(c) \/ StackPop(c)
              \/ GuiCheck(c) \/ GuiTake(c) \/ GuiRun(c)
       PROVE  FALSE
  BY <1>2, <1>11 DEF Acquire, ConsumeToken, StackEmpty, StackPop, GuiCheck, GuiTake, GuiRun
<1>12. CASE UNCHANGED vars
  BY <1>12 DEF vars, NoLostWakeup
<1>13. QED
  BY <1>4, <1>5, <1>6, <1>7, <1>8, <1>9, <1>10, <1>11, <1>12 DEF Next, Produce, Consume

-----------------------------------------------------------------------------
(* Tokens.                                                                 *)

LEMMA TokensFinite == IsFiniteSet(At("token")) /\ Cardinality(At("token")) \in Nat
<1>1. At("token") \subseteq 1 .. MaxConsumer
  BY DEF At, Consumer
<1>2. IsFiniteSet(1 .. MaxConsumer)
  BY SharedQueuesAssumption, FS_Interval
<1>3. QED
  BY <1>1, <1>2, FS_Subset, FS_CardinalityType

LEMMA TokenStep ==
  ASSUME Control, [Next]_vars, TokensMatch
  PROVE  TokensMatch'
<1> USE Consumers
<1>1. demo' = demo
  BY WhoMoves
<1> SUFFICES ASSUME demo = "semaphore"
             PROVE  Len(tasks') = sem' + Cardinality(At("token")')
                                  + (IF ppc' = "signal" THEN 1 ELSE 0)
  BY <1>1 DEF TokensMatch
<1>2. /\ tasks \in Seq(Item) /\ ran \in Seq(Item) /\ sem \in Nat
      /\ cpc \in [Consumer -> {"idle", "waiting", "token", "pop", "look", "run", "out"}]
      /\ \A c \in Consumer : cpc[c] \in {"idle", "token"}
  BY DEF Control, TypeOK, WhereTheyAre
<1>3. Len(tasks) = sem + Cardinality(At("token")) + (IF ppc = "signal" THEN 1 ELSE 0)
  BY DEF TokensMatch
<1>4. Len(tasks) \in Nat /\ Cardinality(At("token")) \in Nat /\ IsFiniteSet(At("token"))
  BY <1>2, LenProperties, TokensFinite
<1>5. CASE Make
  <2>1. /\ value \in Item /\ tasks' = Append(tasks, value) /\ sem' = sem
        /\ ppc = "make" /\ ppc' = "signal" /\ cpc' = cpc
    BY <1>5 DEF Make, Control, TypeOK, Item
  <2>2. Len(tasks') = Len(tasks) + 1
    BY <1>2, <2>1, Appended
  <2>3. At("token")' = At("token")
    BY <2>1 DEF At
  <2>4. QED
    BY <1>2, <1>3, <1>4, <2>1, <2>2, <2>3
<1>6. CASE Signal
  <2>1. ppc = "signal" /\ ppc' = "make" /\ sem' = sem + 1 /\ tasks' = tasks /\ cpc' = cpc
    BY <1>6 DEF Signal
  <2>2. At("token")' = At("token")
    BY <2>1 DEF At
  <2>3. QED
    BY <1>2, <1>3, <1>4, <2>1, <2>2
<1>7. ASSUME NEW c \in Consumer, Acquire(c)
      PROVE  Len(tasks') = sem' + Cardinality(At("token")') + (IF ppc' = "signal" THEN 1 ELSE 0)
  <2>1. /\ cpc[c] = "idle" /\ sem > 0 /\ sem' = sem - 1 /\ tasks' = tasks /\ ppc' = ppc
        /\ cpc' = [cpc EXCEPT ![c] = "token"]
    BY <1>7 DEF Acquire, Move
  <2>2. At("token")' = At("token") \cup {c} /\ c \notin At("token")
    BY <1>2, <2>1 DEF At
  <2>3. Cardinality(At("token")') = Cardinality(At("token")) + 1
    BY <1>4, <2>2, FS_AddElement
  <2>4. QED
    BY <1>2, <1>3, <1>4, <2>1, <2>3
<1>8. ASSUME NEW c \in Consumer, ConsumeToken(c)
      PROVE  Len(tasks') = sem' + Cardinality(At("token")') + (IF ppc' = "signal" THEN 1 ELSE 0)
  <2>1. /\ cpc[c] = "token" /\ cpc' = [cpc EXCEPT ![c] = "idle"]
        /\ sem' = sem /\ ppc' = ppc /\ (tasks # <<>> => tasks' = Front(tasks))
    BY <1>8 DEF ConsumeToken, Move
  <2>2. At("token")' = At("token") \ {c} /\ c \in At("token")
    BY <1>2, <2>1 DEF At
  <2>3. Cardinality(At("token")') = Cardinality(At("token")) - 1 /\ Cardinality(At("token")) # 0
    BY <1>4, <2>2, FS_RemoveElement, FS_EmptySet
  <2>4. Len(tasks) > 0
    BY <1>2, <1>3, <1>4, <2>3
  <2>5. Len(tasks') = Len(tasks) - 1
    <3>1. tasks # <<>>
      BY <2>4
    <3>2. QED
      BY <1>2, <2>1, <3>1, LastTaken
  <2>6. QED
    BY <1>2, <1>3, <1>4, <2>1, <2>3, <2>5
<1>9. CASE UNCHANGED vars
  BY <1>3, <1>9 DEF vars, At
<1>10. ~Quit /\ \A c \in Consumer :
         /\ ~Wait(c) /\ ~Spurious(c) /\ ~ConsumeOne(c) /\ ~ConsumeMore(c)
         /\ ~StackEmpty(c) /\ ~StackPop(c) /\ ~GuiCheck(c) /\ ~GuiTake(c) /\ ~GuiRun(c)
  BY <1>2 DEF Quit, Wait, Spurious, ConsumeOne, ConsumeMore, StackEmpty, StackPop,
              GuiCheck, GuiTake, GuiRun
<1>11. QED
  BY <1>5, <1>6, <1>7, <1>8, <1>9, <1>10 DEF Next, Produce, Consume

LEMMA TokensAndWakeupsInit == Init => TokensAndWakeups
<1> SUFFICES ASSUME Init PROVE TokensAndWakeups
  OBVIOUS
<1>1. tasks = <<>> /\ sem = 0 /\ ppc = "make" /\ \A c \in Consumer : cpc[c] # "token"
  BY DEF Init
<1>2. At("token") = {} /\ Len(tasks) = 0
  BY <1>1 DEF At
<1>3. QED
  BY <1>1, <1>2, FS_EmptySet DEF TokensAndWakeups, TokensMatch, NoLostWakeup

\* Whoever acquired a token finds a task, and nobody sleeps through an item.
THEOREM NothingSleptThrough == Spec => []TokensAndWakeups
<1>1. OrderInv /\ OrderInv' /\ [Next]_vars /\ TokensAndWakeups => TokensAndWakeups'
  BY WakeupStep, TokenStep DEF TokensAndWakeups, OrderInv
<1>2. QED
  BY <1>1, OrderHolds, TokensAndWakeupsInit, PTL DEF Spec
=============================================================================
