-------------------------- MODULE OrderTransaction --------------------------
(***************************************************************************)
(* MessageQueue/.../rocketmq/trans: the order system sends a half message, *)
(* creates the order as its local transaction, and tells the broker to     *)
(* commit or to roll back; the shopping cart consumes committed messages.  *)
(* The broker is external: it keeps half messages, asks back about those   *)
(* it has heard nothing of, gives up after MaxChecks questions, and        *)
(* delivers a committed message at least once.  Messages to it may be lost *)
(* or late.  The order system may crash; its orders are in memory, and a   *)
(* restarted main() begins again with the first order.                     *)
(***************************************************************************)
EXTENDS Integers, FiniteSets

CONSTANTS Orders,     \* main() creates orders 1 .. Orders (10)
          Runs,       \* bound: how often main() is started
          Again,      \* bound: orders a restarted main() gets to
          MaxChecks   \* transactionCheckMax of the broker

ASSUME OrderAssumption ==
  Orders \in Nat \ {0} /\ Again \in 1 .. Orders /\ Runs \in Nat \ {0} /\ MaxChecks \in Nat \ {0}

\* <<orderID, the run that sent it>>
Message == ((1 .. Orders) \X {1}) \cup ((1 .. Again) \X (2 .. Runs))

VARIABLES
  run,        \* which start of main() this is
  i,          \* the order main() is at
  ppc,        \* "create", "local" transaction, "end" transaction, "closed", "crashed"
  verdict,    \* the LocalTransactionState to be sent
  orderMap,   \* OrderDao
  created,    \* history: the calls that have put their order
  answer,     \* what createOrder returned
  broker,     \* what the broker knows of each message
  checks,     \* check-backs so far
  ends,       \* commits and rollbacks on their way
  seen        \* messages the shopping cart has processed

vars == <<run, i, ppc, verdict, orderMap, created, answer, broker, checks, ends, seen>>

Current == <<i, run>>

TypeOK ==
  /\ run \in 1 .. Runs
  /\ i \in 1 .. Orders + 1
  /\ ppc \in {"create", "local", "end", "closed", "crashed"}
  /\ verdict \in {"none", "commit", "rollback"}
  /\ orderMap \subseteq 1 .. Orders
  /\ created \subseteq Message
  /\ answer \in [Message -> {"none", "true", "false"}]
  /\ broker \in [Message -> {"none", "half", "committed", "consumed", "rolledback", "discarded"}]
  /\ checks \in [Message -> 0 .. MaxChecks]
  /\ ends \subseteq Message \X {"commit", "rollback"}
  /\ seen \subseteq Message

Init ==
  /\ run = 1
  /\ i = 1
  /\ ppc = "create"
  /\ verdict = "none"
  /\ orderMap = {}
  /\ created = {}
  /\ answer = [m \in Message |-> "none"]
  /\ broker = [m \in Message |-> "none"]
  /\ checks = [m \in Message |-> 0]
  /\ ends = {}
  /\ seen = {}

-----------------------------------------------------------------------------
(* CreateOrderService: main() calls createOrder() for one order after the  *)
(* other.                                                                  *)

Return(what) ==
  /\ answer' = [answer EXCEPT ![Current] = what]
  /\ i' = i + 1
  /\ ppc' = "create"

SendHalf ==
  /\ ppc = "create"
  /\ Current \in Message
  /\ broker' = [broker EXCEPT ![Current] = "half"]
  /\ ppc' = "local"
  /\ UNCHANGED <<run, i, verdict, orderMap, created, answer, checks, ends, seen>>

\* An exception, or a status other than SEND_OK: no local transaction; the
\* half message may have been stored all the same.  After a bad status the client
\* library ends the transaction with ROLLBACK, one-way as well.
SendFails ==
  /\ ppc = "create"
  /\ Current \in Message
  /\ \E b \in {"none", "half"} :
       /\ broker' = [broker EXCEPT ![Current] = b]
       /\ ends' \in {ends} \cup (IF b = "half" THEN {ends \cup {<<Current, "rollback">>}} ELSE {})
  /\ Return("false")
  /\ UNCHANGED <<run, verdict, orderMap, created, checks, seen>>

\* Check-backs may come before, between and after these two steps.
ExecuteLocalTransaction ==
  /\ ppc = "local"
  /\ \/ /\ orderMap' = orderMap \cup {i}
        /\ created' = created \cup {Current}
        /\ verdict' = "commit"
     \/ /\ UNCHANGED <<orderMap, created>>
        /\ verdict' = "rollback"
  /\ ppc' = "end"
  /\ UNCHANGED <<run, i, answer, broker, checks, ends, seen>>

\* endTransaction is sent one-way; createOrder answers by the status of the
\* half message, whatever became of the local transaction.
EndTransaction ==
  /\ ppc = "end"
  /\ ends' \in {ends, ends \cup {<<Current, verdict>>}}
  /\ verdict' = "none"
  /\ Return("true")
  /\ UNCHANGED <<run, orderMap, created, broker, checks, seen>>

\* After its last order main() closes the producer.
Close ==
  /\ ppc = "create"
  /\ Current \notin Message
  /\ ppc' = "closed"
  /\ UNCHANGED <<run, i, verdict, orderMap, created, answer, broker, checks, ends, seen>>

Crash ==
  /\ ppc \notin {"closed", "crashed"}
  /\ ppc' = "crashed"
  /\ verdict' = "none"
  /\ orderMap' = {}
  /\ UNCHANGED <<run, i, created, answer, broker, checks, ends, seen>>

Restart ==
  /\ ppc \in {"closed", "crashed"}
  /\ run < Runs
  /\ run' = run + 1
  /\ i' = 1
  /\ ppc' = "create"
  /\ orderMap' = {}
  /\ UNCHANGED <<verdict, created, answer, broker, checks, ends, seen>>

-----------------------------------------------------------------------------
(* The broker, and OrderTransactionListener.checkLocalTransaction.         *)

Up == ppc \notin {"closed", "crashed"}

\* Faulty variant: an order that is not there is taken for a failed one.
CheckRollsBack(m) ==
  /\ Up
  /\ broker[m] = "half"
  /\ checks[m] < MaxChecks
  /\ checks' = [checks EXCEPT ![m] = @ + 1]
  /\ ends' = ends \cup {<<m, IF m[1] \in orderMap THEN "commit" ELSE "rollback">>}
  /\ UNCHANGED <<run, i, ppc, verdict, orderMap, created, answer, broker, seen>>

\* Faulty variant: the broker never stops asking.
CheckForEver(m) ==
  /\ Up
  /\ broker[m] = "half"
  /\ checks' = [checks EXCEPT ![m] = @ + 1]
  /\ ends' \in {ends} \cup
       (IF m[1] \in orderMap THEN {ends \cup {<<m, "commit">>}} ELSE {})
  /\ UNCHANGED <<run, i, ppc, verdict, orderMap, created, answer, broker, seen>>

\* COMMIT if the order exists, else UNKNOW, which changes nothing.
CheckLocalTransaction(m) ==
  /\ Up
  /\ broker[m] = "half"
  /\ checks[m] < MaxChecks
  /\ checks' = [checks EXCEPT ![m] = @ + 1]
  /\ ends' \in {ends} \cup
       (IF m[1] \in orderMap THEN {ends \cup {<<m, "commit">>}} ELSE {})
  /\ UNCHANGED <<run, i, ppc, verdict, orderMap, created, answer, broker, seen>>

\* A question to an order system that is closed or crashed has no answer, and
\* counts.
CheckUnanswered(m) ==
  /\ ~Up
  /\ broker[m] = "half"
  /\ checks[m] < MaxChecks
  /\ checks' = [checks EXCEPT ![m] = @ + 1]
  /\ UNCHANGED <<run, i, ppc, verdict, orderMap, created, answer, broker, ends, seen>>

\* The first decision to arrive counts.
Decide(m) ==
  /\ \E d \in {"commit", "rollback"} :
       /\ <<m, d>> \in ends
       /\ ends' = ends \ {<<m, d>>}
       /\ broker' = [broker EXCEPT ![m] =
            IF @ # "half" THEN @ ELSE IF d = "commit" THEN "committed" ELSE "rolledback"]
  /\ UNCHANGED <<run, i, ppc, verdict, orderMap, created, answer, checks, seen>>

\* Whatever is still undecided after the last question is given up.
Discard(m) ==
  /\ broker[m] = "half"
  /\ checks[m] = MaxChecks
  /\ broker' = [broker EXCEPT ![m] = "discarded"]
  /\ UNCHANGED <<run, i, ppc, verdict, orderMap, created, answer, checks, ends, seen>>

\* Faulty variant: acknowledged before it is processed.
AcknowledgeUnseen(m) ==
  /\ broker[m] = "committed"
  /\ seen' \in {seen, seen \cup {m}}
  /\ broker' = [broker EXCEPT ![m] = "consumed"]
  /\ UNCHANGED <<run, i, ppc, verdict, orderMap, created, answer, checks, ends>>

\* Faulty variant: RECONSUME_LATER is returned in any case.
ReconsumeForEver(m) ==
  /\ broker[m] = "committed"
  /\ seen' = seen \cup {m}
  /\ UNCHANGED <<run, i, ppc, verdict, orderMap, created, answer, broker, checks, ends>>

\* ShoppingCartService.consumeMessage, message by message of a batch.
ConsumeMessage(m) ==
  /\ broker[m] = "committed"
  /\ seen' = seen \cup {m}
  /\ broker' = [broker EXCEPT ![m] = "consumed"]
  /\ UNCHANGED <<run, i, ppc, verdict, orderMap, created, answer, checks, ends>>

\* RECONSUME_LATER, or CONSUME_SUCCESS does not reach the broker: a message that
\* was processed comes again.
ReconsumeLater(m) ==
  /\ broker[m] = "committed"
  /\ seen' = seen \cup {m}
  /\ UNCHANGED <<run, i, ppc, verdict, orderMap, created, answer, broker, checks, ends>>

-----------------------------------------------------------------------------
CreateOrder == SendHalf \/ SendFails \/ ExecuteLocalTransaction \/ EndTransaction

\* What the broker does about a message by itself, and the cart behind it.
BrokerStep(m) ==
  \/ CheckLocalTransaction(m)
  \/ CheckUnanswered(m)
  \/ Decide(m)
  \/ Discard(m)
  \/ ConsumeMessage(m)

Next ==
  \/ CreateOrder
  \/ Close
  \/ Crash
  \/ Restart
  \/ \E m \in Message : BrokerStep(m) \/ ReconsumeLater(m)

\* main() goes on to its close() while it does not crash; whether it crashes, or is
\* started again, is not its own choice.  The broker acts on what it has received,
\* asks back, and redelivers until a message is through.
Spec ==
  /\ Init /\ [][Next]_vars
  /\ WF_vars(CreateOrder \/ Close)
  /\ \A m \in Message : WF_vars(BrokerStep(m))
-----------------------------------------------------------------------------
Visible(m) == broker[m] \in {"committed", "consumed"}

\* The cart never hears of an order that was never created, whatever is lost,
\* late, asked twice or restarted; a message is rolled back only if its own
\* call created nothing; and a call that reports failure has created nothing.
\* (The converse fails: createOrder also answers true for a rolled-back order.)
NoPhantomOrder ==
  \A m \in Message :
    /\ Visible(m) => \E n \in created : n[1] = m[1]
    /\ broker[m] = "rolledback" => m \notin created
    /\ answer[m] = "false" => m \notin created
    /\ m \in seen => Visible(m)

\* In the end every created order has reached the shopping cart, wherever main()
\* closes, crashes or is restarted, unless the broker has given it up: all that it
\* was told was lost or came too late, and all its questions went unanswered or to
\* a process that did not know the order.
OrderArrives ==
  <>[](\A m \in created : m \in seen \/ broker[m] = "discarded")

\* In the end whatever the broker holds is settled: committed messages are processed
\* by the cart and acknowledged, and every other half message is rolled back or
\* given up, whether the order system is up, closed or crashed.
EverythingSettles ==
  <>[](\A m \in Message :
         \/ broker[m] = "consumed" /\ m \in seen
         \/ broker[m] \in {"none", "rolledback", "discarded"})
=============================================================================
