---------------------------- MODULE SharedQueues ----------------------------
(***************************************************************************)
(* The producer/consumer programs of doc/Language/CPP/Concurency: two with *)
(* a condition variable (one consumer, several consumers), two with a      *)
(* semaphore (C++11 and C++20, same text), one with a locked stack, and    *)
(* the GUI thread that runs posted tasks.  demo says which program a       *)
(* behaviour is of.  A lock scope is one action: nothing in it can be seen *)
(* by another thread before it ends.                                       *)
(***************************************************************************)
EXTENDS Integers, Sequences, FiniteSets, SequencesExt

CONSTANTS Bound,       \* the producer's loop bound (10)
          MaxConsumer \* consumer threads (5)

ASSUME SharedQueuesAssumption == Bound \in Nat \ {0} /\ MaxConsumer \in Nat \ {0}

VARIABLES demo,   \* the program
          tasks,  \* q, tasks or gstack, front first; the top of the stack is last
          value,  \* what the producer makes next
          ppc,    \* producer: "make" an item, "signal" it, or "out"
          cpc,    \* where each consumer is
          sem,    \* the semaphore's count
          stop,   \* shutdown (GUI program)
          hand,   \* the task moved out of the queue and not run yet
          ran     \* the items consumed, oldest first

vars == <<demo, tasks, value, ppc, cpc, sem, stop, hand, ran>>

Demo == {"one", "more", "semaphore", "stack", "gui"}
Item == 0 .. Bound + 1
None == -1
Single(d) == d \in {"one", "gui"}
Consumer == 1 .. MaxConsumer

TypeOK ==
  /\ demo \in Demo
  /\ tasks \in Seq(Item)
  /\ value \in 0 .. Bound + 2
  /\ ppc \in {"make", "signal", "out"}
  /\ cpc \in [Consumer -> {"idle", "waiting", "token", "pop", "look", "run", "out"}]
  /\ sem \in Nat
  /\ stop \in BOOLEAN
  /\ hand \in Item \cup {None}
  /\ ran \in Seq(Item)

\* All but the one-consumer program number their items from 1.
Init ==
  /\ demo \in Demo
  /\ tasks = <<>>
  /\ value = IF demo = "one" THEN 0 ELSE 1
  /\ ppc = "make"
  /\ cpc = [c \in Consumer |-> IF Single(demo) /\ c > 1 THEN "out" ELSE "idle"]
  /\ sem = 0
  /\ stop = FALSE
  /\ hand = None
  /\ ran = <<>>

Move(c, to) == cpc' = [cpc EXCEPT ![c] = to]

-----------------------------------------------------------------------------
(* The producer.                                                           *)

\* The item is in the queue before anyone is told.  The endless producers are
\* cut off after Bound + 1 items.
Make ==
  /\ ppc = "make"
  /\ value <= (IF demo = "one" THEN Bound ELSE Bound + 1)
  /\ tasks' = IF demo = "one" THEN <<value>> \o tasks ELSE Append(tasks, value)
  /\ value' = value + 1
  /\ ppc' = IF demo \in {"stack", "gui"} THEN "make" ELSE "signal"
  /\ UNCHANGED <<demo, cpc, sem, stop, hand, ran>>

\* Faulty variant: the notification is left out.
ForgetToSignal ==
  /\ ppc = "signal"
  /\ ppc' = "make"
  /\ UNCHANGED <<demo, tasks, value, cpc, sem, stop, hand, ran>>

\* notify_one wakes one waiting thread, if there is any; post adds a token.
Signal ==
  /\ ppc = "signal"
  /\ ppc' = "make"
  /\ IF demo = "semaphore"
     THEN sem' = sem + 1 /\ UNCHANGED cpc
     ELSE /\ UNCHANGED sem
          /\ \/ \E c \in Consumer : cpc[c] = "waiting" /\ Move(c, "idle")
             \/ (\A c \in Consumer : cpc[c] # "waiting") /\ UNCHANGED cpc
  /\ UNCHANGED <<demo, tasks, value, stop, hand, ran>>

\* The user of the GUI program types q, after at least one task was posted.
Quit ==
  /\ demo = "gui"
  /\ ppc = "make"
  /\ value > 1
  /\ ppc' = "out"
  /\ stop' = TRUE
  /\ UNCHANGED <<demo, tasks, value, cpc, sem, hand, ran>>

Produce == Make \/ Signal

-----------------------------------------------------------------------------
(* Consumers on the condition variable.                                    *)

Wait(c) ==
  /\ demo \in {"one", "more"}
  /\ cpc[c] = "idle"
  /\ tasks = <<>>
  /\ Move(c, "waiting")
  /\ UNCHANGED <<demo, tasks, value, ppc, sem, stop, hand, ran>>

Spurious(c) ==
  /\ cpc[c] = "waiting"
  /\ Move(c, "idle")
  /\ UNCHANGED <<demo, tasks, value, ppc, sem, stop, hand, ran>>

\* The only consumer of the first program leaves with the last value.
ConsumeOne(c) ==
  /\ demo = "one"
  /\ cpc[c] = "idle"
  /\ tasks # <<>>
  /\ ran' = Append(ran, Last(tasks))
  /\ tasks' = Front(tasks)
  /\ Move(c, IF Last(tasks) < Bound THEN "idle" ELSE "out")
  /\ UNCHANGED <<demo, value, ppc, sem, stop, hand>>

\* Faulty variant: doTask on the front, pop_back.
ConsumeBack(c) ==
  /\ demo = "more"
  /\ cpc[c] = "idle"
  /\ tasks # <<>>
  /\ ran' = Append(ran, Head(tasks))
  /\ tasks' = Front(tasks)
  /\ UNCHANGED <<demo, value, ppc, cpc, sem, stop, hand>>

ConsumeMore(c) ==
  /\ demo = "more"
  /\ cpc[c] = "idle"
  /\ tasks # <<>>
  /\ ran' = Append(ran, Head(tasks))
  /\ tasks' = Tail(tasks)
  /\ UNCHANGED <<demo, value, ppc, cpc, sem, stop, hand>>

(* Consumers on the semaphore.                                             *)

Acquire(c) ==
  /\ demo = "semaphore"
  /\ cpc[c] = "idle"
  /\ sem > 0
  /\ sem' = sem - 1
  /\ Move(c, "token")
  /\ UNCHANGED <<demo, tasks, value, ppc, stop, hand, ran>>

\* The front task is done, the back one is removed: with two or more queued,
\* the newest is lost and the oldest is done again.
ConsumeToken(c) ==
  /\ cpc[c] = "token"
  /\ Move(c, "idle")
  /\ IF tasks = <<>>
     THEN UNCHANGED <<tasks, ran>>
     ELSE ran' = Append(ran, Head(tasks)) /\ tasks' = Front(tasks)
  /\ UNCHANGED <<demo, value, ppc, sem, stop, hand>>

(* Consumers of the stack: empty() and pop() are two critical sections.    *)

StackEmpty(c) ==
  /\ demo = "stack"
  /\ cpc[c] = "idle"
  /\ tasks # <<>>
  /\ Move(c, "pop")
  /\ UNCHANGED <<demo, tasks, value, ppc, sem, stop, hand, ran>>

\* Faulty variant: pop() trusts the earlier empty() and delivers garbage.
StackPopUnchecked(c) ==
  /\ cpc[c] = "pop"
  /\ Move(c, "idle")
  /\ ran' = Append(ran, IF tasks = <<>> THEN None ELSE Last(tasks))
  /\ tasks' = IF tasks = <<>> THEN tasks ELSE Front(tasks)
  /\ UNCHANGED <<demo, value, ppc, sem, stop, hand>>

\* pop() on an empty stack throws StackEmpty, which the loop swallows.
StackPop(c) ==
  /\ cpc[c] = "pop"
  /\ Move(c, "idle")
  /\ IF tasks = <<>>
     THEN UNCHANGED <<tasks, ran>>
     ELSE ran' = Append(ran, Last(tasks)) /\ tasks' = Front(tasks)
  /\ UNCHANGED <<demo, value, ppc, sem, stop, hand>>

(* The GUI thread: it polls, and runs a task outside the lock.             *)

\* Faulty variant: for (;;).
GuiNeverStops(c) ==
  /\ demo = "gui"
  /\ cpc[c] = "idle"
  /\ Move(c, "look")
  /\ UNCHANGED <<demo, tasks, value, ppc, sem, stop, hand, ran>>

GuiCheck(c) ==
  /\ demo = "gui"
  /\ cpc[c] = "idle"
  /\ Move(c, IF stop THEN "out" ELSE "look")
  /\ UNCHANGED <<demo, tasks, value, ppc, sem, stop, hand, ran>>

GuiTake(c) ==
  /\ cpc[c] = "look"
  /\ IF tasks = <<>>
     THEN Move(c, "idle") /\ UNCHANGED <<tasks, hand>>
     ELSE Move(c, "run") /\ hand' = Head(tasks) /\ tasks' = Tail(tasks)
  /\ UNCHANGED <<demo, value, ppc, sem, stop, ran>>

GuiRun(c) ==
  /\ cpc[c] = "run"
  /\ Move(c, "idle")
  /\ ran' = Append(ran, hand)
  /\ hand' = None
  /\ UNCHANGED <<demo, tasks, value, ppc, sem, stop>>

-----------------------------------------------------------------------------
Consume(c) ==
  \/ Wait(c) \/ ConsumeOne(c) \/ ConsumeMore(c)
  \/ Acquire(c) \/ ConsumeToken(c)
  \/ StackEmpty(c) \/ StackPop(c)
  \/ GuiCheck(c) \/ GuiTake(c) \/ GuiRun(c)

Next ==
  \/ Produce
  \/ Quit
  \/ \E c \in Consumer : Consume(c) \/ Spurious(c)

\* Threads are scheduled; nobody has to type q, and no wakeup is spurious on
\* demand.
Spec ==
  /\ Init /\ [][Next]_vars
  /\ WF_vars(Produce)
  /\ \A c \in Consumer : WF_vars(Consume(c))
-----------------------------------------------------------------------------
At(where) == {c \in Consumer : cpc[c] = where}

\* Each item is somewhere exactly once and is consumed at most once, in the
\* order of production but for the stack; the semaphore program is left out,
\* it does one task and removes another.
Handled == ran \o (IF hand = None THEN <<>> ELSE <<hand>>)
             \o (IF demo = "one" THEN Reverse(tasks) ELSE tasks)

InOrder ==
  /\ demo \in {"one", "more", "gui"} =>
       Handled = [i \in 1 .. Len(Handled) |-> IF demo = "one" THEN i - 1 ELSE i]
  /\ demo = "stack" => IsInjective(Handled)

\* Whoever holds a token finds a task: tokens, wherever they are, never
\* outnumber the queued tasks, so the test for an empty queue after wait() never
\* fails.  And nobody sleeps through an item: if all consumers wait, the queue
\* is empty or the producer has yet to notify.
TokensMatch ==
  demo = "semaphore" =>
    Len(tasks) = sem + Cardinality(At("token")) + (IF ppc = "signal" THEN 1 ELSE 0)

NoLostWakeup ==
  demo \in {"one", "more"} /\ tasks # <<>> =>
    ppc = "signal" \/ \E c \in Consumer : cpc[c] = "idle"

TokensAndWakeups == TokensMatch /\ NoLostWakeup

\* A queue that is not empty is drained in the end, unless the GUI thread was
\* told to stop; the single consumer and a stopped GUI thread come to their end.
EverythingConsumed ==
  /\ tasks # <<>> ~> tasks = <<>> \/ stop
  /\ demo = "one" ~> cpc[1] = "out"
  /\ stop ~> cpc[1] = "out"
=============================================================================
