---------------------------- MODULE TaskExecutor ----------------------------
(***************************************************************************)
(* What a thread pool of doc/Language/CPP/Concurency promises to the code  *)
(* that submits callables to it, with no thread, queue or lock in sight:   *)
(* a submitted task is started at most once, a started task runs to its    *)
(* end, and a task is thrown away only once the pool is being destroyed.   *)
(* WorkStealingPool and QueuePools are shown to implement this module.     *)
(***************************************************************************)
EXTENDS Naturals

CONSTANT Task               \* the callables handed to submit()

VARIABLES state,            \* [Task -> Phase]
          closing           \* the destruction of the pool has begun

vars == <<state, closing>>

Phase == {"unborn", "queued", "running", "done", "dropped"}

TypeOK ==
  /\ state \in [Task -> Phase]
  /\ closing \in BOOLEAN

Init ==
  /\ state = [t \in Task |-> "unborn"]
  /\ closing = FALSE

Move(S, from, to) ==
  /\ S # {}
  /\ \A t \in S : state[t] = from
  /\ state' = [t \in Task |-> IF t \in S THEN to ELSE state[t]]
  /\ UNCHANGED closing

Submit(t) == Move({t}, "unborn", "queued")

Start(t) == Move({t}, "queued", "running")

Finish(t) == Move({t}, "running", "done")

Close ==
  /\ ~closing
  /\ closing' = TRUE
  /\ UNCHANGED state

\* A queue is destroyed with everything that is still in it.
Drop(S) == closing /\ Move(S, "queued", "dropped")

\* A running task submits to a pool that is being torn down under it.
Refuse(t) == closing /\ Move({t}, "unborn", "dropped")

Next ==
  \/ \E t \in Task : Submit(t) \/ Start(t) \/ Finish(t) \/ Refuse(t)
  \/ \E S \in SUBSET Task : Drop(S)
  \/ Close

Spec == Init /\ [][Next]_vars
=============================================================================
