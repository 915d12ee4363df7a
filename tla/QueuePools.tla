----------------------------- MODULE QueuePools -----------------------------
(***************************************************************************)
(* The two simpler pools.  SimpleThreadPool2: every task goes through one  *)
(* locked FIFO queue.  SimpleThreadPool3: a task submitted by a running    *)
(* task goes to its worker's private FIFO queue, every other one to the    *)
(* global queue; nobody steals.  The variable kind says which of the two   *)
(* classes a behaviour is about; it never changes.                         *)
(*                                                                         *)
(* A critical section of the locked queue is one action; the private       *)
(* queue is touched by its own thread only, so its test and the pop that   *)
(* follows belong to one action too.                                       *)
(***************************************************************************)
EXTENDS Integers, Sequences, SequencesExt

CONSTANTS N,                \* hardware_concurrency(), which may answer 0
          Task,             \* the callables
          NoTask,           \* "this worker holds no task"
          Parent,           \* the task whose body submits t, or NoTask
          Joining,          \* tasks that wait for the futures of their children
          Throwing          \* tasks whose callable throws

ASSUME QueuePoolsAssumption ==
  /\ N \in Nat
  /\ NoTask \notin Task
  /\ Parent \in [Task -> Task \cup {NoTask}]
  /\ Joining \subseteq Task
  /\ Throwing \subseteq Task

Worker == 1 .. N
Root == {t \in Task : Parent[t] = NoTask}
Children(t) == {c \in Task : Parent[c] = t}

VARIABLES
  kind,       \* which pool: "shared" (2) or "local" (3)
  life,       \* where the owner of the pool is in the pool's life
  done,       \* done_
  queue,      \* queue_ (2), global_worker_queue_ (3)
  queueDead,  \* its destructor has run
  local,      \* local_worker_queue_ of each thread (3)
  pc,         \* where each worker thread is
  held,       \* the task whose callable a worker is about to run or running
  future,     \* the shared state behind the std::future of each task
  crashed     \* undefined behaviour or std::terminate has ended the process

vars == <<kind, life, done, queue, queueDead, local, pc, held, future, crashed>>
pool == <<kind, life, done, queueDead>>
threads == <<local, pc, held>>

Ready == {"value", "exception", "broken"}

QTypeOK ==
  /\ kind \in {"shared", "local"}
  /\ life \in {"construct", "open", "destroy", "gone"}
  /\ done \in BOOLEAN
  /\ queue \in Seq(Task)
  /\ queueDead \in BOOLEAN
  /\ local \in [Worker -> Seq(Task)]
  /\ pc \in [Worker -> {"unborn", "loop", "take", "run", "exited"}]
  /\ held \in [Worker -> Task \cup {NoTask}]
  /\ future \in [Task -> {"none", "pending"} \cup Ready]
  /\ crashed \in BOOLEAN
  /\ \A w \in Worker : held[w] # NoTask <=> pc[w] = "run"

Init ==
  /\ kind \in {"shared", "local"}
  /\ life = "construct"
  /\ done = FALSE
  /\ queue = <<>>
  /\ queueDead = FALSE
  /\ local = [w \in Worker |-> <<>>]
  /\ pc = [w \in Worker |-> "unborn"]
  /\ held = [w \in Worker |-> NoTask]
  /\ future = [t \in Task |-> "none"]
  /\ crashed = FALSE

-----------------------------------------------------------------------------
(* The owner: constructor, submit(), shutdown(), destructor.               *)

StartThread(w) ==
  /\ life = "construct"
  /\ pc[w] = "unborn"
  /\ \A v \in 1 .. w-1 : pc[v] # "unborn"
  /\ pc' = [pc EXCEPT ![w] = "loop"]
  /\ UNCHANGED <<pool, queue, local, held, future, crashed>>

Constructed ==
  /\ life = "construct"
  /\ \A w \in Worker : pc[w] # "unborn"
  /\ life' = "open"
  /\ UNCHANGED <<kind, done, queueDead, queue, threads, future, crashed>>

\* The constructor of std::thread throws.  Pool 2 passes the exception on, which
\* destroys the members; pool 3 swallows it and its owner goes on.  Nothing was
\* reserved: push_back may throw as well, when the new thread already runs, and
\* the destructor of that joinable thread calls std::terminate.
ConstructFails ==
  /\ life = "construct"
  /\ \E w \in Worker : pc[w] = "unborn"
  /\ \/ /\ done' = TRUE
        /\ life' = IF kind = "shared" THEN "destroy" ELSE "open"
        /\ UNCHANGED crashed
     \/ /\ crashed' = TRUE
        /\ UNCHANGED <<done, life>>
  /\ UNCHANGED <<kind, queueDead, queue, threads, future>>

SubmitExternal(t) ==
  /\ life = "open"
  /\ t \in Root
  /\ future[t] = "none"
  /\ future' = [future EXCEPT ![t] = "pending"]
  /\ queue' = Append(queue, t)
  /\ UNCHANGED <<pool, threads, crashed>>

Shutdown ==
  /\ life = "open"
  /\ done' = TRUE
  /\ UNCHANGED <<kind, life, queueDead, queue, threads, future, crashed>>

BeginDestroy ==
  /\ life = "open"
  /\ life' = "destroy"
  /\ UNCHANGED <<kind, done, queueDead, queue, threads, future, crashed>>

\* Faulty variant: pool 2 without the virtual destructor of ImpleBase.
DestroyQueueSilently ==
  /\ life = "destroy"
  /\ ~queueDead
  /\ queueDead' = TRUE
  /\ queue' = <<>>
  /\ UNCHANGED <<kind, life, done, threads, future, crashed>>

\* The queue is the first member to die.  In pool 2 ~ImpleBase is virtual: the
\* packaged_task of a queued task dies with it and breaks its promise.  In
\* pool 3 it is not: the packaged_task leaks and its future stays pending.
DestroyQueue ==
  /\ life = "destroy"
  /\ ~queueDead
  /\ queueDead' = TRUE
  /\ queue' = <<>>
  /\ future' = [t \in Task |->
                  IF kind = "shared" /\ t \in ToSet(queue) THEN "broken" ELSE future[t]]
  /\ UNCHANGED <<kind, life, done, threads, crashed>>

\* ~JoinThreads
Join ==
  /\ life = "destroy"
  /\ queueDead
  /\ \A w \in Worker : pc[w] \in {"unborn", "exited"}
  /\ life' = "gone"
  /\ UNCHANGED <<kind, done, queueDead, queue, threads, future, crashed>>

-----------------------------------------------------------------------------
(* The workers.                                                            *)

\* while (!done_).  A worker that leaves takes its thread_local queue with it.
CheckDone(w) ==
  /\ pc[w] = "loop"
  /\ pc' = [pc EXCEPT ![w] = IF done THEN "exited" ELSE "take"]
  /\ local' = [local EXCEPT ![w] = IF done THEN <<>> ELSE @]
  /\ UNCHANGED <<pool, queue, held, future, crashed>>

Run(w, t) ==
  /\ held' = [held EXCEPT ![w] = t]
  /\ pc' = [pc EXCEPT ![w] = "run"]

TakeLocal(w) ==
  /\ pc[w] = "take"
  /\ local[w] # <<>>
  /\ Run(w, Head(local[w]))
  /\ local' = [local EXCEPT ![w] = Tail(@)]
  /\ UNCHANGED <<pool, queue, future, crashed>>

Crash ==
  /\ queueDead
  /\ crashed' = TRUE
  /\ UNCHANGED <<pool, queue, threads, future>>

\* Faulty variant: the critical section of try_pop ends before pop_front.
TakeSharedTwice(w) ==
  /\ pc[w] = "take"
  /\ local[w] = <<>>
  /\ \/ /\ queue # <<>>
        /\ Run(w, Head(queue))
        /\ \E rest \in {queue, Tail(queue)} : queue' = rest
        /\ UNCHANGED <<pool, local, future, crashed>>
     \/ /\ queue = <<>>
        /\ pc' = [pc EXCEPT ![w] = "loop"]
        /\ UNCHANGED <<pool, queue, local, held, future, crashed>>

\* Faulty variant: empty() answers true while one task is left.
TakeSharedLeavesLast(w) ==
  /\ pc[w] = "take"
  /\ local[w] = <<>>
  /\ \/ /\ Len(queue) > 1
        /\ Run(w, Head(queue))
        /\ queue' = Tail(queue)
        /\ UNCHANGED <<pool, local, future, crashed>>
     \/ /\ Len(queue) <= 1
        /\ pc' = [pc EXCEPT ![w] = "loop"]
        /\ UNCHANGED <<pool, queue, local, held, future, crashed>>
     \/ Crash

\* try_pop of the locked queue, or yield.  The queue is a member of the pool, so
\* a destroyed one keeps its mutex until the threads are joined; what was freed
\* is the storage of its deque, found as it was left unless that kills the process.
TakeShared(w) ==
  /\ pc[w] = "take"
  /\ local[w] = <<>>
  /\ \/ /\ queue # <<>>
        /\ Run(w, Head(queue))
        /\ queue' = Tail(queue)
        /\ UNCHANGED <<pool, local, future, crashed>>
     \/ /\ queue = <<>>
        /\ pc' = [pc EXCEPT ![w] = "loop"]
        /\ UNCHANGED <<pool, queue, local, held, future, crashed>>
     \/ Crash

\* Faulty variant: pool 3 sends nested tasks to the global queue as well.
SubmitNestedGlobally(w, t) ==
  /\ pc[w] = "run"
  /\ Parent[t] = held[w]
  /\ future[t] = "none"
  /\ future' = [future EXCEPT ![t] = "pending"]
  /\ queue' = Append(queue, t)
  /\ UNCHANGED <<pool, threads, crashed>>

\* submit() on a worker.  In pool 2 it may find the queue already destroyed, and
\* leaves the task in its remains, where another worker may still come upon it.
SubmitNested(w, t) ==
  /\ pc[w] = "run"
  /\ Parent[t] = held[w]
  /\ future[t] = "none"
  /\ \/ /\ future' = [future EXCEPT ![t] = "pending"]
        /\ IF kind = "shared"
           THEN queue' = Append(queue, t) /\ UNCHANGED local
           ELSE local' = [local EXCEPT ![w] = Append(@, t)] /\ UNCHANGED queue
        /\ UNCHANGED <<pool, pc, held, crashed>>
     \/ kind = "shared" /\ Crash

\* Faulty variant: the wrapper outlives its run.
FinishAndHold(w) ==
  /\ pc[w] = "run"
  /\ \A c \in Children(held[w]) : future[c] # "none"
  /\ held[w] \in Joining => \A c \in Children(held[w]) : future[c] \in Ready
  /\ future' = [future EXCEPT ![held[w]] =
                  IF held[w] \in Throwing THEN "exception" ELSE "value"]
  /\ pc' = [pc EXCEPT ![w] = "loop"]
  /\ UNCHANGED <<pool, queue, local, held, crashed>>

\* packaged_task::operator(), and for a Joining task the get() of each child.
Finish(w) ==
  /\ pc[w] = "run"
  /\ \A c \in Children(held[w]) : future[c] # "none"
  /\ held[w] \in Joining => \A c \in Children(held[w]) : future[c] \in Ready
  /\ future' = [future EXCEPT ![held[w]] =
                  IF held[w] \in Throwing THEN "exception" ELSE "value"]
  /\ held' = [held EXCEPT ![w] = NoTask]
  /\ pc' = [pc EXCEPT ![w] = "loop"]
  /\ UNCHANGED <<pool, queue, local, crashed>>

-----------------------------------------------------------------------------
WorkerStep(w) ==
  \/ CheckDone(w)
  \/ TakeLocal(w)
  \/ TakeShared(w)
  \/ \E t \in Task : SubmitNested(w, t)
  \/ Finish(w)

ConstructorStep == (\E w \in Worker : StartThread(w)) \/ Constructed \/ ConstructFails

DestructorStep == DestroyQueue \/ Join

Next ==
  /\ ~crashed
  /\ \/ ConstructorStep
     \/ \E t \in Task : SubmitExternal(t)
     \/ Shutdown
     \/ BeginDestroy
     \/ DestructorStep
     \/ \E w \in Worker : WorkerStep(w)

Spec == Init /\ [][Next]_vars

\* Every thread is scheduled; constructor and destructor go on once entered.
LiveSpec ==
  /\ Spec
  /\ WF_vars(~crashed /\ ConstructorStep)
  /\ WF_vars(~crashed /\ DestructorStep)
  /\ \A w \in Worker : WF_vars(~crashed /\ WorkerStep(w))
-----------------------------------------------------------------------------
HeldTasks == {held[w] : w \in Worker} \ {NoTask}
Queued(t) == t \in ToSet(queue) \/ \E w \in Worker : t \in ToSet(local[w])

\* A task that has not finished waits in a queue that stands, or is being run; a
\* future hangs in three ways only.  In pool 3 a task from outside goes down with
\* the queue, and a nested one with its worker, which left after it had run the
\* parent.  In pool 2, where the destructor breaks the promise of every task still
\* queued and so wakes who waits for it, the one submitted by a task that was
\* running while the queue died is left in its remains.
Waiting(t) ==
  \/ ~queueDead /\ t \in ToSet(queue)
  \/ \E w \in Worker : t \in ToSet(local[w])

LostWithQueue(t) == kind = "local" /\ queueDead /\ t \in Root

LostWithWorker(t) ==
  /\ kind = "local"
  /\ t \notin Root
  /\ future[Parent[t]] \in Ready
  /\ \E w \in Worker : pc[w] = "exited"

SubmittedTooLate(t) == kind = "shared" /\ queueDead /\ t \notin Root

NothingForgotten ==
  \A t \in Task : future[t] = "pending" =>
    \/ Waiting(t)
    \/ t \in HeldTasks
    \/ LostWithQueue(t)
    \/ LostWithWorker(t)
    \/ SubmittedTooLate(t)

\* In pool 3 a task submitted by a running task stays behind it on the same
\* worker until it ends: a task that waits for its child therefore waits for
\* something that only it could let run.
NestedStaysHome ==
  kind = "local" =>
    \A w \in Worker : held[w] # NoTask => \A c \in Children(held[w]) :
      future[c] # "none" => future[c] = "pending" /\ c \in ToSet(local[w])

Status(t) ==
  CASE t \in HeldTasks -> "running"
    [] future[t] = "none" -> "unborn"
    [] future[t] \in {"value", "exception"} -> "done"
    [] future[t] = "pending" /\ t \notin HeldTasks /\ Queued(t) -> "queued"
    [] OTHER -> "dropped"

Executor == INSTANCE TaskExecutor
  WITH state <- [t \in Task |-> Status(t)],
       closing <- life \in {"destroy", "gone"} \/ done

\* Both pools run a task at most once and to its end, and drop one only after
\* they have been told to stop or are being destroyed.
ImplementsExecutor == Executor!Spec

StuckWaiting(w) ==
  pc[w] = "run" /\ held[w] \in Joining
    /\ \E c \in Children(held[w]) : future[c] = "pending"

Blocked(t) ==
  \/ \A w \in Worker : StuckWaiting(w)
  \/ /\ kind = "local"
     /\ \E w \in Worker : StuckWaiting(w) /\ t \in ToSet(local[w]) \cup {held[w]}

\* While the pool is open every submitted task is finished, a nested one too,
\* unless all workers wait for children or, in pool 3, the task or its waiting
\* parent is caught on its own worker.
ServedUnlessBlocked ==
  \A t \in Task : future[t] = "pending" ~>
    future[t] \in Ready \/ done \/ life # "open" \/ Blocked(t)
=============================================================================
