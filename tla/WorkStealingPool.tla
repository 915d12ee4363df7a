-------------------------- MODULE WorkStealingPool --------------------------
(***************************************************************************)
(* SimpleThreadPool4 of 9.1_SimpleThreadPool4.cpp: N worker threads, one   *)
(* lock-protected deque per worker, one global FIFO queue, and an atomic   *)
(* flag done_ that stops the workers.  A worker serves its own deque, then *)
(* the global queue, then scans every deque for a task to steal.           *)
(*                                                                         *)
(* Every try_pop/push holds the queue's mutex from its first to its last   *)
(* access, so each is one action; everything between two critical sections *)
(* is a step of its own.  The pool's client is one thread that builds the  *)
(* pool, submits, may call shutdown() and finally lets the pool go out of  *)
(* scope; a running task is a client too, it may submit further tasks.     *)
(***************************************************************************)
EXTENDS Integers, Sequences

CONSTANTS N,                \* hardware_concurrency(), which may answer 0
          Task,             \* the callables
          NoTask,           \* "this worker holds no task"
          Parent,           \* the task whose body submits t, or NoTask
          Joining,          \* tasks that wait for the futures of their children
          Throwing,         \* tasks whose callable throws
          SpawnCanFail      \* may new, push_back or std::thread throw?

ASSUME NAssumption == N \in Nat
ASSUME NoTaskAssumption == NoTask \notin Task
ASSUME ParentAssumption == Parent \in [Task -> Task \cup {NoTask}]
ASSUME SubsetAssumption == Joining \subseteq Task /\ Throwing \subseteq Task
ASSUME SpawnAssumption == SpawnCanFail \in BOOLEAN

Worker == 0 .. N-1
Global == N                 \* global_work_queue_
Place == 0 .. N             \* a worker's own deque, or the global queue
Root == {t \in Task : Parent[t] = NoTask}
Children(t) == {c \in Task : Parent[c] = t}

VARIABLES
  life,       \* where the owner of the pool is in the pool's life
  nqueues,    \* worker_queues_.size()
  destroyed,  \* the queues whose destructor has run
  done,       \* done_
  queue,      \* queue[w] = worker_queues_[w], queue[Global] = global_work_queue_
  pc,         \* where each worker thread is
  held,       \* the task whose callable a worker is about to run or running
  scan,       \* the locals n and i of runPendingTask
  future,     \* the shared state behind the std::future of each task
  crashed     \* undefined behaviour has killed the process

vars == <<life, nqueues, destroyed, done, queue, pc, held, scan, future, crashed>>

Location == {"unborn", "loop", "local", "global", "size", "steal", "run",
             "blocked", "exited"}
Outcome == {"none", "pending", "value", "exception"}
Ready == {"value", "exception"}

TypeOK ==
  /\ life \in {"construct", "open", "destroy", "gone"}
  /\ nqueues \in 0 .. N
  /\ destroyed \subseteq Place
  /\ done \in BOOLEAN
  /\ queue \in [Place -> Seq(Task)]
  /\ pc \in [Worker -> Location]
  /\ held \in [Worker -> Task \cup {NoTask}]
  /\ scan \in [Worker -> [n : 0 .. N, i : 0 .. N]]
  /\ future \in [Task -> Outcome]
  /\ crashed \in BOOLEAN

Init ==
  /\ life = "construct"
  /\ nqueues = 0
  /\ destroyed = {}
  /\ done = FALSE
  /\ queue = [p \in Place |-> <<>>]
  /\ pc = [w \in Worker |-> "unborn"]
  /\ held = [w \in Worker |-> NoTask]
  /\ scan = [w \in Worker |-> [n |-> 0, i |-> 0]]
  /\ future = [t \in Task |-> "none"]
  /\ crashed = FALSE

-----------------------------------------------------------------------------
(* The owner: constructor, submit(), shutdown(), destructor.               *)

\* Every queue created so far has its thread.
AllStarted == \A w \in 0 .. nqueues-1 : pc[w] # "unborn"

PushQueue ==
  /\ life = "construct"
  /\ nqueues < N
  /\ AllStarted
  /\ nqueues' = nqueues + 1
  /\ UNCHANGED <<life, destroyed, done, queue, pc, held, scan, future, crashed>>

StartThread(w) ==
  /\ life = "construct"
  /\ w < nqueues
  /\ pc[w] = "unborn"
  /\ pc' = [pc EXCEPT ![w] = "loop"]
  /\ UNCHANGED <<life, nqueues, destroyed, done, queue, held, scan, future, crashed>>

Constructed ==
  /\ life = "construct"
  /\ nqueues = N
  /\ AllStarted
  /\ life' = "open"
  /\ UNCHANGED <<nqueues, destroyed, done, queue, pc, held, scan, future, crashed>>

\* catch (...) { done_ = true; } : the exception ends here, the caller goes
\* on with a pool that has fewer threads, or none.
ConstructFails ==
  /\ SpawnCanFail
  /\ life = "construct"
  /\ \/ nqueues < N
     \/ ~AllStarted
  /\ done' = TRUE
  /\ life' = "open"
  /\ UNCHANGED <<nqueues, destroyed, queue, pc, held, scan, future, crashed>>

\* The owner's local_work_queue_ is null: its tasks go to the global queue.
\* submit() does not look at done_.
SubmitExternal(t) ==
  /\ life = "open"
  /\ t \in Root
  /\ future[t] = "none"
  /\ future' = [future EXCEPT ![t] = "pending"]
  /\ queue' = [queue EXCEPT ![Global] = Append(@, t)]
  /\ UNCHANGED <<life, nqueues, destroyed, done, pc, held, scan, crashed>>

Shutdown ==
  /\ life = "open"
  /\ done' = TRUE
  /\ UNCHANGED <<life, nqueues, destroyed, queue, pc, held, scan, future, crashed>>

\* The pool goes out of scope; the destructor does not set done_.
BeginDestroy ==
  /\ life = "open"
  /\ life' = "destroy"
  /\ UNCHANGED <<nqueues, destroyed, done, queue, pc, held, scan, future, crashed>>

\* Members die in reverse order of declaration: worker_queues_ from its first
\* element on, then global_work_queue_, then joiner_.  ImpleBase has no virtual
\* destructor, so the packaged_task of a queued task is never destroyed and its
\* future stays pending.
DestroyQueue(p) ==
  /\ life = "destroy"
  /\ p \in (0 .. nqueues-1) \cup {Global}
  /\ p \notin destroyed
  /\ \A q \in 0 .. nqueues-1 : q < p => q \in destroyed
  /\ destroyed' = destroyed \cup {p}
  /\ queue' = [queue EXCEPT ![p] = <<>>]
  /\ UNCHANGED <<life, nqueues, done, pc, held, scan, future, crashed>>

\* Faulty variant: the loop of ~JoinThreads stops one thread short.
JoinAllButLast ==
  /\ life = "destroy"
  /\ Global \in destroyed
  /\ \A w \in 0 .. N-2 : pc[w] \in {"unborn", "exited"}
  /\ life' = "gone"
  /\ UNCHANGED <<nqueues, destroyed, done, queue, pc, held, scan, future, crashed>>

\* ~JoinThreads: join every thread that was started.
Join ==
  /\ life = "destroy"
  /\ Global \in destroyed
  /\ \A w \in Worker : pc[w] \in {"unborn", "exited"}
  /\ life' = "gone"
  /\ UNCHANGED <<nqueues, destroyed, done, queue, pc, held, scan, future, crashed>>

-----------------------------------------------------------------------------
(* The workers: doWork and runPendingTask.                                 *)

\* Faulty variants: pop_back() after reading front(); a popped wrapper that is
\* not called; no pop at all.
TakeFrontPopBack(w, p) ==
  /\ queue[p] # <<>>
  /\ held' = [held EXCEPT ![w] = Head(queue[p])]
  /\ queue' = [queue EXCEPT ![p] = SubSeq(@, 1, Len(@) - 1)]
  /\ pc' = [pc EXCEPT ![w] = "run"]
  /\ UNCHANGED <<life, nqueues, destroyed, done, scan, future, crashed>>

TakeWithoutRunning(w, p) ==
  /\ queue[p] # <<>>
  /\ queue' = [queue EXCEPT ![p] = Tail(@)]
  /\ pc' = [pc EXCEPT ![w] = "loop"]
  /\ UNCHANGED <<life, nqueues, destroyed, done, held, scan, future, crashed>>

TakeWithoutPopping(w, p) ==
  /\ queue[p] # <<>>
  /\ held' = [held EXCEPT ![w] = Head(queue[p])]
  /\ pc' = [pc EXCEPT ![w] = "run"]
  /\ UNCHANGED <<life, nqueues, destroyed, done, queue, scan, future, crashed>>

\* An access to a destroyed queue may end the process ...
Crash ==
  /\ crashed' = TRUE
  /\ UNCHANGED <<life, nqueues, destroyed, done, queue, pc, held, scan, future>>

\* ... or wait for ever: the mutex is a WorkStealQueue's first member, and what
\* the allocator writes into the freed memory may look like a locked one.  The
\* global queue is a member of the pool itself, whose memory stays until the
\* threads are joined; its mutex is intact ...
BlockAt(w, p) ==
  /\ p \in destroyed \ {Global}
  /\ pc' = [pc EXCEPT ![w] = "blocked"]
  /\ UNCHANGED <<life, nqueues, destroyed, done, queue, held, scan, future, crashed>>

\* ... or find the freed memory as the destructor left it, empty: a destroyed
\* queue is kept as <<>>, which EmptyAt does not tell from a living one.
TakeFrom(w, p) ==
  /\ queue[p] # <<>>
  /\ held' = [held EXCEPT ![w] = Head(queue[p])]
  /\ queue' = [queue EXCEPT ![p] = Tail(@)]
  /\ pc' = [pc EXCEPT ![w] = "run"]
  /\ UNCHANGED <<life, nqueues, destroyed, done, scan, future, crashed>>

EmptyAt(w, p, next) ==
  /\ queue[p] = <<>>
  /\ pc' = [pc EXCEPT ![w] = next]
  /\ UNCHANGED <<life, nqueues, destroyed, done, queue, held, scan, future, crashed>>

\* Faulty variant: for (;;) instead of while (!done_).
NeverChecksDone(w) ==
  /\ pc[w] = "loop"
  /\ pc' = [pc EXCEPT ![w] = "local"]
  /\ UNCHANGED <<life, nqueues, destroyed, done, queue, held, scan, future, crashed>>

\* while (!done_)
CheckDone(w) ==
  /\ pc[w] = "loop"
  /\ pc' = [pc EXCEPT ![w] = IF done THEN "exited" ELSE "local"]
  /\ UNCHANGED <<life, nqueues, destroyed, done, queue, held, scan, future, crashed>>

PopLocal(w) ==
  /\ pc[w] = "local"
  /\ \/ TakeFrom(w, w)
     \/ EmptyAt(w, w, "global")
     \/ BlockAt(w, w)
     \/ w \in destroyed /\ Crash

PopGlobal(w) ==
  /\ pc[w] = "global"
  /\ \/ TakeFrom(w, Global)
     \/ EmptyAt(w, Global, "size")
     \/ Global \in destroyed /\ Crash

\* Faulty variants: capacity() for size(); one more than size().
ReadCapacity(w) ==
  /\ pc[w] = "size"
  /\ scan' = [scan EXCEPT ![w] = [n |-> N, i |-> 0]]
  /\ pc' = [pc EXCEPT ![w] = "steal"]
  /\ UNCHANGED <<life, nqueues, destroyed, done, queue, held, future, crashed>>

ReadOnePast(w) ==
  /\ pc[w] = "size"
  /\ scan' = [scan EXCEPT ![w] = [n |-> nqueues + 1, i |-> 0]]
  /\ pc' = [pc EXCEPT ![w] = "steal"]
  /\ UNCHANGED <<life, nqueues, destroyed, done, queue, held, future, crashed>>

\* n = worker_queues_.size() takes no lock.  While the constructor is still
\* pushing, the read races with it and may return any size the vector has had
\* since this thread was created.
ReadSize(w) ==
  /\ pc[w] = "size"
  /\ \E n \in (IF life = "construct" THEN w + 1 ELSE nqueues) .. nqueues :
       scan' = [scan EXCEPT ![w] = [n |-> n, i |-> 0]]
  /\ pc' = [pc EXCEPT ![w] = "steal"]
  /\ UNCHANGED <<life, nqueues, destroyed, done, queue, held, future, crashed>>

\* Faulty variant: the scan looks at the thief's own deque every time.
OwnDequeOnly(w) == w % scan[w].n

\* The queue the scan looks at next: (i + index_) % n.
Victim(w) == (scan[w].i + w) % scan[w].n

\* One turn of the for loop; after the last one the worker yields.
Steal(w) ==
  /\ pc[w] = "steal"
  /\ \/ TakeFrom(w, Victim(w))
     \/ /\ queue[Victim(w)] = <<>>
        /\ scan' = [scan EXCEPT ![w].i = @ + 1]
        /\ pc' = [pc EXCEPT ![w] = IF scan[w].i + 1 = scan[w].n THEN "loop" ELSE "steal"]
        /\ UNCHANGED <<life, nqueues, destroyed, done, queue, held, future, crashed>>
     \/ BlockAt(w, Victim(w))
     \/ Victim(w) \in destroyed /\ Crash

\* Faulty variant: nested tasks are dealt out to the next worker.
SubmitToNeighbour(w, t) ==
  /\ pc[w] = "run"
  /\ Parent[t] = held[w]
  /\ future[t] = "none"
  /\ future' = [future EXCEPT ![t] = "pending"]
  /\ queue' = [queue EXCEPT ![(w + 1) % N] = <<t>> \o @]
  /\ UNCHANGED <<life, nqueues, destroyed, done, pc, held, scan, crashed>>

\* submit() on a worker: thread_local local_work_queue_ is its own deque.
\* Into a destroyed deque the push is lost, never returns or kills the process.
SubmitNested(w, t) ==
  /\ pc[w] = "run"
  /\ Parent[t] = held[w]
  /\ future[t] = "none"
  /\ \/ /\ future' = [future EXCEPT ![t] = "pending"]
        /\ queue' = IF w \in destroyed THEN queue
                                       ELSE [queue EXCEPT ![w] = <<t>> \o @]
        /\ UNCHANGED <<life, nqueues, destroyed, done, pc, held, scan, crashed>>
     \/ BlockAt(w, w)
     \/ w \in destroyed /\ Crash

\* packaged_task::operator(): the result, or the exception the callable threw,
\* goes to the future; no exception reaches the worker.  The emptied wrapper is
\* destroyed later, at the end of runPendingTask, which only frees its memory.
Finish(w) ==
  /\ pc[w] = "run"
  /\ \A c \in Children(held[w]) : future[c] # "none"
  /\ held[w] \in Joining => \A c \in Children(held[w]) : future[c] \in Ready
  /\ future' = [future EXCEPT ![held[w]] =
                  IF held[w] \in Throwing THEN "exception" ELSE "value"]
  /\ held' = [held EXCEPT ![w] = NoTask]
  /\ pc' = [pc EXCEPT ![w] = "loop"]
  /\ UNCHANGED <<life, nqueues, destroyed, done, queue, scan, crashed>>

-----------------------------------------------------------------------------
ConstructorStep ==
  \/ PushQueue
  \/ \E w \in Worker : StartThread(w)
  \/ Constructed
  \/ ConstructFails

DestructorStep ==
  \/ \E p \in Place : DestroyQueue(p)
  \/ Join

WorkerStep(w) ==
  \/ CheckDone(w)
  \/ PopLocal(w)
  \/ PopGlobal(w)
  \/ ReadSize(w)
  \/ Steal(w)
  \/ \E t \in Task : SubmitNested(w, t)
  \/ Finish(w)

OwnerStep ==
  \/ ConstructorStep
  \/ \E t \in Task : SubmitExternal(t)
  \/ Shutdown
  \/ BeginDestroy
  \/ DestructorStep

Next ==
  /\ ~crashed
  /\ OwnerStep \/ \E w \in Worker : WorkerStep(w)

Spec == Init /\ [][Next]_vars

\* The scheduler runs every thread, and the code of the constructor and of the
\* destructor goes on once entered; what the owner submits, and whether it ever
\* shuts the pool down, is its own choice.
LiveSpec ==
  /\ Spec
  /\ WF_vars(~crashed /\ ConstructorStep)
  /\ WF_vars(~crashed /\ DestructorStep)
  /\ \A w \in Worker : WF_vars(~crashed /\ WorkerStep(w))
-----------------------------------------------------------------------------
(* What the pool promises.                                                 *)

HeldTasks == {held[w] : w \in Worker} \ {NoTask}
QueuedAt(p) == {queue[p][i] : i \in DOMAIN queue[p]}
Queued(t) == \E p \in Place : t \in QueuedAt(p)

\* No callable exists twice: a task sits at one index of one queue, or on one
\* worker's stack, never both, whoever popped, stole or pushed it; and only
\* tasks that have been submitted and have not finished are anywhere.
QueuedOnce ==
  \A p, q \in Place : \A i \in DOMAIN queue[p], j \in DOMAIN queue[q] :
    queue[p][i] = queue[q][j] => p = q /\ i = j

HeldOnce == \A v, w \in Worker : held[v] = held[w] /\ held[v] # NoTask => v = w

HeldNotQueued == \A t \in HeldTasks : ~Queued(t)

OnlyPendingAround == \A t \in Task : Queued(t) \/ t \in HeldTasks => future[t] = "pending"

NothingTwice == QueuedOnce /\ HeldOnce /\ HeldNotQueued /\ OnlyPendingAround

\* Until the destructor reaches the queues, a submitted task that has not
\* finished is in some queue or on some worker's stack, also when the
\* constructor gave up half way and when done_ is set.
NothingLost ==
  destroyed = {} =>
    \A t \in Task : future[t] = "pending" => Queued(t) \/ t \in HeldTasks

\* A worker that has turned to the global queue or to the others' deques still
\* has an empty deque of its own (25_ThreadManager.md: only a thread whose own
\* queue has no task takes from the global one): nobody else may push there.
OwnDequeFirst ==
  \A w \in Worker : pc[w] \in {"global", "size", "steal"} => queue[w] = <<>>

\* The scan never indexes past the end of worker_queues_ nor divides by zero,
\* even when it runs while the constructor is still adding queues.
ScanInBounds ==
  \A w \in Worker : pc[w] = "steal" =>
    /\ scan[w].n \in 1 .. nqueues
    /\ scan[w].i < scan[w].n
    /\ Victim(w) \in 0 .. nqueues-1

\* A worker reaches doWork's end, and waits at a queue, with its hands empty,
\* unless it is the body of its task that submits to a dead deque; and once the
\* owner is past ~JoinThreads, no thread is left that could touch the pool.
HandsMatch ==
  \A w \in Worker :
    /\ pc[w] = "run" => held[w] # NoTask
    /\ held[w] # NoTask => pc[w] \in {"run", "blocked"}

GoneMeansStopped ==
  life = "gone" => \A w \in Worker : pc[w] \in {"unborn", "exited"}

NobodyLeftBehind == HandsMatch /\ GoneMeansStopped

\* A queue outlives every use of it: no worker is about to lock one that has
\* been destroyed.
QueuesOutliveWorkers ==
  \A w \in Worker :
    /\ pc[w] = "local" => w \notin destroyed
    /\ pc[w] = "global" => Global \notin destroyed
    /\ pc[w] = "steal" => Victim(w) \notin destroyed

-----------------------------------------------------------------------------
\* The view of a client that knows nothing of queues and threads.
Status(t) ==
  IF t \in HeldTasks THEN "running"
  ELSE IF future[t] = "none" THEN "unborn"
  ELSE IF future[t] \in Ready THEN "done"
  ELSE IF Queued(t) THEN "queued"
  ELSE "dropped"

Executor == INSTANCE TaskExecutor
  WITH state <- [t \in Task |-> Status(t)],
       closing <- life \in {"destroy", "gone"}

\* Whatever the interleaving of owner, workers and thieves, every task is run
\* at most once and to its end, and none is dropped before the destructor.
ImplementsExecutor == Executor!Spec

\* Every submitted task is finished, unless the workers were told to stop (by
\* the owner or by a failed constructor) or the pool is being destroyed: in
\* particular a task whose parent waits for it is stolen by another worker.
ServedUnlessStopped ==
  \A t \in Task :
    future[t] = "pending" ~> future[t] \in Ready \/ done \/ life # "open"

\* Every worker sees done_ after the task it runs, and leaves; one is held up for
\* ever only by a task of its own that waits for a child which nobody is going to
\* run any more, or by a queue that was destroyed before the workers were joined.
StuckInJoin(w) == pc[w] = "run" /\ held[w] \in Joining

WorkersStop ==
  \A w \in Worker :
    done ~> \/ pc[w] \in {"unborn", "exited"}
            \/ []StuckInJoin(w)
            \/ destroyed # {} /\ (pc[w] = "blocked" \/ crashed)
=============================================================================
