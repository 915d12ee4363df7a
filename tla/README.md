# geektime in TLA+

A verification development for the programs in this repository that keep state
and run concurrently. The repository is a collection of course notes, exercises
and small complete programs. What has behaviour worth checking is a set of small
systems, and a large number of algorithm exercises, listed below. Each
module is translated from the code, not from the notes beside it.

Run a model with `tlc -config MCX.cfg M.tla`, with `M` the run's module in `PROJECT.json`, check a proof module with
`tlapm M.tla`. `PROJECT.json` lists the components, the runs, the mutants that
each property detects, the source lines of every definition, the hazards and
the theorems.

## 1. Inventory

`CPP/` stands for `src/doc/Language/CPP/Concurency/`.

### Modelled

**Work-stealing thread pool** (`CPP/code/src/9.1_SimpleThreadPool4.cpp`).
State: one deque per worker (`worker_queues_`), a global FIFO queue, the flag
`done_`, the threads, a `thread_local` pointer to the worker's own deque and
the shared states behind the futures. Operations: constructor (pushes a queue,
starts a thread, `hardware_concurrency()` times; swallows exceptions),
`submit`, `shutdown`, the worker loop `doWork`/`runPendingTask`, destruction of
the members in reverse order with `~JoinThreads` near the end. The owner and
the workers meet in the queues, each behind its mutex, in `done_`, and, with no
lock, in `worker_queues_.size()`. Running tasks call back into `submit`. Correct
when: no task is lost or run twice, own deque before global before stealing,
indices stay in range, every task is served while the pool is open, workers told
to stop leave, and nothing is used after it was destroyed.

**ParallelAccumulate** (same file), the pool's only client. State: the loop
variable, the iterator, the blocks captured by the lambdas, the sum. Correct
when: blocks partition the range, the sum is right, the pool is empty when it is
shut down, the function comes to an end.

**Asynchronous account transfer**
(`src/ProgramLanguage/src/main/java/base/perf/asyncTransfer`).
State: a `HashMap` of balances without a lock; the stages of each
`CompletableFuture` chain. Operations: `add`, `transfer`, `retryTransfer`. The
bodies run on the JDK's common pool, in parallel. Correct when: no account is
overdrawn, money neither vanishes nor appears, every call completes, the reply
tells the outcome.

**Queue pools** (`CPP/code/src/9.1_SimpleThreadPool2.cpp`, `...3.cpp`). State: one
locked queue, in pool 3 also a private queue per worker; `done_`, the threads, the
futures. Operations as above, without stealing. Hard: a constructor that throws with
threads running, a queue destroyed with tasks in it (pool 2 breaks their
promises, pool 3 leaks them), nested tasks that cannot move. Correct when: both
keep what `TaskExecutor` promises, and who waits for ever is known.

**Producer and consumer programs** (`CPP/code/src`, `CPP/ThreadSync`). State: a
queue or a stack, a condition variable or a semaphore. Operations: make, notify,
wait, take, run. Correct when: no wake-up and no token is lost, items are consumed
once and in order, what is queued is drained.

**TCP servers and client** (`src/UnixPrograming/TCP`). State: the descriptor
table, `established_fd`, the result of `select()`, bytes on their way. Operations:
accept, scan, read, reply, disconnect; connect, send, receive, close. Correct
when: table and sockets agree, who is answered and who is not.

**RocketMQ order transaction** (`src/MessageQueue/.../trans`). State: the order
map, which lives in memory, the half messages at the broker, decisions on their
way. Operations: half message, local transaction, end of transaction,
check-back, consumption. Hard: a crash between any two of them, lost and late
decisions, a restart that begins again with the same order numbers, redelivery.
Correct when: no message is seen for an order that was never created, and created
orders arrive.

**Data structures and memory pools** (`src/algorithm/CPP`,
`src/doc/Algorithm/General`, `src/ProgramLanguage/CPP/MemManager/Perf`). Two LRU
caches, two indexed heaps, stacks with a minimum, queue of two stacks, queue with a
maximum, k-th largest of a stream, tries, disjoint sets, the fixed-size and the
byte pool. Correct when: every answer is that of the mathematical object, the
parts of the representation agree, no block is handed out twice.

**Algorithm exercises** (same directories). Pure functions: sorting and
selection, searching and arithmetic, scanning, dynamic programming, graphs, grids and
backtracking, lists and trees, words and matrices; often in several versions.
Correct when: each version gives what the exercise asks for.

### Not modelled

| part | why |
|---|---|
| `CPP/code/src/9.1_SimpleThreadPool.cpp` | does not compile: `ThreadSafeQueue` of `thread_safe_queue.h` has no default constructor, calls `push()` and `pop()` of a `std::deque`, and locks a mutex that is not mutable in a `const` member |
| Rx account transfer (`.../aysnc/rxjava`) | what it does is decided by RxJava operators that the repository never configures; its one flaw, a compensation loop whose counter is never decremented, is in the hazard list without a property |
| one-shot synchronisation demos, atomics | one set and one wait, no second writer |
| hello-world producer and consumer of RocketMQ | calls of a library, no state |
| `new_handler` demos | one saved and restored pointer |
| Java data structures and sorting | textbook structures whose C++ counterparts are modelled |
| remaining C++ exercises | stubs, programs that do not compile or never return, further copies of algorithms modelled from another file |
| language demos, design patterns | no state that outlives a statement |
| Hadoop, HBase, Spark, Flink, RPC | glue code whose behaviour lies in the frameworks |
| notes, diagrams, pictures | no behaviour |

## 2. Modules

| module | models |
|---|---|
| `TaskExecutor` | abstract: what a thread pool promises to those who submit to it |
| `WorkStealingPool` | `SimpleThreadPool4`; implements `TaskExecutor` |
| `ParallelAccumulate` | the client function, composed with `WorkStealingPool` by EXTENDS |
| `QueuePools` | `SimpleThreadPool2` and `SimpleThreadPool3`; implements `TaskExecutor` |
| `SharedQueues` | the producer and consumer programs |
| `AccountTransfer` | `TransferServiceImpl` and `AccountServiceImpl` |
| `OrderTransaction` | `CreateOrderService`, `OrderServiceImpl`, `OrderTransactionListener`, `OrderDao`, `ShoppingCartService` |
| `TcpServers` | `tcp_server.cpp`, `tcp_server_select.cpp`, `tcp_client.cpp` |
| `Structures` | the data structures and the memory pools |
| `ExerciseBasics`, `Sorting`, `Searching`, `Scanning`, `Dynamic`, `Exploring`, `Linked`, `Words` | the exercises as operators, each with its reference definition |
| `Exercises` | structures and exercises under one specification |
| `MCWorkStealingPool`, `MCParallelAccumulate`, `MCAccountTransfer`, `MCQueuePools` | instances for TLC; the other runs need only a `.cfg` |
| `WorkStealingPoolProofs` | types, bounds of the scan; nothing lost, nothing doubled, order of service, nobody left behind; the pool implements `TaskExecutor`; `ParallelAccumulate` is a client of the pool, drains it, keeps its iterators in range and returns the sum |
| `AccountTransferProofs` | types, no overdraft, money arrives or returns, the books balance |
| `QueuePoolsProofs` | types, what becomes of every pending task, nested tasks stay; both queue pools implement `TaskExecutor` |
| `SharedQueuesProofs` | types, items in order, tokens and wake-ups |
| `OrderTransactionProofs` | types, no phantom order |
| `TcpServersProofs` | types, the table and the kill are sound |
| `StructuresProofs` | the inductive invariant of each of the 17 structures; all answers are those of the object, the redundant parts agree |
| `SumLemmas` | sums over finite sets and counting, for the modules that need them |

### WorkStealingPool

`queue[w]` is worker `w`'s deque, `queue[Global]` the global queue. `pc[w]` is
where the thread is: `loop` (about to test `done_`), `local`, `global`, `size`
(about to read `worker_queues_.size()`), `steal` (in the for loop, with `scan[w]`
holding `n` and `i`), `run` (inside the task, with the wrapper in `held[w]`),
`exited`, or `blocked`. `life` is where the owner is. Each critical section is one action; two
critical sections are never one.

* The constructor is `PushQueue` and `StartThread` in turn, then `Constructed`;
  `ConstructFails` is the `catch (...)`, possible before any of these
  steps. Both vectors are reserved in advance, so a push does not move elements
  under a worker's feet; only the size is read in a race. `ReadSize` may
  see any size from the one the reading thread was started with to the
  present one.
* `SubmitExternal` is `submit` on a thread without a deque of its own,
  `SubmitNested` on a worker, in the body of the parent task. A parent in
  `Joining` waits for its children's futures before it finishes.
* The destructor is `BeginDestroy`, then `DestroyQueue` for each deque and the
  global queue, then `Join`. Members die in reverse order of their declaration,
  so the queues go before the join. An access to a destroyed queue is undefined:
  it may end the process (`Crash`), find the queue empty (`EmptyAt`), or, in a deque,
  wait for ever for its mutex (`BlockAt`): the deques are on the heap, the mutex is the
  first member, and the allocator overwrites it. The worker is then at `blocked`, and
  the join waits with it. The global queue is a member of the pool itself; its mutex
  is trivially destroyed and stays usable. A destroyed with tasks in it may look non-empty; the wrapper popped
  from it points to a freed object whose first word the allocator has
  overwritten, so that the virtual call of it ends the process, which is `Crash`.
  `done_` is a trivially destroyed atomic flag and keeps its value.
* `Finish` makes the future ready and lets go of the wrapper. In the code the wrapper is
  destroyed a moment later, which frees memory and changes nothing else.
* `~ImpleBase` is not virtual, so destroying a queued task does not break its
  promise: the future stays `pending`.
* Thieves call `try_pop`, not `try_steal`, which nothing in the file calls.
  Both ends of the steal are therefore the front of the deque, and so the model
  has them.

### ParallelAccumulate

The tasks are block numbers and the owner of the pool is the calling thread. Each
caller action is a pool action with what the function adds to it:
`SubmitBlock` is a turn of the loop with the iterators captured by the lambda,
`GetFuture` waits for a value, `GetRethrows` is the exception coming out of
`get()`, after which the pool is destroyed without `shutdown()`.

### QueuePools

`kind` says which class a behaviour is about: `shared` (pool 2) or `local`
(pool 3). `queue` is the locked queue, `local[w]` a worker's own. A call of
`try_pop` is one action, its emptiness test included, and so is the test of the
private queue with its pop, since no other thread can see that queue.
`ConstructFails` goes to `destroy` in pool 2, which rethrows, and to `open` in pool
3, which does not. Neither vector of threads is reserved, so the failure may also be
that of `push_back` with a running thread in hand, whose destructor ends the process.
`DestroyQueue` comes before `Join`, as `joiner_` is declared before the queue in both
classes. In pool 2 `~ImpleBase` is virtual and
a queued task dies with its promise broken; in pool 3 it is not, and the future
stays pending. Using a destroyed queue is undefined behaviour: the process
dies (`Crash`) or works on what is left in memory. The queue is a member of the pool, so
its mutex is still there; a task submitted to the remains stays pending.

### SharedQueues

`demo` is the program. Its queue is `tasks`; a lock scope is one action. Notifying is
an action of its own, because the producers unlock before they call
`notify_one()`. The semaphore programs run the front task and remove the back
one, and the model does so too, which is why `InOrder` leaves them out. `Spurious` is
the wake-up that the condition variable permits.

### AccountTransfer

A transfer makes up to three `add()` calls, its legs `debit`, `credit` and
`refund`. `Read` is the body of `add` up to its `put`, `Put` the
rest; sums are those of Java's `int` (`Wrap`), with `IntMax` a constant. `at` is the
stage of the chain. `Answer` reads `result`, which `retryTransfer()` may have set by then
if the credit failed quickly. `DebitRefused` keeps what the code
does: it "refunds" a debit that was never made. `overwrote` is a history
variable that only `Ledger` reads.

### OrderTransaction

A message is an order number and the run of `main()` that sent it; the key of the
message is the number alone, so a check-back for an old message finds the
order of a later run. `createOrder()` is `SendHalf` (or `SendFails`, after
which the client library may send a rollback),
`ExecuteLocalTransaction`, `EndTransaction`; `Crash` is possible between any two and
loses `orderMap`. `ends` holds the decisions on their way: the one-way
`endTransaction` may never get there, an answer to a check-back may be lost,
and both may overtake one another. `Decide`, `Discard` and what asks for check-backs
are the broker, which is not in the repository; so is `CheckUnanswered`, a check-back
while the order system is closed or crashed.

### TcpServers

`server` is the program: `single` (`tcp_server.cpp`) or `select`. A channel is a
number of messages, because a read takes all that has arrived and the replies all have
the same text. The select server's round is `AcceptRound`, or
`SelectRound` followed by one `SkipSlot` or `ScanSlot` per slot of the table. `peer[c]`
is the server's socket of client `c`: `up`, `fin` (the peer has closed), `reset` (it
closed with bytes unread), `dead` (the error was reported, the next send raises
SIGPIPE), `closed`. This part, with `Send`, is the kernel.

### Structures and exercises

In `Structures`, `s` is the state of the code, `m` the mathematical object it stands
for, and `ans` the pair of the answers that the two give to the last call. Every
public operation is an action; calls that the exercise forbids (popping an empty
stack) are not made. The LRU list is its `next` and `prev` pointers. In
the memory pools an address is a number, and `size_t` counts modulo `SizeT`. Values,
keys, capacities, letters and the sizes of the pools are constants.

`Structures` has no recursive definition. `down()` and `up()` of the heaps run one
turn of their loop per step: `run` is the loop that is running, `at` its position and
`after` what the call has still to do. The array trie walks one letter per step, `p`
being its node and `i` the place in the word. `m` changes when a
call of the heap begins and when one of the trie returns. `find()` of the disjoint
sets is one step: `Ancestors` are the elements it passes, the least set that holds the
first one and the parents of its members, and `Root` is the one among them that is its
own parent.

The exercises are operators of seven modules, translated from the loops:
an index is one more than in the code, a loop is a recursive function or a fold, a
table is a function. A pivot drawn with `rand()` may be any element, so those programs
are sets of answers. The last part of each module has the reference definitions and
the predicates `...Right` that compare all versions of an exercise with them. `Exercises` grows the
input of one topic element by element, so that TLC sees every input up to the
bound.

## 3. Runs

| run | expects | shows |
|---|---|---|
| `work_stealing_pool` | pass | all pool properties, 2 workers, 3 tasks, about 52,000 states |
| `parallel_accumulate` | pass | all caller properties, lengths 0 to 5, about 18,000 states |
| `accumulate_no_thread` | violation | `FunctionExits`: no thread could be started and `get()` waits for ever |
| `accumulate_destroy` | violation | `QueuesOutliveWorkers`: queues destroyed before the join |
| `account_transfer` | pass | all transfer properties, 4 transfers, about 319,000 states |
| `transfer_reply` | violation | `ReplyTellsOutcome`: success is answered with -1 |
| `queue_pools` | pass | both queue pools, 2 workers, 3 tasks, 1,837 states |
| `shared_queues` | pass | five programs, up to 3 consumers, 2,737 states |
| `tcp_servers` | pass | both servers, 3 clients, 2 slots, about 141,000 states |
| `order_transaction` | pass | 2 orders, 2 runs, about 238,000 states |
| `exercises` | pass | 17 structures and all exercises, about 290,000 states |
| `max_queue` | violation | `MaxValueIsGreatest`: equal elements lose the maximum |

The violations are differences between the code and what its comments
say; `PROJECT.json`, under `findings`, quotes the lines.

What the passing properties mean:

* `NothingTwice`, `NothingLost`: tasks are conserved through push, pop, steal,
  nested submit, failed construction and shutdown.
* `OwnDequeFirst`: the service order that `25_ThreadManager.md` describes.
  It holds because nobody else pushes to a worker's deque.
* `ScanInBounds`: the stealing scan's index, in spite of the unlocked size.
* `NobodyLeftBehind`: hands and location agree; no thread outlives the pool.
* `ImplementsExecutor`: refinement of `TaskExecutor`, the mapping being
  `Status`: a task is running while a worker holds it, whatever its future says,
  so that a second start is seen.
* `ServedUnlessStopped`: while the pool is open and not told to stop, each task
  is finished, also a child whose parent occupies a worker waiting for it.
  With as many waiting parents as workers this is not so; the run has two workers
  and one waiting parent, the least in which a thief is needed.
* `WorkersStop`: a worker of a pool told to stop leaves. The exceptions, in the
  property, are a task that waits for a child nobody will run, and queues destroyed
  before the workers were joined, with the crash or the wait that may follow.
* `CallerTypeOK`, `SumCorrect`: iterators stay in the range, each item is counted
  once. The items are powers of two, so that two wrong sets of items never have
  the right sum.
* `DrainedBeforeDestroy`, `ExitsOrUnwinds`: the ordinary way out finds the pool
  empty, and every way ends, or is the unwinding that skips `shutdown()`, or is held up in
  the join by a worker that locked a freed deque. The finding of `accumulate_destroy` shows
  how it gets there.
* `NeverOverdrawn`, `Ledger`, `NothingVanishes`, `CallsComplete`: the
  transfer's books. `Ledger` says that the balances are exactly the completed
  additions unless one `put` overwrote another: the lost update that the missing
  lock permits is the only way in which they can be wrong. `NothingVanishes` allows for
  one loss, a refund refused because the account has grown too full for an `int`, which
  takes the undue refund of another transfer. `Ledger` books that one as the completed
  `add()` that it is, so it does not tell it from a due one.
* `NothingForgotten`, `NestedStaysHome`: of the queue pools. A pending task waits in a queue that
  stands, or is being run, or is lost in one of three ways: with the queue of pool 3, whose
  promises are not broken, with a worker of pool 3 that left after the parent, or, in pool 2,
  submitted by a task that was still running when the queue had been destroyed. The other tasks
  that pool 2 throws away have their promises broken. Nested tasks of pool 3 cannot leave
  their parent's worker. `ServedUnlessBlocked` says what follows: a parent that waits for its child
  blocks its worker and all that is queued there, and nothing else.
* `TokensAndWakeups`: semaphore tokens, wherever they are, match the queued tasks; if
  all consumers sleep, the queue is empty or the producer is about to notify.
  `EverythingConsumed` is its liveness side.
* `ServerSound`, `EveryoneGreeted`, `NewestServed`: of the servers. A descriptor is in
  one slot at most and never after it was closed; SIGPIPE is only ever caused by
  a client that has left. Each client of the select server gets its greeting, also
  from a full table and while the scan is busy, unless SIGPIPE comes first, and the connection accepted last is
  answered as long as it has a slot. Others that wait may stay without an answer, which
  goes to the wrong socket.
* `NoPhantomOrder`, `OrderArrives`, `EverythingSettles`: of the order transaction.
  A created order reaches the cart unless the broker has given it up; every message the
  broker holds is settled, also after `main()` has closed the producer, as it does in
  every run. The converse of `NoPhantomOrder` is not claimed: `createOrder` answers
  true for an order that was rolled back.
* `AnswersAgree`, `PartsConsistent`: every answer is that of the object, and
  the parts of the representation agree: list and map, heap and position maps, free
  list and blocks in use.
* `ScansAndSortsRight`, `TablesRight`, `FindsWhatIsThere`: each exercise against its
  definition, for every input within the bounds for which the program is defined and, where
  it differs from its own header, for those on which it does not (section 5 lists them).

### Bounds

* `N = 2`, three tasks: two workers are the least with a thief; with one
  nested task (waited for, and throwing) and one from outside each queue is
  non-empty while the other is being served. `N = 1` in `accumulate_no_thread`
  is the least pool whose only thread can fail. The safety theorems are for
  every `N`, zero included.
* Lengths 0 to 5 with the code's block size of two give no block, one partial,
  one full, and the same after one and two full ones. `InitialSum` is 100.
* Four transfers on two accounts that open with 10 and 0 (1000 each in the code;
  the amounts are scaled): one that may or may not be covered, an unknown
  source, an unknown target, and a negative amount, which makes the credit the
  leg that is refused. The account that opens with 0 lets a lost update leave too
  little for that transfer's refund, so that refunds fail as well. Ints end at
  `IntMax = 15`, so that a refund overflows after an undue one.
* `queue_pools` has the pool, tasks and nesting of `work_stealing_pool`.
* `Bound = 4` items (10 in the code; the endless producers are cut off after
  `Bound + 1`) and `MaxConsumer = 3` (5): three consumers allow one that waits, one
  that is woken and one that takes the item in between.
* Three clients, two slots (30) and two messages per client (15): the third
  connection is the one the full table forgets; two messages give a client that has
  been answered and waits again. A longer table adds slots that behave like these.
* Two orders, two runs, one order in the second run, one check-back
  (`transactionCheckMax` is 15 by default): the second run reuses the number
  of an order of the first, and the last check-back is also the first.
* `MaxOps = 6` calls (five in `max_queue`): a cache of capacity two for three keys overflows
  twice, a heap loses an element in the middle. `Val = 1..3` gives less, equal and
  greater, `Infinite = 99` is `INT_MAX`, and `Rank = 2` the least `k` whose top is
  not the maximum. Words have one or two of two letters, so one is a prefix of
  another; four nodes give two sets of two to join, three animals a
  food chain that closes. A batch of the fixed-size pool is
  `Expansion = 2` (32) and a chunk is `ChunkSize = 4` bytes (4096), so that both
  overflow within six calls; `size_t` counts modulo `SizeT = 16`, which wraps around.
  The theorems about `Structures` are for all of these constants and any `MaxOps`.
* Arrays of up to five elements of 0 to 2 (the gaps of the shell sorts also see these
  followed by their reverse, ten elements), pairs of up to three, numbers from -8 to
  7, which are all ints of four bits, so that `INT_MIN` and its negation are among them,
  grids of two rows of three, graphs of three nodes with up to three edges,
  trees and linked lists of up to four nodes, dictionaries of three words.
  `Repeats` is false in `exercises`, as equal elements break the queue with a
  maximum, which `max_queue` shows.
* Each task is submitted, and each transfer called, at most once per behaviour.
* `CHECK_DEADLOCK FALSE`: these systems stop. The pool is gone, the process has
  crashed, all transfers have finished, the producer has reached its bound, clients
  and orders have had their turn, the input has reached its length; and a pool with a task that waits for a
  child nobody runs is stuck, which the liveness properties speak of.

### Fairness

Every worker thread has weak fairness: threads are preemptively scheduled and the
critical sections are short and always left. A worker is enabled at every location
but one, a task that waits for a child. The constructor and the destructor, once
entered, have it as code that runs on. What the owner submits, and
whether and when it calls `shutdown()` or drops the pool, has none; in
`ParallelAccumulate` the whole caller is code, and the caller thread is weakly
fair. In `AccountTransfer` each body handed to the common pool is run (weak
fairness of what each transfer has to do; each body runs once, so this is fairness of each
of them); that a caller calls `transfer()` is not assumed.

`QueuePools` assumes what `WorkStealingPool` does. In `SharedQueues` the producer and
each consumer are fair; the user's `q` and spurious wake-ups are not. In `TcpServers`
the server and each client are: each runs its loop, and the network delivers. In
`OrderTransaction` `main()` goes on from order to order and closes after the last one,
and the broker acts on
each message (it asks back, applies decisions, delivers); crash and restart have no
fairness. The runs of structures and exercises have safety
properties only.

### Assumptions of the models

Memory is sequentially consistent: `done_` is a sequentially consistent
atomic, the queues are behind mutexes, and the unlocked size is modelled as a
choice. The accesses to the unlocked `HashMap` in Java are whole reads and
whole writes of one value; the map's structure never changes after its constructor,
since only existing keys are written. The broker of `OrderTransaction` stores a half
message once, applies the first decision it gets and delivers at least once, as
RocketMQ documents; the kernel of `TcpServers` behaves as POSIX has it.

## 4. Proofs

The theorems are listed in `PROJECT.json`. They hold for every value of
the constants that satisfies the named ASSUMEs of the modules: any
number of workers (also zero), any set of tasks, any nesting, any set of throwing
and waiting tasks, any lengths and block size, any finite sets of transfers and of
network clients, any number of consumers, any size of the table of connections, any
values, keys, capacities and words of the structures, any finite sets of elements
of the disjoint sets, and any number of calls. The theorems about the structures have one
hypothesis beside the ASSUMEs, `MaxQueueDiffers`: if the queue with a maximum is among
them, it never holds the same element twice. Without it they are false, as `max_queue`
shows; the instance of `exercises` satisfies it.

* **Types and the scan.** `TypeInv` is `TypeOK`, `ScanInBounds` and
  `StartedHaveQueue`: a started worker has its queue. The induction needs the
  three together: the victim's index is in range because the size read is
  positive and no larger than the number of queues, which is so because the
  worker's own queue was pushed before the worker was started.
* **Safety of the pool.** `SafetyInv` joins `TypeInv` and the properties. Neither
  `NothingLost` nor `NothingTwice` is inductive alone: that a popped task is
  nowhere else rests on it having been at one index of one queue, and that a
  finished task leaves no copy rests on hands and queues being disjoint. The
  work is in three lemmas on sequences (after a pop, a push in front, a push at
  the back, which slots hold which task); each action is an instance of them.
* **Refinement.** Every pool step is a step or a stutter of `TaskExecutor`: a pop
  or a steal is `Start`, destroying a queue drops all it holds at once, a nested
  submit to a destroyed deque is `Refuse`. `RefInv` adds to `SafetyInv`
  that queues are destroyed only in the destructor, when `closing` holds.
* **ParallelAccumulate** (in `WorkStealingPoolProofs`)**.** `CallerIsAClient` shows that each caller step is an
  owner step of the pool; hence the pool's theorems hold inside. `DrainInv`
  says that the submitted tasks are those below `block`, later that the futures
  below `block` have been collected; at the end of the loop nothing is unfinished.
  `CutInv` says where each block was cut and that `ans` is the sum up to the last
  block collected; two neighbouring blocks add up, so at the end `ans` is the whole.
* **AccountTransfer.** `LedgerInv` relates each chain's stage to its legs'
  progress (`Shapes`), says that the value a `put` is about to write is not
  negative (`ReadIsSafe`: what was read and what is added give an `int` that is not below
  zero), and that a refund fails only for a negative amount or because it overflowed
  (`RefundFailure`). Nothing is assumed of the amounts but that they are `int`s; `WrapSum`
  and its companions say what a sum is that was not refused. `ReadIsSafe` is why
  no overdraft can happen although updates can be lost.
  `Ledger` is inductive next to `LedgerInv` (`Booked`): a `put` that overwrites nothing
  writes what was read plus its own summand, and each `put` adds one leg to those applied.
* **Sums.** `SumLemmas` has what folding a function over a finite set gives: nothing
  for the empty set, one summand more for one element more, the sum of both for disjoint
  sets. Library inductions take an operator, which the provers cannot
  instantiate; the induction here is first-order, over the family of subsets that
  have the property, by a smallest counterexample (`SubsetInduction`).
* **Producer and consumer programs.** `OrderInv` is `Control` (types and which places
  of the code exist in which program) and `Order`: what is consumed and what is queued
  run through the numbers of production without a gap, from the front or, in the
  program that puts in front, from the back (`OneInOrder`, `QueueInOrder`), and in the stack
  consumed and queued items are distinct and below the next value (`StackApart`).
  `NoLostWakeup` needs `Order`: the single consumer of the first program leaves when it has
  consumed as many items as were made, so it leaves nothing behind. `TokensMatch` counts
  the set of consumers with a token as it gains and loses one.
* **TCP servers.** `Control` is the types and `Places`: the backlog has no repetitions, what
  was not accepted is in no slot, and the server's end of a connection tells how far its
  client is. A connection is forgotten only by a full table, whose
  slots hold as many different accepted connections (`Cardinality`, by an
  injection). `TypeOK` bounds the channels; that rests on `Traffic`: a server that answers the
  newest connection may send one client the answers to the messages of all, so the bound
  is about the sum of all the messages not yet read. It needs the set of clients to be finite,
  which `TcpAssumption` says.
* **Queue pools.** The queues of a pool are seen as one family, `Shelf`. `PoolInv`
  says that a task lies at one index of one queue or is in one hand
  (`QueuedOnce`, `QueuedPending`, `HeldPending`) and that nobody has submitted a
  child of a task that has not begun to run (`ChildrenFollow`). `HangInv` says which future may
  stay pending: the queue dies only in the destructor, what is in its remains was submitted by
  a running task, and a nested task of pool 3 is with the worker that ran its parent
  (`QueueDiesLate`, `RemainsAreNested`, `ParentWasHere`). `NestedStaysHome` needs the
  latter: a task that is taken must not have children elsewhere. Every action pops a shelf,
  pushes to one, empties one, ends a run or does nothing to them, and there is one lemma
  for each of the five. In the refinement the same five are `Start`, `Submit`, `Drop`,
  `Finish` and a stutter or `Close`. The theorems are for every number of threads,
  nesting, and set of waiting tasks.
* **Order transaction.** `NoPhantomOrder` rests on `InTurn` (a message that has not been
  sent is unknown to the broker, and no call has created its order before its own
  local transaction) and `TruthTold` (each decision on its way is true of the
  orders, and a rollback is only ever about a call that has returned, so that nothing
  can create that order afterwards).
* **Structures.** `StructuresInv` is `AnswersAgree` and `StateInv`, which has for each
  structure the relation between the state of the code and the object, much stronger than
  `PartsConsistent`. Each call, and each turn of a loop, has a lemma
  that it keeps the relation and answers as the object does.
  * LRU caches: in `Linked` each node's neighbours point back at it; `Falling` says that
    each key was used after the next one. That the node before the tail is then the key
    used longest ago is `LastIsOldest`: of the keys, the one used first has no
    key after it. `Listed` is the same of the list of `LRUCache-1`.
  * Stacks and queues: `Records` names the places at which each entry of the stack of minima
    became the minimum, so that a pop knows whether it takes one of them. `TwoStacks`
    writes the queue as one stack followed by the reverse of the other. `Peaks`
    names the elements of the queue greater than all behind them; the
    front is popped only if it is the same element, which needs `MaxQueueDiffers`. `Kept`:
    no element outside the heap of `KthLargest` is above one inside it.
  * Tries: a prefix is in `nodes` exactly if a word that was inserted begins with it. For the
    array trie, `Named` gives each node the word that leads to it, injectively, and
    `Walked` says that the call now running stands at the node of the prefix it has read.
  * Heaps: `Placed`, which always holds, says that the two position maps are inverse and
    place each element's value; `Repairing` says which pairs of positions may be out of
    order while `down()` or `up()` runs (`SinkingAt`, `RisingAt`, `AtHome`), also for
    what follows `down()`: a deletion repairs from a position read before
    the swap, and the invariant shows that this is enough.
  * Disjoint sets: `Forest` says that there is no cycle without speaking of paths: every
    non-empty set of elements has one whose parent is itself or lies outside. Path
    compression and linking two roots keep it, and keep the sets (`SameTrees`,
    `Classes`), whatever the ranks say. `ChainRight` of the food chain: the set of the
    assignments that no true sentence has excluded is that of the assignments which agree
    with every distance to a parent, modulo three.
  * Memory pools: `Blocks` partitions what was ever allocated into free list and blocks in use.
    `Stacked` describes the byte pool while its client frees in the reverse
    order (`orderly`); `free` ignores the address, so nothing is claimed of other uses.

Only model-checked: the liveness properties (`ServedUnlessStopped`, `WorkersStop`,
`ExitsOrUnwinds`, `CallsComplete`, `ServedUnlessBlocked`, `EverythingConsumed`,
`EveryoneGreeted`, `NewestServed`, `OrderArrives`, `EverythingSettles`), which lie outside what the
provers do; and the three invariants of the exercises (`ScansAndSortsRight`,
`TablesRight`, `FindsWhatIsThere`), which say what recursive definitions compute for
every input, by induction over data. Every other property of a passing run is a theorem.

## 5. What was noticed on the way

Beside the findings, which runs show, reading the code against the models brought up
the following. The models have these behaviours where they cover the code.

* Pool 3: a task that waits for one it submitted itself deadlocks its worker.
* The semaphore programs run the front task and remove the back one: with two queued,
  the newest is lost and the oldest runs twice.
* The select server replies to the connection accepted last; `SIGPIPE` is not handled;
  the 31st connection is accepted and forgotten; `tcp_server.cpp` spins after its
  peer has closed.
* `createOrder()` answers true for orders that were rolled back; after a restart
  check-backs answer `UNKNOW` until the broker gives up.
* `ByteMemoryPool::free` credits the head chunk, whichever chunk the bytes came from.
* Exercises: the `quick_sort` of ACW785 recurses for ever on equal elements; ACW787
  prints 0 for one element; `getLeastNumbers` with `k = 0` reads the top of an empty heap; `qmi`
  answers 1 for `p = 1`; `removeDuplicates` answers 1 for an empty array; the matrix
  version of L509 gives 2 for `fib(2)`; the third version of 542 never runs its
  second sweep; 236 leaves its answer unset if a node is missing; `tableSizeFor` of L01_03 answers
  a strictly greater power where its header says "at least", so 2, 4 and 8 for 1, 2 and 4;
  `ReplaceIntoText` leaves a blank behind the URL; the Sedgewick
  shell sort of `Inner_Sort.cpp` reads past its table of gaps if the array is empty. The
  properties ask nothing of a program for inputs on which it is undefined or contradicts its
  own header; they claim neither answer to be right.
* Account transfer: a transfer that failed may be answered with 0, if the refund is done
  before `result` is read.

## 6. What is left

A model of the Rx transfer, once its retry policy is known; the Java structures;
integer overflow in the exercises that accumulate products.
