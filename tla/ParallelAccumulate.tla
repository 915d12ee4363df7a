------------------------- MODULE ParallelAccumulate -------------------------
(***************************************************************************)
(* ParallelAccumulate of 9.1_SimpleThreadPool4.cpp: the one client of the  *)
(* work-stealing pool in the repository.  It cuts [begin, end) into blocks *)
(* of BlockSize, submits one task per block, adds up the futures in order, *)
(* calls shutdown() and lets the pool go out of scope.                     *)
(*                                                                         *)
(* The pool is WorkStealingPool, action by action; the caller's thread is  *)
(* the pool's owner.  The tasks are the block numbers.                     *)
(***************************************************************************)
EXTENDS WorkStealingPool, Functions

CONSTANTS Lengths,          \* the values of std::distance(begin, end)
          BlockSize,        \* block_size
          Item,             \* Item[k] = *(begin + k)
          InitialSum        \* the argument init

ASSUME LengthsAssumption == Lengths \subseteq Nat
ASSUME BlockSizeAssumption == BlockSize \in Nat \ {0}
ASSUME ItemAssumption ==
  /\ \A n \in Lengths : 0 .. n-1 \subseteq DOMAIN Item
  /\ \A k \in DOMAIN Item : Item[k] \in Int
  /\ InitialSum \in Int

BlockNum(n) == (n + BlockSize - 1) \div BlockSize

\* The tasks of the blocks submit no others.
ASSUME TaskAssumption ==
  \A n \in Lengths : \A t \in 0 .. BlockNum(n)-1 : t \in Root /\ Children(t) = {}

VARIABLES
  length,     \* std::distance(begin, end)
  at,         \* where the function is
  block,      \* the loop variable i
  start,      \* the iterator start, as an offset from begin
  captured,   \* [from, to) copied into the lambda of each block
  ans         \* ans

caller == <<length, at, block, start, captured, ans>>
allVars == <<vars, caller>>

Sum(range) == SumFunctionOnSet(Item, range.from .. range.to - 1)

\* Every iterator of the function, and every copy of one in a task, stays inside
\* [begin, end], also for the shorter last block.
CallerTypeOK ==
  /\ length \in Lengths
  /\ at \in {"entry", "construct", "submit", "get", "shutdown", "leave",
             "unwind", "returned", "threw"}
  /\ block \in 0 .. BlockNum(length)
  /\ start \in 0 .. length
  /\ captured \in [Task -> [from : 0 .. length, to : 0 .. length]]
  /\ ans \in Int

CallerInit ==
  /\ Init
  /\ length \in Lengths
  /\ at = "entry"
  /\ block = 0
  /\ start = 0
  /\ captured = [t \in Task |-> [from |-> 0, to |-> 0]]
  /\ ans = InitialSum

-----------------------------------------------------------------------------
\* if (!length) return init;
Enter ==
  /\ at = "entry"
  /\ at' = IF length = 0 THEN "returned" ELSE "construct"
  /\ UNCHANGED <<vars, length, block, start, captured, ans>>

\* SimpleThreadPool4 thread_pool;  The constructor swallows every exception.
ConstructPool ==
  /\ at = "construct"
  /\ ConstructorStep
  /\ at' = IF life' = "open" THEN "submit" ELSE "construct"
  /\ UNCHANGED <<length, block, start, captured, ans>>

\* Faulty variants: start is not advanced; the last block is cut like the others.
SubmitWithoutAdvance ==
  /\ at = "submit"
  /\ SubmitExternal(block)
  /\ captured' = [captured EXCEPT ![block] =
       [from |-> start, to |-> IF block = BlockNum(length) - 1 THEN length ELSE start + BlockSize]]
  /\ at' = IF block = BlockNum(length) - 1 THEN "get" ELSE "submit"
  /\ block' = IF block = BlockNum(length) - 1 THEN 0 ELSE block + 1
  /\ UNCHANGED <<length, start, ans>>

SubmitFullBlocksOnly ==
  /\ at = "submit"
  /\ SubmitExternal(block)
  /\ captured' = [captured EXCEPT ![block] = [from |-> start, to |-> start + BlockSize]]
  /\ start' = start + BlockSize
  /\ at' = IF block = BlockNum(length) - 1 THEN "get" ELSE "submit"
  /\ block' = IF block = BlockNum(length) - 1 THEN 0 ELSE block + 1
  /\ UNCHANGED <<length, ans>>

\* One turn of the submitting loop, and the submit() of the last block after
\* it, which runs to end and leaves start where it is.
SubmitBlock ==
  LET last == block = BlockNum(length) - 1 IN
  /\ at = "submit"
  /\ SubmitExternal(block)
  /\ captured' = [captured EXCEPT ![block] =
       [from |-> start, to |-> IF last THEN length ELSE start + BlockSize]]
  /\ start' = IF last THEN start ELSE start + BlockSize
  /\ at' = IF last THEN "get" ELSE "submit"
  /\ block' = IF last THEN 0 ELSE block + 1
  /\ UNCHANGED <<length, ans>>

\* Faulty variant: the loop over the futures leaves the last one out.
GetAllButLast ==
  /\ at = "get"
  /\ future[block] = "value"
  /\ ans' = ans + Sum(captured[block])
  /\ at' = IF block + 2 >= BlockNum(length) THEN "shutdown" ELSE "get"
  /\ block' = block + 1
  /\ UNCHANGED <<vars, length, start, captured>>

\* ans += futures[i].get() blocks until the task is done ...
GetFuture ==
  /\ at = "get"
  /\ future[block] = "value"
  /\ ans' = ans + Sum(captured[block])
  /\ at' = IF block + 1 = BlockNum(length) THEN "shutdown" ELSE "get"
  /\ block' = block + 1
  /\ UNCHANGED <<vars, length, start, captured>>

\* ... and rethrows what the task threw; shutdown() is then never called.
GetRethrows ==
  /\ at = "get"
  /\ future[block] = "exception"
  /\ BeginDestroy
  /\ at' = "unwind"
  /\ UNCHANGED <<length, block, start, captured, ans>>

\* Faulty variant: shutdown() forgotten.
SkipShutdown ==
  /\ at = "shutdown"
  /\ at' = "leave"
  /\ UNCHANGED <<vars, length, block, start, captured, ans>>

ShutdownPool ==
  /\ at = "shutdown"
  /\ Shutdown
  /\ at' = "leave"
  /\ UNCHANGED <<length, block, start, captured, ans>>

\* return ans; thread_pool goes out of scope.
LeaveScope ==
  /\ at = "leave"
  /\ BeginDestroy
  /\ UNCHANGED caller

DestroyPool ==
  /\ at \in {"leave", "unwind"}
  /\ DestructorStep
  /\ at' = IF life' # "gone" THEN at ELSE IF at = "leave" THEN "returned" ELSE "threw"
  /\ UNCHANGED <<length, block, start, captured, ans>>

CallerStep ==
  \/ Enter
  \/ ConstructPool
  \/ SubmitBlock
  \/ GetFuture
  \/ GetRethrows
  \/ ShutdownPool
  \/ LeaveScope
  \/ DestroyPool

CallerNext ==
  /\ ~crashed
  /\ \/ CallerStep
     \/ \E w \in Worker : WorkerStep(w) /\ UNCHANGED caller

CallerSpec == CallerInit /\ [][CallerNext]_allVars

\* The caller's thread and every worker are scheduled.
CallerLiveSpec ==
  /\ CallerSpec
  /\ WF_allVars(~crashed /\ CallerStep)
  /\ \A w \in Worker : WF_allVars(~crashed /\ WorkerStep(w) /\ UNCHANGED caller)

-----------------------------------------------------------------------------
\* What the function returns is init plus every item, each counted once, for
\* lengths that are and are not multiples of the block size.
SumCorrect ==
  at = "returned" => ans = InitialSum + Sum([from |-> 0, to |-> length])

\* On the ordinary way out the pool is destroyed with no callable queued or
\* running, so that the only threads left in it are looking for work and no
\* future is abandoned.
DrainedBeforeDestroy ==
  at \in {"shutdown", "leave"} =>
    /\ \A p \in Place : queue[p] = <<>>
    /\ HeldTasks = {}
    /\ \A t \in Task : future[t] # "pending"

\* shutdown() makes sure that the function comes to an end: it returns or
\* throws (or the use of a destroyed queue ends the process).
Exited == at \in {"returned", "threw"} \/ crashed
FunctionExits == <>Exited

\* With all its threads the function ends, or is left by an exception that one
\* of the blocks threw, which skips shutdown(), or the join of its pool waits for
\* a worker that locked a deque which the destructor had already freed.
HeldUpByDeadQueue == \E w \in Worker : pc[w] = "blocked"

ExitsOrUnwinds == <>(Exited \/ at = "unwind" \/ HeldUpByDeadQueue)
=============================================================================
