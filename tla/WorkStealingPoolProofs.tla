----------------------- MODULE WorkStealingPoolProofs -----------------------
(***************************************************************************)
(* Theorems about WorkStealingPool, for any number of threads, any tasks   *)
(* and any nesting of them: its types; no task is lost or duplicated, a    *)
(* worker serves its own deque first and no thread survives the            *)
(* destructor; and the pool implements TaskExecutor.  Then theorems about  *)
(* its client ParallelAccumulate, which drives the pool as WorkStealingPool *)
(* says a client may, so that what is proved of the pool holds under it.   *)
(* Nothing that is proved of the pool cites an assumption of the client.   *)
(***************************************************************************)
EXTENDS ParallelAccumulate, SumLemmas, SequenceTheorems, TLAPS

(* Facts about the operators the model is built from.                      *)

\* The remainder the scan uses as an index is a legal index.
LEMMA ModBound ==
  ASSUME NEW a \in Nat, NEW n \in Nat \ {0}
  PROVE  a % n \in 0 .. n-1
OBVIOUS

\* What a push at the front of a deque leaves in it.
LEMMA PushFront ==
  ASSUME NEW S, NEW s \in Seq(S), NEW e \in S
  PROVE  /\ <<e>> \o s \in Seq(S)
         /\ Len(<<e>> \o s) = Len(s) + 1
         /\ (<<e>> \o s)[1] = e
         /\ \A i \in 2 .. Len(s) + 1 : (<<e>> \o s)[i] = s[i-1]
<1>1. <<e>> \in Seq(S) /\ Len(<<e>>) = 1 /\ <<e>>[1] = e
  OBVIOUS
<1>2. Len(s) \in Nat
  BY LenProperties
<1>3. /\ <<e>> \o s \in Seq(S)
      /\ Len(<<e>> \o s) = 1 + Len(s)
      /\ \A i \in 1 .. 1 + Len(s) :
           (<<e>> \o s)[i] = IF i <= 1 THEN <<e>>[i] ELSE s[i-1]
  BY <1>1, ConcatProperties
<1>4. QED
  BY <1>1, <1>2, <1>3

-----------------------------------------------------------------------------
(* Type correctness.  TypeOK alone is not inductive: the counter i of the  *)
(* scan stays in range only because i < n holds while the scan is running, *)
(* and n is positive only because a thread's own queue was pushed before   *)
(* the thread was created.                                                 *)

\* A thread that exists has its queue.
StartedHaveQueue == \A w \in Worker : pc[w] # "unborn" => w < nqueues

TypeInv == TypeOK /\ StartedHaveQueue /\ ScanInBounds

LEMMA VictimInRange ==
  ASSUME TypeOK, NEW w \in Worker,
         scan[w].n \in 1 .. nqueues, scan[w].i < scan[w].n
  PROVE  Victim(w) \in 0 .. nqueues-1
<1>1. scan[w].n \in Nat \ {0} /\ scan[w].i + w \in Nat
  BY NAssumption DEF TypeOK, Worker
<1>2. Victim(w) \in 0 .. scan[w].n - 1
  BY <1>1, ModBound DEF Victim
<1>3. QED
  BY <1>1, <1>2, NAssumption DEF TypeOK

LEMMA TypeInit == Init => TypeInv
<1> USE NAssumption, NoTaskAssumption
<1> SUFFICES ASSUME Init PROVE TypeInv
  OBVIOUS
<1>1. TypeOK
  <2>1. scan \in [Worker -> [n : 0 .. N, i : 0 .. N]]
    BY DEF Init
  <2>2. queue \in [Place -> Seq(Task)]
    BY EmptySeq DEF Init
  <2>3. pc \in [Worker -> Location] /\ future \in [Task -> Outcome]
    BY DEF Init, Location, Outcome
  <2>4. held \in [Worker -> Task \cup {NoTask}]
    BY DEF Init
  <2>5. nqueues \in 0 .. N /\ destroyed \subseteq Place
    BY DEF Init
  <2>6. QED
    BY <2>1, <2>2, <2>3, <2>4, <2>5 DEF Init, TypeOK
<1>2. StartedHaveQueue /\ ScanInBounds
  BY DEF Init, StartedHaveQueue, ScanInBounds
<1>3. QED
  BY <1>1, <1>2 DEF TypeInv

\* The three ways a try_pop can end, for any queue and any next location.
LEMMA TypeTakeFrom ==
  ASSUME TypeInv, NEW w \in Worker, NEW p \in Place, pc[w] # "unborn",
         TakeFrom(w, p)
  PROVE  TypeInv'
<1> USE NAssumption DEF TypeInv
<1>1. /\ Head(queue[p]) \in Task
      /\ Tail(queue[p]) \in Seq(Task)
  BY HeadTailProperties DEF TypeOK, TakeFrom
<1>2. TypeOK'
  BY <1>1 DEF TypeOK, TakeFrom, Location
<1>3. StartedHaveQueue'
  BY DEF StartedHaveQueue, TakeFrom, TypeOK
<1>4. ScanInBounds'
  BY DEF ScanInBounds, TakeFrom, TypeOK, Victim
<1>5. QED
  BY <1>2, <1>3, <1>4

LEMMA TypeEmptyAt ==
  ASSUME TypeInv, NEW w \in Worker, NEW p \in Place, pc[w] # "unborn",
         NEW next \in {"global", "size"}, EmptyAt(w, p, next)
  PROVE  TypeInv'
<1> USE DEF TypeInv, EmptyAt
<1>1. TypeOK'
  BY DEF TypeOK, Location
<1>2. StartedHaveQueue'
  BY DEF StartedHaveQueue, TypeOK
<1>3. ScanInBounds'
  BY DEF ScanInBounds, TypeOK, Victim
<1>4. QED
  BY <1>1, <1>2, <1>3

LEMMA TypeCrash ==
  ASSUME TypeInv, Crash
  PROVE  TypeInv'
BY DEF TypeInv, Crash, TypeOK, StartedHaveQueue, ScanInBounds, Victim

LEMMA TypeBlockAt ==
  ASSUME TypeInv, NEW w \in Worker, NEW p, pc[w] # "unborn", BlockAt(w, p)
  PROVE  TypeInv'
<1> USE DEF TypeInv, BlockAt
<1>1. TypeOK'
  BY DEF TypeOK, Location
<1>2. StartedHaveQueue'
  BY DEF StartedHaveQueue, TypeOK
<1>3. ScanInBounds'
  BY DEF ScanInBounds, TypeOK, Victim
<1>4. QED
  BY <1>1, <1>2, <1>3

LEMMA TypeOwner ==
  ASSUME TypeInv, OwnerStep
  PROVE  TypeInv'
<1> USE NAssumption DEF TypeInv
<1>1. CASE PushQueue
  <2>1. nqueues' = nqueues + 1 /\ nqueues' \in 0 .. N
    BY <1>1 DEF PushQueue, TypeOK
  <2>2. TypeOK'
    BY <1>1, <2>1 DEF PushQueue, TypeOK
  <2>3. StartedHaveQueue'
    BY <1>1, <2>1 DEF PushQueue, TypeOK, StartedHaveQueue, Worker
  <2>4. ASSUME NEW w \in Worker, pc'[w] = "steal"
        PROVE  /\ scan'[w].n \in 1 .. nqueues'
               /\ scan'[w].i < scan'[w].n
               /\ Victim(w)' \in 0 .. nqueues'-1
    <3>1. /\ scan[w].n \in 1 .. nqueues
          /\ scan[w].i < scan[w].n
          /\ Victim(w) \in 0 .. nqueues-1
      BY <1>1, <2>4 DEF PushQueue, ScanInBounds
    <3>2. scan' = scan /\ Victim(w)' = Victim(w)
      BY <1>1 DEF PushQueue, Victim
    <3>3. QED
      BY <2>1, <3>1, <3>2 DEF TypeOK
  <2>5. QED
    BY <2>2, <2>3, <2>4 DEF ScanInBounds
<1>2. ASSUME NEW w \in Worker, StartThread(w)
      PROVE  TypeInv'
  BY <1>2 DEF StartThread, TypeOK, StartedHaveQueue, ScanInBounds, Victim, Location
<1>3. CASE Constructed
  BY <1>3 DEF Constructed, TypeOK, StartedHaveQueue, ScanInBounds, Victim
<1>4. CASE ConstructFails
  BY <1>4 DEF ConstructFails, TypeOK, StartedHaveQueue, ScanInBounds, Victim
<1>5. ASSUME NEW t \in Task, SubmitExternal(t)
      PROVE  TypeInv'
  <2>1. Global \in Place
    BY DEF Global, Place
  <2>2. queue' \in [Place -> Seq(Task)]
    BY <1>5, <2>1 DEF SubmitExternal, TypeOK
  <2>3. TypeOK'
    BY <1>5, <2>2 DEF SubmitExternal, TypeOK, Outcome
  <2>4. QED
    BY <1>5, <2>3 DEF SubmitExternal, StartedHaveQueue, ScanInBounds, Victim
<1>6. CASE Shutdown
  BY <1>6 DEF Shutdown, TypeOK, StartedHaveQueue, ScanInBounds, Victim
<1>7. CASE BeginDestroy
  BY <1>7 DEF BeginDestroy, TypeOK, StartedHaveQueue, ScanInBounds, Victim
<1>8. ASSUME NEW p \in Place, DestroyQueue(p)
      PROVE  TypeInv'
  <2>1. TypeOK'
    BY <1>8, EmptySeq DEF DestroyQueue, TypeOK
  <2>2. QED
    BY <1>8, <2>1 DEF DestroyQueue, StartedHaveQueue, ScanInBounds, Victim
<1>9. CASE Join
  BY <1>9 DEF Join, TypeOK, StartedHaveQueue, ScanInBounds, Victim
<1>10. QED
  BY <1>1, <1>2, <1>3, <1>4, <1>5, <1>6, <1>7, <1>8, <1>9
     DEF OwnerStep, ConstructorStep, DestructorStep

LEMMA TypeWorker ==
  ASSUME TypeInv, NEW w \in Worker, WorkerStep(w)
  PROVE  TypeInv'
<1> USE NAssumption, NoTaskAssumption
<1>0. w \in Place /\ Global \in Place
  BY DEF Worker, Place, Global
<1>1. CASE CheckDone(w)
  BY <1>1 DEF CheckDone, TypeInv, TypeOK, StartedHaveQueue, ScanInBounds, Victim, Location
<1>2. CASE PopLocal(w)
  BY <1>0, <1>2, TypeTakeFrom, TypeEmptyAt, TypeBlockAt, TypeCrash DEF PopLocal
<1>3. CASE PopGlobal(w)
  BY <1>0, <1>3, TypeTakeFrom, TypeEmptyAt, TypeCrash DEF PopGlobal
<1>4. CASE ReadSize(w)
  <2>1. w < nqueues /\ w \in 0 .. N-1 /\ nqueues \in 0 .. N
    BY <1>4 DEF ReadSize, TypeInv, TypeOK, StartedHaveQueue, Worker
  <2>2. PICK n \in 1 .. nqueues : scan' = [scan EXCEPT ![w] = [n |-> n, i |-> 0]]
    <3>1. CASE life = "construct"
      <4>1. \A n \in w + 1 .. nqueues : n \in 1 .. nqueues
        BY <2>1
      <4>2. QED
        BY <1>4, <3>1, <4>1 DEF ReadSize
    <3>2. CASE life # "construct"
      <4>1. \A n \in nqueues .. nqueues : n \in 1 .. nqueues
        BY <2>1
      <4>2. QED
        BY <1>4, <3>2, <4>1 DEF ReadSize
    <3>3. QED
      BY <3>1, <3>2
  <2>3. scan' \in [Worker -> [n : 0 .. N, i : 0 .. N]]
    BY <2>1, <2>2 DEF TypeInv, TypeOK
  <2>4. TypeOK'
    BY <1>4, <2>3 DEF ReadSize, TypeInv, TypeOK, Location
  <2>5. StartedHaveQueue'
    BY <1>4 DEF ReadSize, TypeInv, TypeOK, StartedHaveQueue
  <2>6. ASSUME NEW v \in Worker, pc'[v] = "steal"
        PROVE  scan'[v].n \in 1 .. nqueues' /\ scan'[v].i < scan'[v].n
    <3>1. CASE v = w
      BY <1>4, <2>1, <2>2, <3>1 DEF ReadSize, TypeInv, TypeOK
    <3>2. CASE v # w
      BY <1>4, <2>2, <2>6, <3>2 DEF ReadSize, TypeInv, TypeOK, ScanInBounds
    <3>3. QED
      BY <3>1, <3>2
  <2>7. ASSUME NEW v \in Worker, pc'[v] = "steal"
        PROVE  Victim(v)' \in 0 .. nqueues'-1
    <3>1. scan'[v].n \in Nat \ {0} /\ scan'[v].i + v \in Nat
      BY <2>3, <2>6, <2>7 DEF Worker
    <3>2. (scan'[v].i + v) % scan'[v].n \in 0 .. scan'[v].n - 1
      BY <3>1, ModBound
    <3>3. nqueues' \in Nat
      BY <2>4 DEF TypeOK
    <3>4. QED
      BY <2>6, <2>7, <3>1, <3>2, <3>3 DEF Victim
  <2>8. QED
    BY <2>4, <2>5, <2>6, <2>7 DEF TypeInv, ScanInBounds
<1>5. CASE Steal(w)
  <2>1. /\ scan[w].n \in 1 .. nqueues
        /\ scan[w].i < scan[w].n
        /\ Victim(w) \in Place
    BY <1>5 DEF Steal, TypeInv, TypeOK, ScanInBounds, Place
  <2>2. CASE TakeFrom(w, Victim(w))
    BY <1>5, <2>1, <2>2, TypeTakeFrom DEF Steal
  <2>3. CASE Crash
    BY <2>3, TypeCrash
  <2>4. CASE /\ scan' = [scan EXCEPT ![w].i = @ + 1]
             /\ pc' = [pc EXCEPT ![w] = IF scan[w].i + 1 = scan[w].n THEN "loop" ELSE "steal"]
             /\ UNCHANGED <<life, nqueues, destroyed, done, queue, held, future, crashed>>
    <3>1. scan[w] \in [n : 0 .. N, i : 0 .. N] /\ nqueues \in 0 .. N
      BY DEF TypeInv, TypeOK
    <3>2. scan[w].i + 1 \in 0 .. N
      BY <2>1, <3>1
    <3>3. scan' \in [Worker -> [n : 0 .. N, i : 0 .. N]]
      BY <2>4, <3>1, <3>2 DEF TypeInv, TypeOK
    <3>4. TypeOK'
      BY <2>4, <3>3 DEF TypeInv, TypeOK, Location
    <3>5. StartedHaveQueue'
      BY <1>5, <2>4 DEF Steal, TypeInv, TypeOK, StartedHaveQueue
    <3>6. ASSUME NEW v \in Worker, pc'[v] = "steal"
          PROVE  scan'[v].n \in 1 .. nqueues' /\ scan'[v].i < scan'[v].n
      <4>1. CASE v = w
        <5>1. scan'[w].n = scan[w].n /\ scan'[w].i = scan[w].i + 1
          BY <2>4, <3>1 DEF TypeInv, TypeOK
        <5>2. scan[w].i + 1 # scan[w].n
          BY <2>4, <3>6, <4>1 DEF TypeInv, TypeOK
        <5>3. QED
          BY <2>1, <2>4, <3>1, <4>1, <5>1, <5>2
      <4>2. CASE v # w
        BY <2>4, <3>6, <4>2 DEF TypeInv, TypeOK, ScanInBounds
      <4>3. QED
        BY <4>1, <4>2
    <3>7. ASSUME NEW v \in Worker, pc'[v] = "steal"
          PROVE  Victim(v)' \in 0 .. nqueues'-1
      <4>1. scan'[v].n \in Nat \ {0} /\ scan'[v].i + v \in Nat
        BY <3>3, <3>6, <3>7 DEF Worker
      <4>2. (scan'[v].i + v) % scan'[v].n \in 0 .. scan'[v].n - 1
        BY <4>1, ModBound
      <4>3. nqueues' \in Nat
        BY <3>4 DEF TypeOK
      <4>4. QED
        BY <3>6, <3>7, <4>1, <4>2, <4>3 DEF Victim
    <3>8. QED
      BY <3>4, <3>5, <3>6, <3>7 DEF TypeInv, ScanInBounds
  <2>5. CASE BlockAt(w, Victim(w))
    BY <1>5, <2>5, TypeBlockAt DEF Steal
  <2>6. QED
    BY <1>5, <2>2, <2>3, <2>4, <2>5 DEF Steal
<1>6. ASSUME NEW t \in Task, SubmitNested(w, t)
      PROVE  TypeInv'
  <2>1. CASE Crash
    BY <2>1, TypeCrash
  <2>2. CASE /\ future' = [future EXCEPT ![t] = "pending"]
             /\ queue' = IF w \in destroyed THEN queue
                                            ELSE [queue EXCEPT ![w] = <<t>> \o @]
             /\ UNCHANGED <<life, nqueues, destroyed, done, pc, held, scan, crashed>>
    <3>1. queue[w] \in Seq(Task) /\ <<t>> \o queue[w] \in Seq(Task)
      BY <1>0, PushFront DEF TypeInv, TypeOK
    <3>2. queue' \in [Place -> Seq(Task)]
      BY <1>0, <2>2, <3>1 DEF TypeInv, TypeOK
    <3>3. TypeOK'
      BY <2>2, <3>2 DEF TypeInv, TypeOK, Outcome
    <3>4. QED
      BY <2>2, <3>3 DEF TypeInv, StartedHaveQueue, ScanInBounds, Victim
  <2>3. CASE BlockAt(w, w)
    BY <1>6, <2>3, TypeBlockAt DEF SubmitNested
  <2>4. QED
    BY <1>6, <2>1, <2>2, <2>3 DEF SubmitNested
<1>7. CASE Finish(w)
  BY <1>7 DEF Finish, TypeInv, TypeOK, StartedHaveQueue, ScanInBounds, Victim,
              Location, Outcome
<1>8. QED
  BY <1>1, <1>2, <1>3, <1>4, <1>5, <1>6, <1>7 DEF WorkerStep

LEMMA TypeStep == TypeInv /\ [Next]_vars => TypeInv'
<1> SUFFICES ASSUME TypeInv, [Next]_vars PROVE TypeInv'
  OBVIOUS
<1>1. CASE Next
  BY <1>1, TypeOwner, TypeWorker DEF Next
<1>2. CASE UNCHANGED vars
  BY <1>2 DEF vars, TypeInv, TypeOK, StartedHaveQueue, ScanInBounds, Victim
<1>3. QED
  BY <1>1, <1>2

\* Every variable of the pool keeps its type, whatever the owner, the workers
\* and the racing read of worker_queues_.size() do.
THEOREM TypeCorrect == Spec => []TypeOK
<1>1. TypeInv => TypeOK
  BY DEF TypeInv
<1>2. QED
  BY <1>1, TypeInit, TypeStep, PTL DEF Spec

\* The steal loop never divides by zero and never indexes past the end of
\* worker_queues_, for any number of threads, also during construction.
THEOREM ScanIsInBounds == Spec => []ScanInBounds
<1>1. TypeInv => ScanInBounds
  BY DEF TypeInv
<1>2. QED
  BY <1>1, TypeInit, TypeStep, PTL DEF Spec

-----------------------------------------------------------------------------
(* THE SAFETY INVARIANTS.                                                  *)

SafetyInv ==
  /\ TypeInv
  /\ NothingTwice
  /\ NothingLost
  /\ OwnDequeFirst
  /\ NobodyLeftBehind

(* Facts about queues and hands.                                           *)

LEMMA Slots ==
  ASSUME TypeOK, NEW p \in Place
  PROVE  /\ queue[p] \in Seq(Task)
         /\ Len(queue[p]) \in Nat
         /\ DOMAIN queue[p] = 1 .. Len(queue[p])
         /\ queue[p] = <<>> <=> Len(queue[p]) = 0
<1>1. queue[p] \in Seq(Task)
  BY DEF TypeOK
<1>2. QED
  BY <1>1, LenProperties, EmptySeq

LEMMA Places == Global \in Place /\ Global \notin Worker /\ Worker \subseteq Place
BY NAssumption DEF Global, Place, Worker

\* What a queue holds after its head has been taken.
LEMMA AfterTake ==
  ASSUME TypeOK, NEW w \in Worker, NEW p \in Place, TakeFrom(w, p)
  PROVE  /\ Head(queue[p]) = queue[p][1] /\ 1 \in DOMAIN queue[p]
         /\ Head(queue[p]) \in Task
         /\ DOMAIN queue'[p] = 1 .. Len(queue[p]) - 1
         /\ \A i \in DOMAIN queue'[p] :
              i + 1 \in DOMAIN queue[p] /\ queue'[p][i] = queue[p][i+1]
         /\ \A i \in DOMAIN queue[p] :
              i # 1 => i - 1 \in DOMAIN queue'[p] /\ queue'[p][i-1] = queue[p][i]
         /\ \A q \in Place : q # p => queue'[q] = queue[q]
         /\ held' = [held EXCEPT ![w] = Head(queue[p])]
<1>1. queue[p] \in Seq(Task) /\ queue[p] # <<>> /\ Len(queue[p]) \in Nat \ {0}
  BY Slots, EmptySeq DEF TakeFrom
<1>2. DOMAIN queue[p] = 1 .. Len(queue[p])
  BY Slots
<1>3. queue'[p] = Tail(queue[p]) /\ \A q \in Place : q # p => queue'[q] = queue[q]
  BY DEF TakeFrom, TypeOK
<1>4. /\ Head(queue[p]) \in Task
      /\ Tail(queue[p]) \in Seq(Task)
      /\ Len(Tail(queue[p])) = Len(queue[p]) - 1
      /\ \A i \in 1 .. Len(Tail(queue[p])) : Tail(queue[p])[i] = queue[p][i+1]
  BY <1>1, HeadTailProperties
<1>5. DOMAIN Tail(queue[p]) = 1 .. Len(queue[p]) - 1
  BY <1>4, LenProperties
<1>6. Head(queue[p]) = queue[p][1] /\ 1 \in DOMAIN queue[p]
  BY <1>1, <1>2
<1>7. \A i \in DOMAIN queue'[p] :
        i + 1 \in DOMAIN queue[p] /\ queue'[p][i] = queue[p][i+1]
  BY <1>1, <1>2, <1>3, <1>4, <1>5
<1>8. \A i \in DOMAIN queue[p] :
        i # 1 => i - 1 \in DOMAIN queue'[p] /\ queue'[p][i-1] = queue[p][i]
  <2>1. SUFFICES ASSUME NEW i \in 2 .. Len(queue[p])
                 PROVE  i - 1 \in DOMAIN queue'[p] /\ queue'[p][i-1] = queue[p][i]
    BY <1>1, <1>2
  <2>2. i - 1 \in DOMAIN queue'[p] /\ (i - 1) + 1 = i
    BY <1>1, <1>3, <1>5
  <2>3. QED
    BY <1>7, <2>2
<1>9. QED
  BY <1>3, <1>4, <1>5, <1>6, <1>7, <1>8 DEF TakeFrom

\* What a queue holds after a task has been pushed at its front or at its back.
Pushed(p, t) ==
  /\ \A q \in Place : q # p => queue'[q] = queue[q]
  /\ \E k \in DOMAIN queue'[p] :
       /\ queue'[p][k] = t
       /\ \A i \in DOMAIN queue'[p] : i # k =>
            \E j \in DOMAIN queue[p] :
              queue'[p][i] = queue[p][j] /\ j = IF i > k THEN i - 1 ELSE i
  /\ \A j \in DOMAIN queue[p] : \E i \in DOMAIN queue'[p] : queue'[p][i] = queue[p][j]

LEMMA FrontPush ==
  ASSUME TypeOK, NEW p \in Place, NEW t \in Task,
         queue' = [queue EXCEPT ![p] = <<t>> \o @]
  PROVE  Pushed(p, t)
<1> DEFINE s == queue[p]
           r == <<t>> \o s
<1>1. s \in Seq(Task) /\ Len(s) \in Nat /\ DOMAIN s = 1 .. Len(s)
  BY Slots
<1>2. /\ r \in Seq(Task) /\ Len(r) = Len(s) + 1 /\ r[1] = t
      /\ \A i \in 2 .. Len(s) + 1 : r[i] = s[i-1]
  BY <1>1, PushFront
<1>3. DOMAIN r = 1 .. Len(s) + 1
  BY <1>2, LenProperties
<1>4. queue'[p] = r /\ \A q \in Place : q # p => queue'[q] = queue[q]
  BY DEF TypeOK
<1> HIDE DEF s, r
<1>5. 1 \in DOMAIN r
  BY <1>1, <1>3
<1>6. ASSUME NEW i \in DOMAIN r, i # 1
      PROVE  i - 1 \in DOMAIN s /\ r[i] = s[i-1] /\ i > 1
  BY <1>1, <1>2, <1>3, <1>6
<1>7. ASSUME NEW j \in DOMAIN s
      PROVE  j + 1 \in DOMAIN r /\ r[j+1] = s[j]
  <2>1. j + 1 \in 2 .. Len(s) + 1 /\ (j + 1) - 1 = j
    BY <1>1
  <2>2. QED
    BY <1>1, <1>2, <1>3, <2>1
<1>8. \A i \in DOMAIN r : i # 1 =>
        \E j \in DOMAIN s : r[i] = s[j] /\ j = IF i > 1 THEN i - 1 ELSE i
  BY <1>6
<1>9. \A j \in DOMAIN s : \E i \in DOMAIN r : r[i] = s[j]
  BY <1>7
<1>10. \E k \in DOMAIN r :
        /\ r[k] = t
        /\ \A i \in DOMAIN r : i # k =>
             \E j \in DOMAIN s : r[i] = s[j] /\ j = IF i > k THEN i - 1 ELSE i
  BY <1>2, <1>5, <1>8
<1>11. \E k \in DOMAIN queue'[p] :
        /\ queue'[p][k] = t
        /\ \A i \in DOMAIN queue'[p] : i # k =>
             \E j \in DOMAIN queue[p] :
               queue'[p][i] = queue[p][j] /\ j = IF i > k THEN i - 1 ELSE i
  BY <1>4, <1>10 DEF s
<1>12. \A j \in DOMAIN queue[p] : \E i \in DOMAIN queue'[p] : queue'[p][i] = queue[p][j]
  BY <1>4, <1>9 DEF s
<1>13. QED
  BY <1>4, <1>11, <1>12 DEF Pushed

LEMMA BackPush ==
  ASSUME TypeOK, NEW p \in Place, NEW t \in Task,
         queue' = [queue EXCEPT ![p] = Append(@, t)]
  PROVE  Pushed(p, t)
<1> DEFINE s == queue[p]
           r == Append(s, t)
           k == Len(s) + 1
<1>1. s \in Seq(Task) /\ Len(s) \in Nat /\ DOMAIN s = 1 .. Len(s)
  BY Slots
<1>2. /\ r \in Seq(Task) /\ Len(r) = Len(s) + 1 /\ r[Len(s) + 1] = t
      /\ \A i \in 1 .. Len(s) : r[i] = s[i]
  BY <1>1
<1>3. DOMAIN r = 1 .. Len(s) + 1
  BY <1>2, LenProperties
<1>4. queue'[p] = r /\ \A q \in Place : q # p => queue'[q] = queue[q]
  BY DEF TypeOK
<1> HIDE DEF s, r
<1>5. k \in DOMAIN r /\ r[k] = t
  BY <1>1, <1>2, <1>3
<1>6. ASSUME NEW i \in DOMAIN r, i # k
      PROVE  i \in DOMAIN s /\ r[i] = s[i] /\ ~(i > k)
  BY <1>1, <1>2, <1>3, <1>6
<1>7. ASSUME NEW j \in DOMAIN s
      PROVE  j \in DOMAIN r /\ r[j] = s[j]
  BY <1>1, <1>2, <1>3
<1> HIDE DEF k
<1>8. ASSUME NEW i \in DOMAIN r, i # k
      PROVE  \E j \in DOMAIN s : r[i] = s[j] /\ j = IF i > k THEN i - 1 ELSE i
  BY <1>6, <1>8
<1>9. queue'[p] = r /\ queue[p] = s
  BY <1>4 DEF s
<1>10. \E n \in DOMAIN queue'[p] :
         /\ queue'[p][n] = t
         /\ \A i \in DOMAIN queue'[p] : i # n =>
              \E j \in DOMAIN queue[p] :
                queue'[p][i] = queue[p][j] /\ j = IF i > n THEN i - 1 ELSE i
  <2>1. \A i \in DOMAIN r : i # k =>
          \E j \in DOMAIN s : r[i] = s[j] /\ j = IF i > k THEN i - 1 ELSE i
    BY <1>8
  <2>2. \E n \in DOMAIN r :
          /\ r[n] = t
          /\ \A i \in DOMAIN r : i # n =>
               \E j \in DOMAIN s : r[i] = s[j] /\ j = IF i > n THEN i - 1 ELSE i
    <3>1. k \in DOMAIN r
      BY <1>5
    <3>2. WITNESS k \in DOMAIN r
    <3>3. QED
      BY <1>5, <2>1
  <2>3. QED
    BY <1>9, <2>2
<1>11. \A j \in DOMAIN queue[p] : \E i \in DOMAIN queue'[p] : queue'[p][i] = queue[p][j]
  <2>1. \A j \in DOMAIN s : \E i \in DOMAIN r : r[i] = s[j]
    BY <1>7
  <2>2. QED
    BY <1>9, <2>1
<1>12. QED
  BY <1>4, <1>10, <1>11 DEF Pushed

-----------------------------------------------------------------------------
(* What each kind of step does to NothingTwice and NothingLost.            *)

LEMMA CoreTake ==
  ASSUME SafetyInv, TypeOK', NEW w \in Worker, NEW p \in Place,
         held[w] = NoTask, TakeFrom(w, p)
  PROVE  NothingTwice' /\ NothingLost'
<1> USE DEF SafetyInv, TypeInv
<1> DEFINE h == Head(queue[p])
<1>1. /\ h = queue[p][1] /\ 1 \in DOMAIN queue[p] /\ h \in Task
      /\ \A i \in DOMAIN queue'[p] :
           i + 1 \in DOMAIN queue[p] /\ queue'[p][i] = queue[p][i+1]
      /\ \A i \in DOMAIN queue[p] :
           i # 1 => i - 1 \in DOMAIN queue'[p] /\ queue'[p][i-1] = queue[p][i]
      /\ \A q \in Place : q # p => queue'[q] = queue[q]
      /\ held' = [held EXCEPT ![w] = h]
  BY AfterTake
<1>2. DOMAIN queue'[p] \subseteq Nat \ {0}
  BY AfterTake, Slots
<1>3. h # NoTask /\ Queued(h) /\ h \notin HeldTasks
  BY <1>1, NoTaskAssumption DEF NothingTwice, HeldNotQueued, Queued, QueuedAt
<1>4. HeldTasks' = HeldTasks \cup {h}
  <2>1. \A v \in Worker : held'[v] = IF v = w THEN h ELSE held[v]
    BY <1>1 DEF TypeOK
  <2>2. QED
    BY <1>3, <2>1 DEF HeldTasks
<1> HIDE DEF h
<1>5. ASSUME NEW q \in Place, NEW i \in DOMAIN queue'[q]
      PROVE  /\ queue'[q][i] \in QueuedAt(q)
             /\ queue'[q][i] # h
             /\ i \in Nat
             /\ queue'[q][i] = queue[q][IF q = p THEN i + 1 ELSE i]
             /\ (IF q = p THEN i + 1 ELSE i) \in DOMAIN queue[q]
  <2>1. CASE q = p
    <3>1. i + 1 # 1 /\ i \in Nat
      BY <1>2, <2>1
    <3>2. QED
      BY <1>1, <2>1, <3>1 DEF NothingTwice, QueuedOnce, QueuedAt
  <2>2. CASE q # p
    <3>1. queue'[q] = queue[q] /\ i \in DOMAIN queue[q]
      BY <1>1, <2>2
    <3>2. i \in Nat
      BY <3>1, Slots
    <3>3. QED
      BY <1>1, <2>2, <3>1, <3>2 DEF NothingTwice, QueuedOnce, QueuedAt
  <2>3. QED
    BY <2>1, <2>2
<1>6. QueuedOnce'
  <2>1. SUFFICES ASSUME NEW q \in Place, NEW r \in Place,
                        NEW i \in DOMAIN queue'[q], NEW j \in DOMAIN queue'[r],
                        queue'[q][i] = queue'[r][j]
                 PROVE  q = r /\ i = j
    BY DEF QueuedOnce
  <2>2. q = r /\ (IF q = p THEN i + 1 ELSE i) = (IF r = p THEN j + 1 ELSE j)
    BY <1>5, <2>1 DEF NothingTwice, QueuedOnce
  <2>3. QED
    BY <1>5, <2>2
<1>7. HeldOnce'
  <2>1. SUFFICES ASSUME NEW u \in Worker, NEW v \in Worker,
                        held'[u] = held'[v], held'[u] # NoTask
                 PROVE  u = v
    BY DEF HeldOnce
  <2>2. \A x \in Worker : held'[x] = IF x = w THEN h ELSE held[x]
    BY <1>1 DEF TypeOK
  <2>3. \A x \in Worker : held[x] # h
    BY <1>3 DEF HeldTasks
  <2>4. QED
    BY <2>1, <2>2, <2>3 DEF NothingTwice, HeldOnce
<1>8. ASSUME NEW t \in Task, Queued(t)'
      PROVE  Queued(t) /\ t # h
  <2>1. PICK q \in Place : t \in QueuedAt(q)'
    BY <1>8 DEF Queued
  <2>2. PICK i \in DOMAIN queue'[q] : queue'[q][i] = t
    BY <2>1 DEF QueuedAt
  <2>3. QED
    BY <1>5, <2>2 DEF Queued
<1>9. HeldNotQueued'
  <2>1. HeldTasks' \subseteq Task
    BY DEF HeldTasks, TypeOK
  <2>2. QED
    BY <1>4, <1>8, <2>1 DEF NothingTwice, HeldNotQueued
<1>10. OnlyPendingAround'
  <2>1. future' = future
    BY DEF TakeFrom
  <2>2. QED
    BY <1>3, <1>4, <1>8, <2>1 DEF NothingTwice, OnlyPendingAround
<1>11. NothingLost'
  <2>1. SUFFICES ASSUME destroyed = {}, NEW t \in Task, future[t] = "pending", t \notin HeldTasks'
                 PROVE  Queued(t)'
    BY DEF NothingLost, TakeFrom
  <2>2. Queued(t) /\ t # h
    BY <1>4, <2>1 DEF NothingLost
  <2>3. PICK q \in Place : \E i \in DOMAIN queue[q] : queue[q][i] = t
    BY <2>2 DEF Queued, QueuedAt
  <2>4. \E j \in DOMAIN queue'[q] : queue'[q][j] = t
    BY <1>1, <2>2, <2>3
  <2>5. QED
    BY <2>4 DEF Queued, QueuedAt
<1>12. QED
  BY <1>6, <1>7, <1>9, <1>10, <1>11 DEF NothingTwice

LEMMA CorePush ==
  ASSUME SafetyInv, NEW p \in Place, NEW t \in Task, TypeOK',
         future[t] = "none", future' = [future EXCEPT ![t] = "pending"],
         Pushed(p, t), held' = held, destroyed' = destroyed
  PROVE  NothingTwice' /\ NothingLost'
<1> USE DEF SafetyInv, TypeInv
<1>1. PICK k \in DOMAIN queue'[p] :
        /\ queue'[p][k] = t
        /\ \A i \in DOMAIN queue'[p] : i # k =>
             \E j \in DOMAIN queue[p] :
               queue'[p][i] = queue[p][j] /\ j = IF i > k THEN i - 1 ELSE i
  BY DEF Pushed
<1>2. /\ \A q \in Place : q # p => queue'[q] = queue[q]
      /\ \A j \in DOMAIN queue[p] : \E i \in DOMAIN queue'[p] : queue'[p][i] = queue[p][j]
  BY DEF Pushed
<1>3. ~Queued(t) /\ t \notin HeldTasks
  BY DEF NothingTwice, OnlyPendingAround
<1>4. HeldTasks' = HeldTasks
  BY DEF HeldTasks
<1>5. \A q \in Place : DOMAIN queue[q] \subseteq Nat /\ DOMAIN queue'[q] \subseteq Nat
  <2>1. \A q \in Place : queue[q] \in Seq(Task) /\ queue'[q] \in Seq(Task)
    BY DEF TypeOK
  <2>2. QED
    BY <2>1, LenProperties
<1>6. \A q \in Place : \A j \in DOMAIN queue[q] : queue[q][j] # t
  BY <1>3 DEF Queued, QueuedAt
<1>7. ASSUME NEW u \in Task, Queued(u)', u # t
      PROVE  Queued(u)
  <2>1. PICK q \in Place : \E i \in DOMAIN queue'[q] : queue'[q][i] = u
    BY <1>7 DEF Queued, QueuedAt
  <2>2. \E j \in DOMAIN queue[q] : queue[q][j] = u
    BY <1>1, <1>2, <1>7, <2>1
  <2>3. QED
    BY <2>2 DEF Queued, QueuedAt
<1>8. ASSUME NEW u \in Task, Queued(u)
      PROVE  Queued(u)'
  <2>1. PICK q \in Place : \E i \in DOMAIN queue[q] : queue[q][i] = u
    BY <1>8 DEF Queued, QueuedAt
  <2>2. \E j \in DOMAIN queue'[q] : queue'[q][j] = u
    BY <1>2, <2>1
  <2>3. QED
    BY <2>2 DEF Queued, QueuedAt
<1>9. Queued(t)'
  BY <1>1 DEF Queued, QueuedAt
<1>10. QueuedOnce'
  <2>1. SUFFICES ASSUME NEW q \in Place, NEW r \in Place,
                        NEW i \in DOMAIN queue'[q], NEW j \in DOMAIN queue'[r],
                        queue'[q][i] = queue'[r][j]
                 PROVE  q = r /\ i = j
    BY DEF QueuedOnce
  <2>2. CASE queue'[q][i] = t
    <3>1. ASSUME NEW x \in Place, NEW m \in DOMAIN queue'[x], queue'[x][m] = t
          PROVE  x = p /\ m = k
      BY <1>1, <1>2, <1>6, <3>1
    <3>2. QED
      BY <2>1, <2>2, <3>1
  <2>3. CASE queue'[q][i] # t
    <3>1. ASSUME NEW x \in Place, NEW m \in DOMAIN queue'[x], queue'[x][m] # t
          PROVE  \E n \in DOMAIN queue[x] :
                   queue'[x][m] = queue[x][n]
                   /\ n = IF x = p /\ m > k THEN m - 1 ELSE m
      BY <1>1, <1>2, <3>1
    <3>2. PICK a \in DOMAIN queue[q] :
            queue'[q][i] = queue[q][a] /\ a = IF q = p /\ i > k THEN i - 1 ELSE i
      BY <2>3, <3>1
    <3>3. PICK b \in DOMAIN queue[r] :
            queue'[r][j] = queue[r][b] /\ b = IF r = p /\ j > k THEN j - 1 ELSE j
      BY <2>1, <2>3, <3>1
    <3>4. q = r /\ a = b
      <4>1. queue[q][a] = queue[r][b]
        BY <2>1, <3>2, <3>3
      <4>2. QED
        BY <4>1 DEF NothingTwice, QueuedOnce
    <3>5. (q = p => i # k) /\ (r = p => j # k)
      BY <1>1, <2>1, <2>3
    <3>6. i \in Nat /\ j \in Nat /\ k \in Nat
      BY <1>5
    <3>7. QED
      BY <3>2, <3>3, <3>4, <3>5, <3>6
  <2>4. QED
    BY <2>2, <2>3
<1>11. HeldOnce'
  BY DEF NothingTwice, HeldOnce
<1>12. HeldNotQueued'
  <2>1. HeldTasks \subseteq Task
    BY DEF HeldTasks, TypeOK
  <2>2. QED
    BY <1>3, <1>4, <1>7, <2>1 DEF NothingTwice, HeldNotQueued
<1>13. OnlyPendingAround'
  <2>1. \A u \in Task : future'[u] = IF u = t THEN "pending" ELSE future[u]
    BY DEF TypeOK
  <2>2. QED
    BY <1>4, <1>7, <2>1 DEF NothingTwice, OnlyPendingAround
<1>14. NothingLost'
  <2>1. \A u \in Task : u # t => future'[u] = future[u]
    BY DEF TypeOK
  <2>2. QED
    BY <1>4, <1>8, <1>9, <2>1 DEF NothingLost
<1>15. QED
  BY <1>10, <1>11, <1>12, <1>13, <1>14 DEF NothingTwice

LEMMA CoreSame ==
  ASSUME SafetyInv, UNCHANGED <<queue, held, future, destroyed>>
  PROVE  NothingTwice' /\ NothingLost'
<1>1. /\ HeldTasks' = HeldTasks
      /\ \A p \in Place : QueuedAt(p)' = QueuedAt(p)
  BY DEF HeldTasks, QueuedAt
<1>2. \A t : Queued(t)' <=> Queued(t)
  BY <1>1 DEF Queued
<1>3. QED
  BY <1>1, <1>2 DEF SafetyInv, NothingTwice, QueuedOnce, HeldOnce, HeldNotQueued,
                    OnlyPendingAround, NothingLost

LEMMA CoreRefused ==
  ASSUME SafetyInv, NEW t \in Task, destroyed # {}, destroyed' = destroyed,
         future[t] = "none", future' = [future EXCEPT ![t] = "pending"],
         queue' = queue, held' = held
  PROVE  NothingTwice' /\ NothingLost'
<1>1. /\ HeldTasks' = HeldTasks
      /\ \A p \in Place : QueuedAt(p)' = QueuedAt(p)
  BY DEF HeldTasks, QueuedAt
<1>2. \A u : Queued(u)' <=> Queued(u)
  BY <1>1 DEF Queued
<1>3. \A u \in Task : u # t => future'[u] = future[u]
  BY DEF SafetyInv, TypeInv, TypeOK
<1>4. ~Queued(t) /\ t \notin HeldTasks
  BY DEF SafetyInv, NothingTwice, OnlyPendingAround
<1>5. QED
  BY <1>1, <1>2, <1>3, <1>4
     DEF SafetyInv, NothingTwice, QueuedOnce, HeldOnce, HeldNotQueued,
         OnlyPendingAround, NothingLost

LEMMA CoreDestroy ==
  ASSUME SafetyInv, NEW p \in Place, DestroyQueue(p)
  PROVE  NothingTwice' /\ NothingLost'
<1> USE DEF SafetyInv, TypeInv
<1>1. /\ queue'[p] = <<>>
      /\ \A q \in Place : q # p => queue'[q] = queue[q]
      /\ held' = held /\ future' = future /\ p \in destroyed'
  BY DEF DestroyQueue, TypeOK
<1>2. DOMAIN queue'[p] = {}
  BY <1>1
<1>3. HeldTasks' = HeldTasks
  BY <1>1 DEF HeldTasks
<1>4. \A q \in Place : QueuedAt(q)' \subseteq QueuedAt(q)
  BY <1>1, <1>2 DEF QueuedAt
<1>5. \A t : Queued(t)' => Queued(t)
  BY <1>4 DEF Queued
<1>6. QueuedOnce'
  BY <1>1, <1>2 DEF NothingTwice, QueuedOnce
<1>7. QED
  BY <1>1, <1>3, <1>5, <1>6 DEF NothingTwice, HeldOnce, HeldNotQueued,
                                OnlyPendingAround, NothingLost

LEMMA CoreFinish ==
  ASSUME SafetyInv, NEW w \in Worker, Finish(w)
  PROVE  NothingTwice' /\ NothingLost'
<1> USE DEF SafetyInv, TypeInv
<1>1. held[w] # NoTask /\ held[w] \in Task /\ held[w] \in HeldTasks
  BY DEF Finish, NobodyLeftBehind, HandsMatch, TypeOK, HeldTasks
<1>2. /\ \A v \in Worker : held'[v] = IF v = w THEN NoTask ELSE held[v]
      /\ \A t \in Task : t # held[w] => future'[t] = future[t]
      /\ future'[held[w]] \in {"value", "exception"}
      /\ queue' = queue /\ destroyed' = destroyed
  BY <1>1 DEF Finish, TypeOK
<1>3. HeldTasks' = HeldTasks \ {held[w]}
  <2>1. \A v \in Worker : v # w /\ held[v] # NoTask => held[v] # held[w]
    BY DEF NothingTwice, HeldOnce
  <2>2. QED
    BY <1>2, <2>1 DEF HeldTasks
<1>4. \A t : Queued(t)' <=> Queued(t)
  BY <1>2 DEF Queued, QueuedAt
<1>5. ~Queued(held[w])
  BY <1>1 DEF NothingTwice, HeldNotQueued
<1>6. QueuedOnce'
  BY <1>2 DEF NothingTwice, QueuedOnce
<1>7. HeldOnce'
  BY <1>2 DEF NothingTwice, HeldOnce
<1>8. HeldNotQueued' /\ OnlyPendingAround'
  BY <1>2, <1>3, <1>4, <1>5 DEF NothingTwice, HeldNotQueued, OnlyPendingAround
<1>9. NothingLost'
  <2>1. \A t \in Task : future'[t] = "pending" => t # held[w] /\ future[t] = "pending"
    BY <1>2
  <2>2. QED
    BY <1>2, <1>3, <1>4, <2>1 DEF NothingLost
<1>10. QED
  BY <1>6, <1>7, <1>8, <1>9 DEF NothingTwice

-----------------------------------------------------------------------------
(* OwnDequeFirst and NobodyLeftBehind, and the induction.                  *)

LocalInv == OwnDequeFirst /\ NobodyLeftBehind

\* Steps that leave queues, hands and locations alone keep LocalInv as long as
\* the pool does not reach the end of its life.
LEMMA LocalSame ==
  ASSUME SafetyInv, UNCHANGED <<queue, held, pc>>, life' = "gone" => life = "gone"
  PROVE  LocalInv'
BY DEF SafetyInv, LocalInv, OwnDequeFirst, NobodyLeftBehind, HandsMatch, GoneMeansStopped

LEMMA LocalTake ==
  ASSUME SafetyInv, NEW w \in Worker, NEW p \in Place, TakeFrom(w, p),
         pc[w] \in {"local", "global", "steal"}
  PROVE  LocalInv'
<1> USE DEF SafetyInv, TypeInv
<1>1. /\ \A v \in Worker : pc'[v] = IF v = w THEN "run" ELSE pc[v]
      /\ \A v \in Worker : held'[v] = IF v = w THEN Head(queue[p]) ELSE held[v]
      /\ \A q \in Place : q # p => queue'[q] = queue[q]
      /\ queue[p] # <<>> /\ life' = life
  BY DEF TakeFrom, TypeOK
<1>2. Head(queue[p]) # NoTask
  BY AfterTake, NoTaskAssumption
<1>3. OwnDequeFirst'
  BY <1>1, Places DEF OwnDequeFirst
<1>4. HandsMatch'
  BY <1>1, <1>2 DEF NobodyLeftBehind, HandsMatch
<1>5. GoneMeansStopped'
  BY <1>1 DEF NobodyLeftBehind, GoneMeansStopped
<1>6. QED
  BY <1>3, <1>4, <1>5 DEF LocalInv, NobodyLeftBehind

\* A worker moves on with its hands as they were.
LEMMA LocalMove ==
  ASSUME SafetyInv, NEW w \in Worker, NEW next \in Location,
         pc' = [pc EXCEPT ![w] = next],
         next # "run", pc[w] \notin {"run", "blocked", "unborn", "exited"},
         next \in {"global", "size", "steal"} => queue[w] = <<>>,
         UNCHANGED <<queue, held, life>>
  PROVE  LocalInv'
<1>1. \A v \in Worker : pc'[v] = IF v = w THEN next ELSE pc[v]
  BY DEF SafetyInv, TypeInv, TypeOK
<1>2. OwnDequeFirst'
  BY <1>1 DEF SafetyInv, OwnDequeFirst
<1>3. HandsMatch'
  BY <1>1 DEF SafetyInv, NobodyLeftBehind, HandsMatch
<1>4. GoneMeansStopped'
  BY <1>1 DEF SafetyInv, NobodyLeftBehind, GoneMeansStopped
<1>5. QED
  BY <1>2, <1>3, <1>4 DEF LocalInv, NobodyLeftBehind

\* A worker that waits for ever at a dead queue keeps what it holds.
LEMMA LocalBlock ==
  ASSUME SafetyInv, NEW w \in Worker, NEW p, BlockAt(w, p),
         pc[w] \notin {"unborn", "exited"}
  PROVE  LocalInv'
<1>1. /\ \A v \in Worker : pc'[v] = IF v = w THEN "blocked" ELSE pc[v]
      /\ UNCHANGED <<queue, held, life>>
  BY DEF BlockAt, SafetyInv, TypeInv, TypeOK
<1>2. OwnDequeFirst'
  BY <1>1 DEF SafetyInv, OwnDequeFirst
<1>3. HandsMatch'
  BY <1>1 DEF SafetyInv, NobodyLeftBehind, HandsMatch
<1>4. GoneMeansStopped'
  BY <1>1 DEF SafetyInv, NobodyLeftBehind, GoneMeansStopped
<1>5. QED
  BY <1>2, <1>3, <1>4 DEF LocalInv, NobodyLeftBehind

LEMMA SafetyOwner ==
  ASSUME SafetyInv, TypeInv', OwnerStep
  PROVE  NothingTwice' /\ NothingLost' /\ LocalInv'
<1>1. CASE PushQueue
  BY <1>1, CoreSame, LocalSame DEF PushQueue
<1>2. ASSUME NEW w \in Worker, StartThread(w)
      PROVE  NothingTwice' /\ NothingLost' /\ LocalInv'
  <2>1. NothingTwice' /\ NothingLost'
    BY <1>2, CoreSame DEF StartThread
  <2>2. \A v \in Worker : pc'[v] = IF v = w THEN "loop" ELSE pc[v]
    BY <1>2 DEF StartThread, SafetyInv, TypeInv, TypeOK
  <2>3. OwnDequeFirst'
    BY <1>2, <2>2 DEF StartThread, SafetyInv, OwnDequeFirst
  <2>4. HandsMatch' /\ GoneMeansStopped'
    BY <1>2, <2>2 DEF StartThread, SafetyInv, NobodyLeftBehind, HandsMatch, GoneMeansStopped
  <2>5. QED
    BY <2>1, <2>3, <2>4 DEF LocalInv, NobodyLeftBehind
<1>3. CASE Constructed
  BY <1>3, CoreSame, LocalSame DEF Constructed
<1>4. CASE ConstructFails
  BY <1>4, CoreSame, LocalSame DEF ConstructFails
<1>5. ASSUME NEW t \in Task, SubmitExternal(t)
      PROVE  NothingTwice' /\ NothingLost' /\ LocalInv'
  <2>1. Pushed(Global, t)
    BY <1>5, Places, BackPush DEF SubmitExternal, SafetyInv, TypeInv
  <2>2. NothingTwice' /\ NothingLost'
    BY <1>5, <2>1, Places, CorePush DEF SubmitExternal, TypeInv
  <2>3. \A w \in Worker : queue'[w] = queue[w]
    BY <2>1, Places DEF Pushed
  <2>4. LocalInv'
    BY <1>5, <2>3 DEF SubmitExternal, SafetyInv, LocalInv, OwnDequeFirst,
                      NobodyLeftBehind, HandsMatch, GoneMeansStopped
  <2>5. QED
    BY <2>2, <2>4
<1>6. CASE Shutdown
  BY <1>6, CoreSame, LocalSame DEF Shutdown
<1>7. CASE BeginDestroy
  BY <1>7, CoreSame, LocalSame DEF BeginDestroy
<1>8. ASSUME NEW p \in Place, DestroyQueue(p)
      PROVE  NothingTwice' /\ NothingLost' /\ LocalInv'
  <2>1. \A q \in Place : queue'[q] = queue[q] \/ queue'[q] = <<>>
    BY <1>8 DEF DestroyQueue, SafetyInv, TypeInv, TypeOK
  <2>2. LocalInv'
    BY <1>8, <2>1, Places DEF DestroyQueue, SafetyInv, LocalInv, OwnDequeFirst,
                              NobodyLeftBehind, HandsMatch, GoneMeansStopped
  <2>3. QED
    BY <1>8, <2>2, CoreDestroy
<1>9. CASE Join
  <2>1. LocalInv'
    BY <1>9 DEF Join, SafetyInv, LocalInv, OwnDequeFirst, NobodyLeftBehind,
                HandsMatch, GoneMeansStopped
  <2>2. QED
    BY <1>9, <2>1, CoreSame DEF Join
<1>10. QED
  BY <1>1, <1>2, <1>3, <1>4, <1>5, <1>6, <1>7, <1>8, <1>9
     DEF OwnerStep, ConstructorStep, DestructorStep

LEMMA SafetyWorker ==
  ASSUME SafetyInv, TypeInv', NEW w \in Worker, WorkerStep(w)
  PROVE  NothingTwice' /\ NothingLost' /\ LocalInv'
<1> USE DEF SafetyInv
<1>1. ASSUME Crash \/ \E p : BlockAt(w, p), pc[w] \notin {"unborn", "exited"}
      PROVE  NothingTwice' /\ NothingLost' /\ LocalInv'
  BY <1>1, CoreSame, LocalSame, LocalBlock DEF Crash, BlockAt
<1>2. ASSUME NEW p \in Place, TakeFrom(w, p), pc[w] \in {"local", "global", "steal"}
      PROVE  NothingTwice' /\ NothingLost' /\ LocalInv'
  <2>1. held[w] = NoTask
    BY <1>2 DEF NobodyLeftBehind, HandsMatch
  <2>2. QED
    BY <1>2, <2>1, CoreTake, LocalTake DEF TypeInv
<1>3. CASE CheckDone(w)
  <2>1. NothingTwice' /\ NothingLost'
    BY <1>3, CoreSame DEF CheckDone
  <2>2. PICK next \in {"exited", "local"} : pc' = [pc EXCEPT ![w] = next]
    BY <1>3 DEF CheckDone
  <2>3. next \in Location
    BY DEF Location
  <2>4. LocalInv'
    BY <1>3, <2>2, <2>3, LocalMove DEF CheckDone
  <2>5. QED
    BY <2>1, <2>4
<1>4. CASE PopLocal(w)
  <2>1. CASE EmptyAt(w, w, "global")
    <3>1. NothingTwice' /\ NothingLost'
      BY <2>1, CoreSame DEF EmptyAt
    <3>2. LocalInv'
      BY <1>4, <2>1, LocalMove DEF PopLocal, EmptyAt, Location
    <3>3. QED
      BY <3>1, <3>2
  <2>2. QED
    BY <1>1, <1>2, <1>4, <2>1, Places DEF PopLocal
<1>5. CASE PopGlobal(w)
  <2>1. CASE EmptyAt(w, Global, "size")
    <3>1. NothingTwice' /\ NothingLost'
      BY <2>1, CoreSame DEF EmptyAt
    <3>2. queue[w] = <<>>
      BY <1>5 DEF PopGlobal, OwnDequeFirst
    <3>3. LocalInv'
      BY <1>5, <2>1, <3>2, LocalMove DEF PopGlobal, EmptyAt, Location
    <3>4. QED
      BY <3>1, <3>3
  <2>2. QED
    BY <1>1, <1>2, <1>5, <2>1, Places DEF PopGlobal
<1>6. CASE ReadSize(w)
  <2>1. NothingTwice' /\ NothingLost'
    BY <1>6, CoreSame DEF ReadSize
  <2>2. queue[w] = <<>>
    BY <1>6 DEF ReadSize, OwnDequeFirst
  <2>3. LocalInv'
    BY <1>6, <2>2, LocalMove DEF ReadSize, Location
  <2>4. QED
    BY <2>1, <2>3
<1>7. CASE Steal(w)
  <2>1. Victim(w) \in Place
    BY <1>7, NAssumption DEF Steal, TypeInv, TypeOK, ScanInBounds, Place
  <2>2. CASE /\ pc' = [pc EXCEPT ![w] = IF scan[w].i + 1 = scan[w].n THEN "loop" ELSE "steal"]
             /\ UNCHANGED <<life, nqueues, destroyed, done, queue, held, future, crashed>>
    <3>1. NothingTwice' /\ NothingLost'
      BY <2>2, CoreSame
    <3>2. queue[w] = <<>>
      BY <1>7 DEF Steal, OwnDequeFirst
    <3>3. PICK next \in {"loop", "steal"} : pc' = [pc EXCEPT ![w] = next]
      BY <2>2
    <3>4. next \in Location
      BY DEF Location
    <3>5. LocalInv'
      BY <1>7, <2>2, <3>2, <3>3, <3>4, LocalMove DEF Steal
    <3>6. QED
      BY <3>1, <3>5
  <2>3. QED
    BY <1>1, <1>2, <1>7, <2>1, <2>2 DEF Steal
<1>8. ASSUME NEW t \in Task, SubmitNested(w, t)
      PROVE  NothingTwice' /\ NothingLost' /\ LocalInv'
  <2>1. CASE Crash \/ BlockAt(w, w)
    BY <1>1, <1>8, <2>1 DEF SubmitNested
  <2>2. CASE /\ w \in destroyed
             /\ future' = [future EXCEPT ![t] = "pending"]
             /\ UNCHANGED <<queue, life, nqueues, destroyed, done, pc, held, scan, crashed>>
    <3>1. NothingTwice' /\ NothingLost'
      BY <1>8, <2>2, CoreRefused DEF SubmitNested
    <3>2. LocalInv'
      BY <2>2, LocalSame
    <3>3. QED
      BY <3>1, <3>2
  <2>3. CASE /\ future' = [future EXCEPT ![t] = "pending"]
             /\ queue' = [queue EXCEPT ![w] = <<t>> \o @]
             /\ UNCHANGED <<life, nqueues, destroyed, done, pc, held, scan, crashed>>
    <3>1. Pushed(w, t)
      BY <2>3, Places, FrontPush DEF TypeInv
    <3>2. NothingTwice' /\ NothingLost'
      BY <1>8, <2>3, <3>1, Places, CorePush DEF SubmitNested, TypeInv
    <3>3. \A v \in Worker : v # w => queue'[v] = queue[v]
      BY <3>1, Places DEF Pushed
    <3>4. LocalInv'
      BY <1>8, <2>3, <3>3 DEF SubmitNested, LocalInv, OwnDequeFirst,
                              NobodyLeftBehind, HandsMatch, GoneMeansStopped
    <3>5. QED
      BY <3>2, <3>4
  <2>4. QED
    BY <1>8, <2>1, <2>2, <2>3 DEF SubmitNested
<1>9. CASE Finish(w)
  <2>1. NothingTwice' /\ NothingLost'
    BY <1>9, CoreFinish
  <2>2. /\ \A v \in Worker : pc'[v] = IF v = w THEN "loop" ELSE pc[v]
        /\ \A v \in Worker : held'[v] = IF v = w THEN NoTask ELSE held[v]
        /\ queue' = queue /\ life' = life
    BY <1>9 DEF Finish, TypeInv, TypeOK
  <2>3. LocalInv'
    BY <1>9, <2>2 DEF Finish, LocalInv, OwnDequeFirst, NobodyLeftBehind,
                      HandsMatch, GoneMeansStopped
  <2>4. QED
    BY <2>1, <2>3
<1>10. QED
  BY <1>3, <1>4, <1>5, <1>6, <1>7, <1>8, <1>9 DEF WorkerStep

LEMMA SafetyInit == Init => SafetyInv
<1> SUFFICES ASSUME Init PROVE SafetyInv
  OBVIOUS
<1>1. TypeInv
  BY TypeInit
<1>2. HeldTasks = {} /\ \A p \in Place : queue[p] = <<>>
  BY DEF Init, HeldTasks
<1>3. \A p \in Place : DOMAIN queue[p] = {} /\ QueuedAt(p) = {}
  BY <1>2 DEF QueuedAt
<1>4. \A t : ~Queued(t)
  BY <1>3 DEF Queued
<1>5. NothingTwice
  BY <1>2, <1>3, <1>4 DEF Init, NothingTwice, QueuedOnce, HeldOnce, HeldNotQueued,
                          OnlyPendingAround
<1>6. NothingLost /\ OwnDequeFirst /\ NobodyLeftBehind
  BY DEF Init, NothingLost, OwnDequeFirst, NobodyLeftBehind, HandsMatch, GoneMeansStopped
<1>7. QED
  BY <1>1, <1>5, <1>6 DEF SafetyInv

LEMMA SafetyStep == SafetyInv /\ [Next]_vars => SafetyInv'
<1> SUFFICES ASSUME SafetyInv, [Next]_vars PROVE SafetyInv'
  OBVIOUS
<1>1. TypeInv'
  BY TypeStep DEF SafetyInv
<1>2. CASE Next
  BY <1>1, <1>2, SafetyOwner, SafetyWorker DEF Next, SafetyInv, LocalInv
<1>3. CASE UNCHANGED vars
  <2>1. NothingTwice' /\ NothingLost' /\ LocalInv'
    BY <1>3, CoreSame, LocalSame DEF vars
  <2>2. QED
    BY <1>1, <2>1 DEF SafetyInv, LocalInv
<1>4. QED
  BY <1>2, <1>3

LEMMA SafetyHolds == Spec => []SafetyInv
BY SafetyInit, SafetyStep, PTL DEF Spec

\* No callable is ever in two queues, in two hands, or in both, however push,
\* pop and steal interleave: no task can be run twice.
THEOREM NeverDuplicated == Spec => []NothingTwice
<1>1. SafetyInv => NothingTwice
  BY DEF SafetyInv
<1>2. QED
  BY <1>1, SafetyHolds, PTL

\* Before the destructor reaches the queues every unfinished task is in a queue
\* or in a worker's hands, also after shutdown() or a failed constructor.
THEOREM NeverLost == Spec => []NothingLost
<1>1. SafetyInv => NothingLost
  BY DEF SafetyInv
<1>2. QED
  BY <1>1, SafetyHolds, PTL

\* A worker takes from the global queue or from another worker only while its
\* own deque is empty.
THEOREM OwnDequeComesFirst == Spec => []OwnDequeFirst
<1>1. SafetyInv => OwnDequeFirst
  BY DEF SafetyInv
<1>2. QED
  BY <1>1, SafetyHolds, PTL

\* No worker leaves with a task in its hands, and none is left once the
\* destructor has returned.
THEOREM NobodyIsLeftBehind == Spec => []NobodyLeftBehind
<1>1. SafetyInv => NobodyLeftBehind
  BY DEF SafetyInv
<1>2. QED
  BY <1>1, SafetyHolds, PTL

-----------------------------------------------------------------------------
(* THE REFINEMENT OF TaskExecutor.                                         *)

\* Queues are destroyed by the destructor only.
DestroyedInDestructor == destroyed # {} => life \in {"destroy", "gone"}

RefInv == SafetyInv /\ DestroyedInDestructor

LEMMA RefInvHolds == Spec => []RefInv
<1>1. Init => DestroyedInDestructor
  BY DEF Init, DestroyedInDestructor
<1>2. ASSUME SafetyInv, DestroyedInDestructor, [Next]_vars
      PROVE  DestroyedInDestructor'
  <2>1. CASE \E p \in Place : DestroyQueue(p)
    BY <2>1 DEF DestroyQueue, DestroyedInDestructor
  <2>2. ASSUME OwnerStep, ~ \E p \in Place : DestroyQueue(p)
        PROVE  DestroyedInDestructor'
    BY <1>2, <2>2 DEF OwnerStep, ConstructorStep, DestructorStep, PushQueue, StartThread,
       Constructed, ConstructFails, SubmitExternal, Shutdown, BeginDestroy, Join,
       DestroyedInDestructor
  <2>3. ASSUME NEW w \in Worker, WorkerStep(w)
        PROVE  DestroyedInDestructor'
    BY <1>2, <2>3 DEF WorkerStep, CheckDone, PopLocal, PopGlobal, ReadSize, Steal,
       SubmitNested, Finish, TakeFrom, EmptyAt, BlockAt, Crash, DestroyedInDestructor
  <2>4. CASE UNCHANGED vars
    BY <1>2, <2>4 DEF vars, DestroyedInDestructor
  <2>5. QED
    BY <1>2, <2>1, <2>2, <2>3, <2>4 DEF Next
<1>3. QED
  BY <1>1, <1>2, SafetyHolds, SafetyInit, SafetyStep, PTL DEF Spec, RefInv

-----------------------------------------------------------------------------
(* How the steps of the pool change what a client sees.                    *)

Seen == [t \in Task |-> Status(t)]
Closing == life \in {"destroy", "gone"}

LEMMA StatusSame ==
  ASSUME NEW t \in Task, future'[t] = future[t],
         (t \in HeldTasks)' <=> t \in HeldTasks, Queued(t)' <=> Queued(t)
  PROVE  Status(t)' = Status(t)
BY DEF Status

LEMMA Stutter ==
  ASSUME \A t \in Task : Status(t)' = Status(t), Closing' = Closing
  PROVE  UNCHANGED Executor!vars
<1>1. Seen' = Seen
  BY DEF Seen
<1>2. QED
  BY <1>1 DEF Executor!vars, Seen, Closing

LEMMA MoveSet ==
  ASSUME NEW S \in SUBSET Task, S # {}, NEW from, NEW to,
         \A t \in S : Status(t) = from /\ Status(t)' = to,
         \A t \in Task \ S : Status(t)' = Status(t),
         Closing' = Closing
  PROVE  Executor!Move(S, from, to)
<1>1. \A t \in S : Seen[t] = from
  BY DEF Seen
<1>2. Seen' = [t \in Task |-> IF t \in S THEN to ELSE Seen[t]]
  BY DEF Seen
<1>3. QED
  BY <1>1, <1>2 DEF Executor!Move, Seen, Closing

LEMMA SameView ==
  ASSUME UNCHANGED <<queue, held, future>>
  PROVE  \A t \in Task : Status(t)' = Status(t)
<1>1. HeldTasks' = HeldTasks /\ \A p \in Place : QueuedAt(p)' = QueuedAt(p)
  BY DEF HeldTasks, QueuedAt
<1>2. QED
  BY <1>1 DEF Status, Queued

LEMMA TakeSeen ==
  ASSUME RefInv, RefInv', NEW w \in Worker, NEW p \in Place,
         held[w] = NoTask, TakeFrom(w, p)
  PROVE  \E t \in Task : Executor!Start(t)
<1> USE DEF RefInv, SafetyInv, TypeInv
<1>0. PICK h \in Task : h = Head(queue[p])
  BY AfterTake
<1>1. /\ h = queue[p][1] /\ 1 \in DOMAIN queue[p] /\ h \in Task
      /\ \A i \in DOMAIN queue'[p] :
           i + 1 \in DOMAIN queue[p] /\ queue'[p][i] = queue[p][i+1]
      /\ \A i \in DOMAIN queue[p] :
           i # 1 => i - 1 \in DOMAIN queue'[p] /\ queue'[p][i-1] = queue[p][i]
      /\ \A q \in Place : q # p => queue'[q] = queue[q]
      /\ held' = [held EXCEPT ![w] = h]
      /\ future' = future /\ life' = life
  BY <1>0, AfterTake DEF TakeFrom
<1>2. Queued(h) /\ h \notin HeldTasks /\ future[h] = "pending"
  BY <1>1 DEF Queued, QueuedAt, NothingTwice, HeldNotQueued, OnlyPendingAround
<1>3. HeldTasks' = HeldTasks \cup {h}
  <2>1. \A v \in Worker : held'[v] = IF v = w THEN h ELSE held[v]
    BY <1>1 DEF TypeOK
  <2>2. QED
    BY <1>1, <2>1, NoTaskAssumption DEF HeldTasks
<1>4. ASSUME NEW t \in Task, t # h
      PROVE  Queued(t)' <=> Queued(t)
  <2>1. ASSUME NEW q \in Place, NEW i \in DOMAIN queue[q], queue[q][i] = t
        PROVE  \E j \in DOMAIN queue'[q] : queue'[q][j] = t
    BY <1>1, <1>4, <2>1
  <2>2. ASSUME NEW q \in Place, NEW i \in DOMAIN queue'[q], queue'[q][i] = t
        PROVE  \E j \in DOMAIN queue[q] : queue[q][j] = t
    BY <1>1, <2>2
  <2>3. QED
    BY <2>1, <2>2 DEF Queued, QueuedAt
<1>5. Status(h) = "queued" /\ Status(h)' = "running"
  BY <1>1, <1>2, <1>3 DEF Status, Ready
<1>6. \A t \in Task : t # h => Status(t)' = Status(t)
  BY <1>1, <1>3, <1>4, StatusSame
<1>7. Executor!Move({h}, "queued", "running")
  BY <1>1, <1>5, <1>6, MoveSet DEF Closing
<1>8. QED
  BY <1>1, <1>7 DEF Executor!Start

LEMMA PushSeen ==
  ASSUME RefInv, RefInv', NEW p \in Place, NEW t \in Task, Pushed(p, t),
         future[t] = "none", future' = [future EXCEPT ![t] = "pending"],
         held' = held, life' = life
  PROVE  Executor!Submit(t)
<1> USE DEF RefInv, SafetyInv, TypeInv
<1>1. HeldTasks' = HeldTasks
  BY DEF HeldTasks
<1>2. t \notin HeldTasks
  BY DEF NothingTwice, OnlyPendingAround
<1>3. /\ future'[t] = "pending"
      /\ \A u \in Task : u # t => future'[u] = future[u]
  BY DEF TypeOK
<1>4. Queued(t)'
  BY DEF Pushed, Queued, QueuedAt
<1>5. ASSUME NEW u \in Task, u # t
      PROVE  Queued(u)' <=> Queued(u)
  <2>1. ASSUME NEW q \in Place, NEW i \in DOMAIN queue[q], queue[q][i] = u
        PROVE  \E j \in DOMAIN queue'[q] : queue'[q][j] = u
    BY <2>1 DEF Pushed
  <2>2. ASSUME NEW q \in Place, NEW i \in DOMAIN queue'[q], queue'[q][i] = u
        PROVE  \E j \in DOMAIN queue[q] : queue[q][j] = u
    BY <1>5, <2>2 DEF Pushed
  <2>3. QED
    BY <2>1, <2>2 DEF Queued, QueuedAt
<1>6. Status(t) = "unborn" /\ Status(t)' = "queued"
  BY <1>1, <1>2, <1>3, <1>4 DEF Status, Ready
<1>7. \A u \in Task : u # t => Status(u)' = Status(u)
  BY <1>1, <1>3, <1>5, StatusSame
<1>8. QED
  BY <1>6, <1>7, MoveSet DEF Executor!Submit, Closing

\* A task pushed into a destroyed deque is dropped at once.
LEMMA RefusedSeen ==
  ASSUME RefInv, NEW w \in Worker, NEW t \in Task, w \in destroyed,
         future[t] = "none", future' = [future EXCEPT ![t] = "pending"],
         UNCHANGED <<queue, held, life>>
  PROVE  Executor!Refuse(t)
<1> USE DEF RefInv, SafetyInv, TypeInv
<1>1. HeldTasks' = HeldTasks /\ \A u : Queued(u)' <=> Queued(u)
  BY DEF HeldTasks, Queued, QueuedAt
<1>2. t \notin HeldTasks /\ ~Queued(t)
  BY DEF NothingTwice, OnlyPendingAround
<1>3. /\ future'[t] = "pending"
      /\ \A u \in Task : u # t => future'[u] = future[u]
  BY DEF TypeOK
<1>4. Status(t) = "unborn" /\ Status(t)' = "dropped"
  BY <1>1, <1>2, <1>3 DEF Status, Ready
<1>5. \A u \in Task : u # t => Status(u)' = Status(u)
  BY <1>1, <1>3, StatusSame
<1>6. Executor!Move({t}, "unborn", "dropped")
  BY <1>4, <1>5, MoveSet DEF Closing
<1>7. life \in {"destroy", "gone"}
  BY DEF DestroyedInDestructor
<1>8. QED
  BY <1>6, <1>7 DEF Executor!Refuse

LEMMA FinishSeen ==
  ASSUME RefInv, NEW w \in Worker, Finish(w)
  PROVE  \E t \in Task : Executor!Finish(t)
<1> USE DEF RefInv, SafetyInv, TypeInv
<1>0. PICK h \in Task : h = held[w]
  BY DEF Finish, NobodyLeftBehind, HandsMatch, TypeOK
<1>1. h # NoTask /\ h \in Task /\ h \in HeldTasks
  BY <1>0, NoTaskAssumption DEF HeldTasks
<1>2. /\ \A v \in Worker : held'[v] = IF v = w THEN NoTask ELSE held[v]
      /\ \A t \in Task : t # h => future'[t] = future[t]
      /\ future'[h] \in {"value", "exception"}
      /\ queue' = queue /\ life' = life
  BY <1>0, <1>1 DEF Finish, TypeOK
<1>3. HeldTasks' = HeldTasks \ {h}
  <2>1. \A v \in Worker : v # w /\ held[v] # NoTask => held[v] # h
    BY <1>0 DEF NothingTwice, HeldOnce
  <2>2. QED
    BY <1>0, <1>2, <2>1 DEF HeldTasks
<1>4. \A t : Queued(t)' <=> Queued(t)
  BY <1>2 DEF Queued, QueuedAt
<1>5. future[h] = "pending"
  BY <1>1 DEF NothingTwice, OnlyPendingAround
<1>6. Status(h) = "running" /\ Status(h)' = "done"
  BY <1>1, <1>2, <1>3, <1>5 DEF Status, Ready
<1>7. \A t \in Task : t # h => Status(t)' = Status(t)
  BY <1>2, <1>3, <1>4, StatusSame
<1>8. Executor!Move({h}, "running", "done")
  BY <1>1, <1>2, <1>6, <1>7, MoveSet DEF Closing
<1>9. QED
  BY <1>1, <1>8 DEF Executor!Finish

LEMMA DestroySeen ==
  ASSUME RefInv, NEW p \in Place, DestroyQueue(p)
  PROVE  UNCHANGED Executor!vars \/ \E S \in SUBSET Task : Executor!Drop(S)
<1> USE DEF RefInv, SafetyInv, TypeInv
<1> DEFINE S == QueuedAt(p)
<1>1. /\ queue'[p] = <<>>
      /\ \A q \in Place : q # p => queue'[q] = queue[q]
      /\ held' = held /\ future' = future /\ life' = life /\ life = "destroy"
  BY DEF DestroyQueue, TypeOK
<1>2. HeldTasks' = HeldTasks
  BY <1>1 DEF HeldTasks
<1>3. QueuedAt(p)' = {} /\ \A q \in Place : q # p => QueuedAt(q)' = QueuedAt(q)
  BY <1>1 DEF QueuedAt
<1>4. S \subseteq Task
  <2>1. queue[p] \in Seq(Task)
    BY DEF TypeOK
  <2>2. QED
    BY <2>1, ElementOfSeq, LenProperties DEF QueuedAt
<1>5. ASSUME NEW t \in S
      PROVE  Status(t) = "queued" /\ Status(t)' = "dropped"
  <2>1. Queued(t) /\ t \in Task
    BY <1>4, <1>5 DEF Queued
  <2>2. t \notin HeldTasks /\ future[t] = "pending"
    BY <2>1 DEF NothingTwice, HeldNotQueued, OnlyPendingAround
  <2>3. \A q \in Place : q # p => t \notin QueuedAt(q)
    BY <1>5 DEF QueuedAt, NothingTwice, QueuedOnce
  <2>4. ~Queued(t)'
    BY <1>3, <2>3 DEF Queued
  <2>5. QED
    BY <1>1, <1>2, <2>1, <2>2, <2>4 DEF Status, Ready
<1>6. ASSUME NEW t \in Task \ S
      PROVE  Status(t)' = Status(t)
  <2>1. Queued(t)' <=> Queued(t)
    BY <1>3, <1>6 DEF Queued
  <2>2. QED
    BY <1>1, <1>2, <2>1, StatusSame
<1> HIDE DEF S
<1>7. CASE S = {}
  BY <1>1, <1>6, <1>7, Stutter DEF Closing
<1>8. CASE S # {}
  <2>1. Executor!Move(S, "queued", "dropped")
    BY <1>1, <1>4, <1>5, <1>6, <1>8, MoveSet DEF Closing
  <2>2. QED
    BY <1>1, <1>4, <2>1 DEF Executor!Drop
<1>9. QED
  BY <1>7, <1>8

-----------------------------------------------------------------------------
LEMMA OwnerRefines ==
  ASSUME RefInv, RefInv', OwnerStep
  PROVE  Executor!Next \/ UNCHANGED Executor!vars
<1>1. CASE PushQueue \/ Constructed \/ ConstructFails \/ Shutdown \/ Join
  <2>1. (\A t \in Task : Status(t)' = Status(t)) /\ Closing' = Closing
    BY <1>1, SameView DEF PushQueue, Constructed, ConstructFails, Shutdown, Join, Closing
  <2>2. QED
    BY <2>1, Stutter
<1>2. ASSUME NEW w \in Worker, StartThread(w)
      PROVE  Executor!Next \/ UNCHANGED Executor!vars
  <2>1. (\A t \in Task : Status(t)' = Status(t)) /\ Closing' = Closing
    BY <1>2, SameView DEF StartThread, Closing
  <2>2. QED
    BY <2>1, Stutter
<1>3. ASSUME NEW t \in Task, SubmitExternal(t)
      PROVE  Executor!Next \/ UNCHANGED Executor!vars
  <2>1. Pushed(Global, t)
    BY <1>3, Places, BackPush DEF SubmitExternal, RefInv, SafetyInv, TypeInv
  <2>2. Executor!Submit(t)
    BY <1>3, <2>1, Places, PushSeen DEF SubmitExternal
  <2>3. QED
    BY <2>2 DEF Executor!Next
<1>4. CASE BeginDestroy
  <2>1. \A t \in Task : Status(t)' = Status(t)
    BY <1>4, SameView DEF BeginDestroy
  <2>2. Seen' = Seen
    BY <2>1 DEF Seen
  <2>3. ~Closing /\ Closing' = TRUE
    BY <1>4 DEF BeginDestroy, Closing
  <2>4. Executor!Close
    BY <2>2, <2>3 DEF Executor!Close, Seen, Closing
  <2>5. QED
    BY <2>4 DEF Executor!Next
<1>5. ASSUME NEW p \in Place, DestroyQueue(p)
      PROVE  Executor!Next \/ UNCHANGED Executor!vars
  BY <1>5, DestroySeen DEF Executor!Next
<1>6. QED
  BY <1>1, <1>2, <1>3, <1>4, <1>5 DEF OwnerStep, ConstructorStep, DestructorStep

LEMMA WorkerRefines ==
  ASSUME RefInv, RefInv', NEW w \in Worker, WorkerStep(w)
  PROVE  Executor!Next \/ UNCHANGED Executor!vars
<1>1. ASSUME UNCHANGED <<queue, held, future, life>>
      PROVE  UNCHANGED Executor!vars
  BY <1>1, SameView, Stutter DEF Closing
<1>2. Crash \/ (\E p : BlockAt(w, p)) => UNCHANGED Executor!vars
  BY <1>1 DEF Crash, BlockAt
<1>3. ASSUME NEW p \in Place, TakeFrom(w, p), pc[w] \in {"local", "global", "steal"}
      PROVE  Executor!Next
  <2>1. held[w] = NoTask
    BY <1>3 DEF RefInv, SafetyInv, NobodyLeftBehind, HandsMatch
  <2>2. QED
    BY <1>3, <2>1, TakeSeen DEF Executor!Next
<1>4. CASE CheckDone(w) \/ ReadSize(w)
  BY <1>1, <1>4 DEF CheckDone, ReadSize
<1>5. CASE PopLocal(w)
  BY <1>1, <1>2, <1>3, <1>5, Places DEF PopLocal, EmptyAt
<1>6. CASE PopGlobal(w)
  BY <1>1, <1>2, <1>3, <1>6, Places DEF PopGlobal, EmptyAt
<1>7. CASE Steal(w)
  <2>1. Victim(w) \in Place
    BY <1>7, NAssumption
       DEF Steal, RefInv, SafetyInv, TypeInv, TypeOK, ScanInBounds, Place
  <2>2. QED
    BY <1>1, <1>2, <1>3, <1>7, <2>1 DEF Steal
<1>8. ASSUME NEW t \in Task, SubmitNested(w, t)
      PROVE  Executor!Next \/ UNCHANGED Executor!vars
  <2>1. CASE Crash \/ BlockAt(w, w)
    BY <1>2, <2>1
  <2>2. CASE w \in destroyed /\ ~Crash /\ ~BlockAt(w, w)
    <3>1. Executor!Refuse(t)
      BY <1>8, <2>2, RefusedSeen DEF SubmitNested
    <3>2. QED
      BY <3>1 DEF Executor!Next
  <2>3. CASE w \notin destroyed
    <3>1. /\ future[t] = "none" /\ future' = [future EXCEPT ![t] = "pending"]
          /\ queue' = [queue EXCEPT ![w] = <<t>> \o @]
          /\ held' = held /\ life' = life
      BY <1>8, <2>3 DEF SubmitNested, BlockAt
    <3>2. Pushed(w, t)
      BY <3>1, Places, FrontPush DEF RefInv, SafetyInv, TypeInv
    <3>3. Executor!Submit(t)
      BY <3>1, <3>2, Places, PushSeen
    <3>4. QED
      BY <3>3 DEF Executor!Next
  <2>4. QED
    BY <2>1, <2>2, <2>3
<1>9. CASE Finish(w)
  BY <1>9, FinishSeen DEF Executor!Next
<1>10. QED
  BY <1>4, <1>5, <1>6, <1>7, <1>8, <1>9 DEF WorkerStep

LEMMA InitRefines == Init => Executor!Init
<1> SUFFICES ASSUME Init PROVE Executor!Init
  OBVIOUS
<1>0. HeldTasks = {}
  BY DEF Init, HeldTasks
<1>1. \A t \in Task : Status(t) = "unborn"
  BY <1>0 DEF Init, Status
<1>2. life \notin {"destroy", "gone"}
  BY DEF Init
<1>3. QED
  BY <1>1, <1>2 DEF Executor!Init

LEMMA StepRefines ==
  RefInv /\ RefInv' /\ [Next]_vars => [Executor!Next]_(Executor!vars)
<1> SUFFICES ASSUME RefInv, RefInv', [Next]_vars
             PROVE  Executor!Next \/ UNCHANGED Executor!vars
  OBVIOUS
<1>1. CASE Next
  BY <1>1, OwnerRefines, WorkerRefines DEF Next
<1>2. CASE UNCHANGED vars
  BY <1>2, SameView, Stutter DEF vars, Closing
<1>3. QED
  BY <1>1, <1>2

\* Seen from its clients the work-stealing pool is an executor: a task is
\* started at most once and only after it was submitted, runs to its end, and
\* is dropped only by the destructor.
THEOREM PoolImplementsExecutor == Spec => ImplementsExecutor
<1>1. Spec => Executor!Init /\ [][Executor!Next]_(Executor!vars)
  BY InitRefines, StepRefines, RefInvHolds, PTL DEF Spec
<1>2. QED
  BY <1>1 DEF ImplementsExecutor, Executor!Spec
-----------------------------------------------------------------------------
(* ParallelAccumulate, the client.                                         *)

LEMMA BlockCount ==
  ASSUME NEW n \in Nat
  PROVE  /\ BlockNum(n) \in Nat
         /\ n > 0 => BlockNum(n) > 0
<1>1. BlockSize \in Nat \ {0}
  BY BlockSizeAssumption
<1>2. (n + BlockSize - 1) \div BlockSize \in Nat
  BY <1>1
<1>3. ASSUME n > 0
      PROVE  (n + BlockSize - 1) \div BlockSize > 0
  BY <1>1, <1>3
<1>4. QED
  BY <1>2, <1>3 DEF BlockNum

LEMMA LengthNat ==
  ASSUME length \in Lengths
  PROVE  length \in Nat /\ BlockNum(length) \in Nat /\ (length # 0 => BlockNum(length) > 0)
<1>1. length \in Nat
  BY LengthsAssumption
<1>2. QED
  BY <1>1, BlockCount

-----------------------------------------------------------------------------
(* The caller is a client of the pool.                                     *)

LEMMA CallerStepIsOwnerStep ==
  ASSUME CallerStep
  PROVE  OwnerStep \/ UNCHANGED vars
<1>1. CASE SubmitBlock
  <2>1. SubmitExternal(block)
    BY <1>1 DEF SubmitBlock
  <2>2. block \in Task
    BY <2>1 DEF SubmitExternal, Root
  <2>3. QED
    BY <2>1, <2>2 DEF OwnerStep
<1>2. CASE Enter \/ ConstructPool \/ GetFuture \/ GetRethrows \/ ShutdownPool
           \/ LeaveScope \/ DestroyPool
  BY <1>2 DEF Enter, ConstructPool, GetFuture, GetRethrows, ShutdownPool, LeaveScope,
              DestroyPool, OwnerStep
<1>3. QED
  BY <1>1, <1>2 DEF CallerStep

LEMMA CallerStepIsPoolStep == [CallerNext]_allVars => [Next]_vars
<1> SUFFICES ASSUME [CallerNext]_allVars PROVE Next \/ UNCHANGED vars
  OBVIOUS
<1>1. CASE CallerNext
  BY <1>1, CallerStepIsOwnerStep DEF CallerNext, Next
<1>2. CASE UNCHANGED allVars
  BY <1>2 DEF allVars
<1>3. QED
  BY <1>1, <1>2

\* Whatever ParallelAccumulate does with its pool is something the most general
\* client of the pool may do.
THEOREM CallerIsAClient == CallerSpec => Spec
<1>1. CallerInit => Init
  BY DEF CallerInit
<1>2. QED
  BY <1>1, CallerStepIsPoolStep, PTL DEF CallerSpec, Spec

-----------------------------------------------------------------------------
(* The futures, stage by stage.                                            *)

Unfinished(t) == future[t] = "pending"

\* Only blocks are ever submitted: those before block while the loop submits, and
\* while the caller waits those before block are done.
DrainInv ==
  /\ length \in Lengths
  /\ block \in Nat
  /\ at \in {"entry", "construct", "submit", "get", "shutdown", "leave",
             "unwind", "returned", "threw"}
  /\ \A t \in Task : future[t] # "none" => t \in 0 .. BlockNum(length) - 1
  /\ at \in {"entry", "construct", "submit"} =>
       \A t \in Task : future[t] # "none" => t \in 0 .. block - 1
  /\ at \in {"entry", "construct"} => block = 0
  /\ at = "construct" => length # 0
  /\ at = "submit" => block < BlockNum(length)
  /\ at = "get" =>
       /\ block < BlockNum(length)
       /\ \A t \in 0 .. block - 1 : ~Unfinished(t)
  /\ at \in {"shutdown", "leave"} => \A t \in Task : ~Unfinished(t)

LEMMA DrainInit == CallerInit => DrainInv
BY DEF CallerInit, Init, DrainInv, Unfinished

\* A block submits no task, so a worker can only finish the task it runs.
LEMMA WorkerFutures ==
  ASSUME SafetyInv, DrainInv, NEW w \in Worker, WorkerStep(w), NEW t \in Task
  PROVE  /\ future'[t] # "none" => future[t] # "none"
         /\ Unfinished(t)' => Unfinished(t)
<1>1. CASE Finish(w)
  <2>1. held[w] # NoTask /\ held[w] \in Task /\ held[w] \in HeldTasks
    BY <1>1 DEF Finish, SafetyInv, NobodyLeftBehind, HandsMatch, TypeInv, TypeOK, HeldTasks
  <2>2. future[held[w]] = "pending"
    BY <2>1 DEF SafetyInv, NothingTwice, OnlyPendingAround
  <2>3. /\ t # held[w] => future'[t] = future[t]
        /\ future'[held[w]] \in {"value", "exception"}
    BY <1>1, <2>1 DEF Finish, SafetyInv, TypeInv, TypeOK
  <2>4. QED
    BY <2>2, <2>3 DEF Unfinished
<1>2. ASSUME NEW u \in Task, SubmitNested(w, u)
      PROVE  FALSE
  <2>1. held[w] # NoTask
    BY <1>2 DEF SubmitNested, SafetyInv, NobodyLeftBehind, HandsMatch
  <2>2. held[w] \in Task /\ future[held[w]] = "pending"
    BY <2>1 DEF SafetyInv, NothingTwice, OnlyPendingAround, TypeInv, TypeOK, HeldTasks
  <2>3. held[w] \in 0 .. BlockNum(length) - 1 /\ length \in Lengths
    BY <2>2 DEF DrainInv
  <2>4. Children(held[w]) = {}
    BY <2>3, TaskAssumption
  <2>5. QED
    BY <1>2, <2>4 DEF SubmitNested, Children
<1>3. CASE CheckDone(w) \/ PopLocal(w) \/ PopGlobal(w) \/ ReadSize(w) \/ Steal(w)
  <2>1. future' = future
    BY <1>3 DEF CheckDone, PopLocal, PopGlobal, ReadSize, Steal, TakeFrom, EmptyAt, BlockAt,
              Crash
  <2>2. QED
    BY <2>1 DEF Unfinished
<1>4. QED
  BY <1>1, <1>2, <1>3 DEF WorkerStep

LEMMA DrainWorker ==
  ASSUME DrainInv, SafetyInv, NEW w \in Worker, WorkerStep(w), UNCHANGED caller
  PROVE  DrainInv'
<1>1. \A t \in Task : /\ future'[t] # "none" => future[t] # "none"
                      /\ Unfinished(t)' => Unfinished(t)
  BY WorkerFutures
<1>2. /\ UNCHANGED <<length, at, block>>
      /\ BlockNum(length)' = BlockNum(length)
  BY DEF caller, BlockNum
<1>3. \A t \in 0 .. block - 1 : at = "get" => t \in Task /\ ~Unfinished(t)
  <2>1. at = "get" => length \in Lengths /\ block \in Nat /\ block < BlockNum(length)
    BY DEF DrainInv
  <2>2. at = "get" => \A t \in 0 .. block - 1 : t \in 0 .. BlockNum(length) - 1
    BY <2>1, LengthNat
  <2>3. QED
    BY <2>1, <2>2, TaskAssumption DEF DrainInv, Root
<1>4. at = "get" => \A t \in 0 .. block - 1 : ~Unfinished(t)'
  BY <1>1, <1>3
<1>5. /\ \A t \in Task : future'[t] # "none" => t \in 0 .. BlockNum(length) - 1
      /\ at \in {"entry", "construct", "submit"} =>
           \A t \in Task : future'[t] # "none" => t \in 0 .. block - 1
      /\ at \in {"shutdown", "leave"} => \A t \in Task : ~Unfinished(t)'
  BY <1>1 DEF DrainInv
<1>6. QED
  BY <1>2, <1>4, <1>5 DEF DrainInv

LEMMA DrainCaller ==
  ASSUME DrainInv, SafetyInv, CallerStep
  PROVE  DrainInv'
<1>0. /\ length \in Nat /\ BlockNum(length) \in Nat /\ block \in Nat
      /\ length # 0 => BlockNum(length) > 0
      /\ length' = length /\ BlockNum(length)' = BlockNum(length)
  BY LengthNat DEF DrainInv, CallerStep, Enter, ConstructPool, SubmitBlock, GetFuture,
     GetRethrows, ShutdownPool, LeaveScope, DestroyPool, caller, BlockNum
<1>1. CASE Enter
  BY <1>0, <1>1 DEF Enter, DrainInv, Unfinished, vars
<1>2. CASE ConstructPool
  <2>1. future' = future
    BY <1>2 DEF ConstructPool, ConstructorStep, PushQueue, StartThread, Constructed,
                ConstructFails
  <2>2. at' \in {"construct", "submit"} /\ block' = block
    BY <1>2 DEF ConstructPool
  <2>3. QED
    BY <1>0, <1>2, <2>1, <2>2 DEF ConstructPool, DrainInv, Unfinished
<1>3. CASE SubmitBlock
  <2>1. /\ at = "submit" /\ block \in Task
        /\ \A t \in Task : future'[t] = IF t = block THEN "pending" ELSE future[t]
    BY <1>3 DEF SubmitBlock, SubmitExternal, Root, SafetyInv, TypeInv, TypeOK
  <2>2. block < BlockNum(length) /\ \A t \in Task : future[t] # "none" => t < block
    BY <2>1 DEF DrainInv
  <2>3. CASE block = BlockNum(length) - 1
    <3>1. at' = "get" /\ block' = 0
      BY <1>3, <2>3 DEF SubmitBlock
    <3>2. QED
      BY <1>0, <2>1, <2>2, <2>3, <3>1 DEF DrainInv
  <2>4. CASE block # BlockNum(length) - 1
    <3>1. at' = "submit" /\ block' = block + 1
      BY <1>3, <2>4 DEF SubmitBlock
    <3>2. QED
      BY <1>0, <2>1, <2>2, <2>4, <3>1 DEF DrainInv
  <2>5. QED
    BY <2>3, <2>4
<1>4. CASE GetFuture
  <2>1. /\ at = "get" /\ future[block] = "value" /\ block' = block + 1 /\ future' = future
        /\ at' = IF block + 1 = BlockNum(length) THEN "shutdown" ELSE "get"
    BY <1>4 DEF GetFuture, vars
  <2>2. \A t \in Task : t < block' => ~Unfinished(t)
    BY <1>0, <2>1 DEF DrainInv, Unfinished
  <2>3. CASE block + 1 = BlockNum(length)
    <3>1. \A t \in Task : ~Unfinished(t)
      BY <2>1, <2>2, <2>3 DEF DrainInv, Unfinished
    <3>2. QED
      BY <1>0, <2>1, <2>3, <3>1 DEF DrainInv, Unfinished
  <2>4. CASE block + 1 # BlockNum(length)
    BY <1>0, <2>1, <2>2, <2>4 DEF DrainInv, Unfinished
  <2>5. QED
    BY <2>3, <2>4
<1>5. CASE GetRethrows
  BY <1>0, <1>5 DEF GetRethrows, BeginDestroy, DrainInv, Unfinished
<1>6. CASE ShutdownPool
  BY <1>0, <1>6 DEF ShutdownPool, Shutdown, DrainInv, Unfinished
<1>7. CASE LeaveScope
  BY <1>0, <1>7 DEF LeaveScope, BeginDestroy, caller, DrainInv, Unfinished
<1>8. CASE DestroyPool
  <2>1. future' = future
    BY <1>8 DEF DestroyPool, DestructorStep, DestroyQueue, Join
  <2>2. QED
    BY <1>0, <1>8, <2>1 DEF DestroyPool, DrainInv, Unfinished
<1>9. QED
  BY <1>1, <1>2, <1>3, <1>4, <1>5, <1>6, <1>7, <1>8 DEF CallerStep

LEMMA DrainStep == DrainInv /\ SafetyInv /\ [CallerNext]_allVars => DrainInv'
<1> SUFFICES ASSUME DrainInv, SafetyInv, [CallerNext]_allVars PROVE DrainInv'
  OBVIOUS
<1>1. CASE CallerNext
  BY <1>1, DrainWorker, DrainCaller DEF CallerNext
<1>2. CASE UNCHANGED allVars
  BY <1>2 DEF allVars, vars, caller, DrainInv, Unfinished, BlockNum
<1>3. QED
  BY <1>1, <1>2

LEMMA DrainHolds == CallerSpec => [](DrainInv /\ SafetyInv)
BY CallerIsAClient, SafetyHolds, DrainInit, DrainStep, PTL DEF CallerSpec

\* For any range, any block size and any number of threads: when the function
\* reaches shutdown() no task is queued, held or pending, and none appears until
\* the pool has been destroyed.
THEOREM PoolIsDrained == CallerSpec => []DrainedBeforeDestroy
<1>1. ASSUME DrainInv, SafetyInv, at \in {"shutdown", "leave"}
      PROVE  /\ \A p \in Place : queue[p] = <<>>
             /\ HeldTasks = {}
             /\ \A t \in Task : future[t] # "pending"
  <2>1. \A t \in Task : future[t] # "pending"
    BY <1>1 DEF DrainInv, Unfinished
  <2>2. \A t \in Task : ~Queued(t) /\ t \notin HeldTasks
    BY <1>1, <2>1 DEF SafetyInv, NothingTwice, OnlyPendingAround
  <2>3. HeldTasks \subseteq Task
    BY <1>1 DEF HeldTasks, SafetyInv, TypeInv, TypeOK
  <2>4. ASSUME NEW p \in Place, queue[p] # <<>>
        PROVE  FALSE
    <3>1. queue[p] \in Seq(Task) /\ Len(queue[p]) \in Nat \ {0}
          /\ DOMAIN queue[p] = 1 .. Len(queue[p])
      BY <1>1, <2>4, Slots, EmptySeq DEF SafetyInv, TypeInv
    <3>2. 1 \in DOMAIN queue[p] /\ queue[p][1] \in Task
      BY <3>1, ElementOfSeq
    <3>3. QED
      BY <2>2, <3>2 DEF Queued, QueuedAt
  <2>5. QED
    BY <2>1, <2>2, <2>3, <2>4
<1>2. DrainInv /\ SafetyInv => DrainedBeforeDestroy
  BY <1>1 DEF DrainedBeforeDestroy
<1>3. QED
  BY <1>2, DrainHolds, PTL

-----------------------------------------------------------------------------
(* The blocks partition the range.                                         *)

\* Where block b begins.
Cut(b) == b * BlockSize

LEMMA CutFits ==
  ASSUME NEW n \in Nat, NEW b \in Nat
  PROVE  /\ Cut(b) \in Nat
         /\ Cut(0) = 0
         /\ Cut(b + 1) = Cut(b) + BlockSize
         /\ b < BlockNum(n) => Cut(b) < n
<1> DEFINE q == BlockNum(n)
<1>1. BlockSize \in Nat /\ BlockSize >= 1 /\ q \in Nat
  BY BlockSizeAssumption, BlockCount
<1>2. Cut(b) \in Nat /\ Cut(0) = 0 /\ Cut(b + 1) = Cut(b) + BlockSize
  BY <1>1 DEF Cut
<1>3. q * BlockSize <= n + BlockSize - 1
  BY <1>1 DEF BlockNum
<1>4. ASSUME b < q
      PROVE  Cut(b) < n
  <2> HIDE DEF q
  <2>1. q - b - 1 \in Nat
    BY <1>1, <1>4
  <2>2. (q - b - 1) * BlockSize \in Nat
    BY <1>1, <2>1
  <2>3. q * BlockSize = (q - b - 1) * BlockSize + b * BlockSize + BlockSize
    BY <1>1
  <2>4. b * BlockSize \in Nat /\ q * BlockSize \in Nat
    BY <1>1
  <2>5. QED
    BY <1>1, <1>3, <2>2, <2>3, <2>4 DEF Cut
<1>5. QED
  BY <1>2, <1>4

\* What the lambda of block b has captured.
Cutting(b) ==
  [from |-> Cut(b), to |-> IF b = BlockNum(length) - 1 THEN length ELSE Cut(b + 1)]

Prefix(k) == Sum([from |-> 0, to |-> k])

CutInv ==
  /\ CallerTypeOK
  /\ at \in {"entry", "construct", "submit"} => start = Cut(block) /\ ans = InitialSum
  /\ at = "submit" => \A b \in 0 .. block - 1 : captured[b] = Cutting(b)
  /\ at = "get" =>
       /\ \A b \in 0 .. BlockNum(length) - 1 : captured[b] = Cutting(b)
       /\ ans = InitialSum + Prefix(Cut(block))
  /\ at \in {"shutdown", "leave", "returned"} => ans = InitialSum + Prefix(length)

LEMMA PrefixSums ==
  ASSUME length \in Lengths, NEW k \in 0 .. length, NEW l \in k .. length
  PROVE  /\ Prefix(k) \in Int
         /\ Sum([from |-> k, to |-> l]) \in Int
         /\ Prefix(l) = Prefix(k) + Sum([from |-> k, to |-> l])
         /\ Prefix(0) = 0
<1> DEFINE A == 0 .. k - 1
           B == k .. l - 1
<1>1. /\ length \in Nat /\ k \in Nat /\ l \in Nat /\ k <= l /\ l <= length
  BY LengthNat
<1>2. IsFiniteSet(A) /\ IsFiniteSet(B) /\ A \cap B = {} /\ A \cup B = 0 .. l - 1
  BY <1>1, FS_Interval
<1>3. \A j \in A \cup B : Item[j] \in Int
  BY <1>1, ItemAssumption
<1>4. /\ Prefix(k) = SumFunctionOnSet(Item, A)
      /\ Sum([from |-> k, to |-> l]) = SumFunctionOnSet(Item, B)
      /\ Prefix(l) = SumFunctionOnSet(Item, A \cup B)
  BY <1>2 DEF Prefix, Sum
<1>5. Prefix(0) = 0
  <2>1. 0 .. 0 - 1 = {}
    OBVIOUS
  <2>2. QED
    BY <2>1, SumOfNothing DEF Prefix, Sum
<1>6. /\ SumFunctionOnSet(Item, A) \in Int
      /\ SumFunctionOnSet(Item, B) \in Int
  BY <1>2, <1>3, SumIsInt
<1>7. SumFunctionOnSet(Item, A \cup B) =
        SumFunctionOnSet(Item, A) + SumFunctionOnSet(Item, B)
  <2> HIDE DEF A, B
  <2> QED
    BY <1>2, <1>3, SumOfDisjoint
<1>8. QED
  BY <1>4, <1>5, <1>6, <1>7

LEMMA CutInit == CallerInit => CutInv
<1> SUFFICES ASSUME CallerInit PROVE CutInv
  OBVIOUS
<1>1. length \in Nat /\ BlockNum(length) \in Nat
  BY LengthNat DEF CallerInit
<1>2. CallerTypeOK
  BY <1>1, ItemAssumption DEF CallerInit, CallerTypeOK
<1>3. QED
  BY <1>2, CutFits DEF CallerInit, CutInv

LEMMA CutSubmit ==
  ASSUME CutInv, DrainInv, SubmitBlock
  PROVE  CutInv'
<1> DEFINE last == block = BlockNum(length) - 1
           to == IF last THEN length ELSE start + BlockSize
<1>1. /\ length \in Nat /\ BlockNum(length) \in Nat /\ block \in Nat /\ length \in Lengths
      /\ block < BlockNum(length) /\ BlockSize \in Nat
      /\ start = Cut(block) /\ ans = InitialSum /\ ans \in Int
  BY LengthNat, BlockSizeAssumption DEF DrainInv, CutInv, CallerTypeOK, SubmitBlock
<1>2. /\ length' = length /\ ans' = ans /\ block \in Task
      /\ captured' = [captured EXCEPT ![block] = [from |-> start, to |-> to]]
      /\ start' = IF last THEN start ELSE start + BlockSize
      /\ at' = IF last THEN "get" ELSE "submit"
      /\ block' = IF last THEN 0 ELSE block + 1
  BY DEF SubmitBlock, SubmitExternal, Root
<1>3. /\ start \in 0 .. length /\ to \in 0 .. length
      /\ ~last => start + BlockSize \in 0 .. length /\ start + BlockSize = Cut(block + 1)
  <2>1. Cut(block) \in Nat /\ Cut(block) < length
    BY <1>1, CutFits
  <2>2. Cut(block + 1) = Cut(block) + BlockSize
    BY <1>1, CutFits
  <2>3. ~last => Cut(block + 1) \in Nat /\ Cut(block + 1) < length
    <3>1. block + 1 \in Nat /\ (~last => block + 1 < BlockNum(length))
      BY <1>1
    <3>2. QED
      BY <1>1, <3>1, CutFits
  <2>4. QED
    BY <1>1, <2>1, <2>2, <2>3
<1>4. [from |-> start, to |-> to] = Cutting(block)
  BY <1>1, <1>3 DEF Cutting
<1>5. CallerTypeOK'
  <2>1. captured' \in [Task -> [from : 0 .. length, to : 0 .. length]]
    BY <1>2, <1>3 DEF CutInv, CallerTypeOK
  <2>2. block' \in 0 .. BlockNum(length) /\ start' \in 0 .. length
    BY <1>1, <1>2, <1>3
  <2>3. BlockNum(length)' = BlockNum(length)
    BY <1>2 DEF BlockNum
  <2>4. QED
    BY <1>1, <1>2, <2>1, <2>2, <2>3 DEF CallerTypeOK
<1>6. \A b \in 0 .. block : captured'[b] = Cutting(b) /\ Cutting(b)' = Cutting(b)
  <2>1. \A b \in 0 .. block - 1 : captured[b] = Cutting(b)
    BY DEF CutInv, SubmitBlock
  <2>2. \A b : Cutting(b)' = Cutting(b)
    BY <1>2 DEF Cutting, BlockNum, Cut
  <2>3. captured'[block] = Cutting(block)
    BY <1>2, <1>4 DEF CutInv, CallerTypeOK
  <2>4. \A b \in 0 .. block - 1 : captured'[b] = captured[b]
    BY <1>1, <1>2 DEF CutInv, CallerTypeOK
  <2>5. QED
    BY <1>1, <2>1, <2>2, <2>3, <2>4
<1>7. CASE last
  <2>1. at' = "get" /\ block' = 0 /\ BlockNum(length)' = BlockNum(length)
    BY <1>2, <1>7 DEF BlockNum
  <2>2. Prefix(Cut(block))' = 0
    <3>1. Cut(block)' = 0
      BY <2>1, CutFits DEF Cut
    <3>2. 0 .. 0 - 1 = {}
      OBVIOUS
    <3>3. QED
      BY <3>1, <3>2, SumOfNothing DEF Prefix, Sum
  <2>3. \A b \in 0 .. BlockNum(length)' - 1 : captured'[b] = Cutting(b)'
    BY <1>1, <1>6, <1>7, <2>1
  <2>4. QED
    BY <1>1, <1>2, <1>5, <2>1, <2>2, <2>3, ItemAssumption DEF CutInv
<1>8. CASE ~last
  <2>1. at' = "submit" /\ block' = block + 1 /\ start' = start + BlockSize
    BY <1>2, <1>8
  <2>2. start' = Cut(block)'
    BY <1>3, <1>8, <2>1 DEF Cut
  <2>3. \A b \in 0 .. block' - 1 : captured'[b] = Cutting(b)'
    BY <1>1, <1>6, <2>1
  <2>4. QED
    BY <1>1, <1>2, <1>5, <2>1, <2>2, <2>3 DEF CutInv
<1>9. QED
  BY <1>7, <1>8

LEMMA CutGet ==
  ASSUME CutInv, DrainInv, GetFuture
  PROVE  CutInv'
<1> DEFINE last == block = BlockNum(length) - 1
           to == Cutting(block).to
<1>1. /\ length \in Nat /\ BlockNum(length) \in Nat /\ block \in Nat /\ length \in Lengths
      /\ block < BlockNum(length) /\ BlockSize \in Nat
      /\ ans = InitialSum + Prefix(Cut(block)) /\ ans \in Int /\ InitialSum \in Int
      /\ captured[block] = Cutting(block)
  BY LengthNat, BlockSizeAssumption, ItemAssumption
  DEF DrainInv, CutInv, CallerTypeOK, GetFuture
<1>2. /\ UNCHANGED <<length, start, captured>>
      /\ block' = block + 1
      /\ ans' = ans + Sum(Cutting(block))
      /\ at' = IF last THEN "shutdown" ELSE "get"
  BY <1>1 DEF GetFuture
<1>3. /\ Cut(block) \in 0 .. length /\ to \in Cut(block) .. length
      /\ Cutting(block) = [from |-> Cut(block), to |-> to]
      /\ to = IF last THEN length ELSE Cut(block + 1)
  <2>1. Cut(block) \in Nat /\ Cut(block) < length
    BY <1>1, CutFits
  <2>2. Cut(block + 1) = Cut(block) + BlockSize
    BY <1>1, CutFits
  <2>3. ~last => Cut(block + 1) \in Nat /\ Cut(block + 1) < length
    <3>1. block + 1 \in Nat /\ (~last => block + 1 < BlockNum(length))
      BY <1>1
    <3>2. QED
      BY <1>1, <3>1, CutFits
  <2>4. QED
    BY <1>1, <2>1, <2>2, <2>3 DEF Cutting
<1>4. ans' = InitialSum + Prefix(to) /\ ans' \in Int
  <2> HIDE DEF to
  <2>1. /\ Prefix(Cut(block)) \in Int
        /\ Sum([from |-> Cut(block), to |-> to]) \in Int
        /\ Prefix(to) = Prefix(Cut(block)) + Sum([from |-> Cut(block), to |-> to])
    BY <1>1, <1>3, PrefixSums
  <2>2. QED
    BY <1>1, <1>2, <1>3, <2>1
<1>5. BlockNum(length)' = BlockNum(length) /\ \A b : Cutting(b)' = Cutting(b) /\ Cut(b)' = Cut(b)
  BY <1>2 DEF BlockNum, Cutting, Cut
<1>6. CallerTypeOK'
  BY <1>1, <1>2, <1>4, <1>5 DEF CutInv, CallerTypeOK
<1>7. CASE last
  <2>1. at' = "shutdown" /\ to = length
    BY <1>2, <1>3, <1>7
  <2>2. Prefix(length)' = Prefix(length)
    BY <1>2 DEF Prefix, Sum
  <2>3. QED
    BY <1>4, <1>6, <2>1, <2>2 DEF CutInv
<1>8. CASE ~last
  <2>1. at' = "get" /\ to = Cut(block')
    BY <1>2, <1>3, <1>8
  <2>2. Prefix(Cut(block))' = Prefix(Cut(block'))
    BY DEF Prefix, Sum, Cut
  <2>3. \A b \in 0 .. BlockNum(length)' - 1 : captured'[b] = Cutting(b)'
    BY <1>2, <1>5 DEF CutInv, GetFuture
  <2>4. QED
    BY <1>4, <1>6, <2>1, <2>2, <2>3 DEF CutInv
<1>9. QED
  BY <1>7, <1>8

\* The other steps of the function move it on and touch no iterator.
LEMMA CutOther ==
  ASSUME CutInv, DrainInv, UNCHANGED <<length, block, start, captured, ans>>,
         \/ at' = at
         \/ at = "entry" /\ at' = IF length = 0 THEN "returned" ELSE "construct"
         \/ at = "construct" /\ at' = "submit"
         \/ at = "get" /\ at' = "unwind"
         \/ at = "shutdown" /\ at' = "leave"
         \/ at = "leave" /\ at' = "returned"
         \/ at = "unwind" /\ at' = "threw"
  PROVE  CutInv'
<1>1. /\ BlockNum(length)' = BlockNum(length)
      /\ Cut(block)' = Cut(block) /\ Prefix(Cut(block))' = Prefix(Cut(block))
      /\ Prefix(length)' = Prefix(length) /\ \A b : Cutting(b)' = Cutting(b)
  BY DEF BlockNum, Cut, Prefix, Sum, Cutting
<1>2. CallerTypeOK'
  BY <1>1 DEF CutInv, CallerTypeOK
<1>3. CASE at' = at
  BY <1>1, <1>2, <1>3 DEF CutInv
<1>4. CASE at = "entry" /\ at' = "returned" /\ length = 0
  <2>1. Prefix(length)' = 0
    <3>1. 0 .. 0 - 1 = {}
      OBVIOUS
    <3>2. QED
      BY <1>4, <1>1, <3>1, SumOfNothing DEF Prefix, Sum
  <2>2. ans' = InitialSum /\ InitialSum \in Int
    BY <1>4, ItemAssumption DEF CutInv
  <2>3. QED
    BY <1>2, <1>4, <2>1, <2>2 DEF CutInv
<1>5. CASE at = "entry" /\ at' = "construct"
  BY <1>1, <1>2, <1>5 DEF CutInv
<1>6. CASE at = "construct" /\ at' = "submit"
  <2>1. block = 0 /\ block' = 0
    BY <1>6 DEF DrainInv
  <2>2. QED
    BY <1>1, <1>2, <1>6, <2>1 DEF CutInv
<1>7. CASE \/ at = "get" /\ at' = "unwind"
           \/ at = "unwind" /\ at' = "threw"
  BY <1>2, <1>7 DEF CutInv
<1>8. CASE \/ at = "shutdown" /\ at' = "leave"
           \/ at = "leave" /\ at' = "returned"
  BY <1>1, <1>2, <1>8 DEF CutInv
<1>9. CASE at = "entry" /\ at' = IF length = 0 THEN "returned" ELSE "construct"
  BY <1>4, <1>5, <1>9
<1>10. QED
  BY <1>3, <1>6, <1>7, <1>8, <1>9

LEMMA CutStep == CutInv /\ DrainInv /\ [CallerNext]_allVars => CutInv'
<1> SUFFICES ASSUME CutInv, DrainInv, [CallerNext]_allVars PROVE CutInv'
  OBVIOUS
<1>1. CASE Enter \/ ConstructPool \/ GetRethrows \/ ShutdownPool \/ LeaveScope \/ DestroyPool
  <2>1. /\ UNCHANGED <<length, block, start, captured, ans>>
        /\ \/ at' = at
           \/ at = "entry" /\ at' = IF length = 0 THEN "returned" ELSE "construct"
           \/ at = "construct" /\ at' = "submit"
           \/ at = "get" /\ at' = "unwind"
           \/ at = "shutdown" /\ at' = "leave"
           \/ at = "leave" /\ at' = "returned"
           \/ at = "unwind" /\ at' = "threw"
    BY <1>1 DEF Enter, ConstructPool, GetRethrows, ShutdownPool, LeaveScope, DestroyPool, caller
  <2>2. QED
    BY <2>1, CutOther
<1>2. CASE UNCHANGED caller
  BY <1>2, CutOther DEF caller
<1>3. QED
  BY <1>1, <1>2, CutSubmit, CutGet DEF CallerNext, CallerStep, allVars

LEMMA CutHolds == CallerSpec => []CutInv
BY CutInit, CutStep, DrainHolds, PTL DEF CallerSpec

\* For every length and block size each iterator, captured ones included, stays in
\* the range.
THEOREM IteratorsStayInside == CallerSpec => []CallerTypeOK
<1>1. CutInv => CallerTypeOK
  BY DEF CutInv
<1>2. QED
  BY <1>1, CutHolds, PTL

\* What the function returns is the sum over the whole range, for every range,
\* block size and number of threads.
THEOREM SumIsCorrect == CallerSpec => []SumCorrect
<1>1. CutInv => SumCorrect
  BY DEF CutInv, SumCorrect, Prefix
<1>2. QED
  BY <1>1, CutHolds, PTL
=============================================================================
