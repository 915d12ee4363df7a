-------------------------- MODULE QueuePoolsProofs --------------------------
(***************************************************************************)
(* Both queue pools keep every task in one place, forget none but where    *)
(* the code drops it, keep nested tasks at home in pool 3, and implement   *)
(* TaskExecutor, for every number of threads and every nesting of tasks.   *)
(***************************************************************************)
EXTENDS QueuePools, SequenceTheorems, TLAPS

\* The queues of a pool as one family: 0 is the shared or global one.
Place == 0 .. N
Shelf(p) == IF p = 0 THEN queue ELSE local[p]

\* A task lies at one index of one queue, or is in one hand, and is pending.
QueuedOnce ==
  \A p, q \in Place : \A i \in DOMAIN Shelf(p), j \in DOMAIN Shelf(q) :
    Shelf(p)[i] = Shelf(q)[j] => p = q /\ i = j
QueuedPending ==
  \A p \in Place : \A i \in DOMAIN Shelf(p) :
    future[Shelf(p)[i]] = "pending" /\ \A w \in Worker : held[w] # Shelf(p)[i]
HeldPending ==
  \A w \in Worker : held[w] # NoTask =>
    future[held[w]] = "pending" /\ \A v \in Worker : held[v] = held[w] => v = w

SharedHasNoLocal == kind = "shared" => \A w \in Worker : local[w] = <<>>

\* Nobody has submitted a child of a task that has not begun to run.
ChildrenFollow ==
  \A t \in Task : future[t] = "none" \/ Queued(t) =>
    \A c \in Children(t) : future[c] = "none"

PoolInv ==
  /\ QTypeOK
  /\ QueuedOnce
  /\ QueuedPending
  /\ HeldPending
  /\ SharedHasNoLocal
  /\ ChildrenFollow
  /\ NestedStaysHome

-----------------------------------------------------------------------------
(* Sequences and places.                                                   *)

LEMMA Places ==
  /\ 0 \in Place
  /\ Worker \subseteq Place
  /\ \A p \in Place : p # 0 => p \in Worker
  /\ \A w \in Worker : w # 0
BY QueuePoolsAssumption DEF Place, Worker

LEMMA ShelfType ==
  ASSUME QTypeOK, NEW p \in Place
  PROVE  Shelf(p) \in Seq(Task)
BY Places DEF QTypeOK, Shelf

LEMMA QueuedPlace ==
  ASSUME QTypeOK, NEW t
  PROVE  Queued(t) <=> \E p \in Place : \E i \in DOMAIN Shelf(p) : Shelf(p)[i] = t
BY Places DEF Queued, Shelf, ToSet

LEMMA QueuedPlaceNext ==
  ASSUME QTypeOK', NEW t
  PROVE  Queued(t)' <=> \E p \in Place : \E i \in DOMAIN Shelf(p)' : Shelf(p)'[i] = t
BY Places DEF Queued, Shelf, ToSet

\* What the three things that happen to a queue do to its indices.
Popped(p, t) ==
  /\ t \in Task
  /\ \E i \in DOMAIN Shelf(p) : Shelf(p)[i] = t
  /\ \A i \in DOMAIN Shelf(p)' :
       i + 1 \in DOMAIN Shelf(p) /\ Shelf(p)'[i] = Shelf(p)[i + 1] /\ Shelf(p)[i + 1] # t
  /\ \A i \in DOMAIN Shelf(p) :
       Shelf(p)[i] = t \/ (i - 1 \in DOMAIN Shelf(p)' /\ Shelf(p)'[i - 1] = Shelf(p)[i])
  /\ \A q \in Place : q # p => Shelf(q)' = Shelf(q)

Pushed(p, t) ==
  /\ \E i \in DOMAIN Shelf(p)' : Shelf(p)'[i] = t
  /\ \A i \in DOMAIN Shelf(p) : i \in DOMAIN Shelf(p)' /\ Shelf(p)'[i] = Shelf(p)[i]
  /\ \A i \in DOMAIN Shelf(p)' :
       \/ i \in DOMAIN Shelf(p) /\ Shelf(p)'[i] = Shelf(p)[i]
       \/ i = Len(Shelf(p)) + 1 /\ Shelf(p)'[i] = t
  /\ \A q \in Place : q # p => Shelf(q)' = Shelf(q)

Emptied(p) ==
  /\ DOMAIN Shelf(p)' = {}
  /\ \A q \in Place : q # p => Shelf(q)' = Shelf(q)

LEMMA PopSeq ==
  ASSUME NEW S, NEW s \in Seq(S), s # <<>>
  PROVE  /\ Head(s) \in S /\ Tail(s) \in Seq(S)
         /\ 1 \in DOMAIN s /\ s[1] = Head(s)
         /\ \A i \in DOMAIN Tail(s) : i + 1 \in DOMAIN s /\ Tail(s)[i] = s[i + 1] /\ i + 1 # 1
         /\ \A i \in DOMAIN s : i = 1 \/ (i - 1 \in DOMAIN Tail(s) /\ Tail(s)[i - 1] = s[i])
<1>1. /\ Head(s) \in S /\ Tail(s) \in Seq(S) /\ Len(s) \in Nat /\ Len(s) > 0
      /\ Len(Tail(s)) = Len(s) - 1 /\ s[1] = Head(s)
      /\ \A i \in 1 .. Len(Tail(s)) : Tail(s)[i] = s[i + 1]
  BY HeadTailProperties, EmptySeq, LenProperties
<1>2. DOMAIN s = 1 .. Len(s) /\ DOMAIN Tail(s) = 1 .. Len(Tail(s))
  BY <1>1, LenProperties
<1>3. QED
  BY <1>1, <1>2

LEMMA PushSeq ==
  ASSUME NEW S, NEW s \in Seq(S), NEW e \in S
  PROVE  /\ Append(s, e) \in Seq(S)
         /\ Len(s) + 1 \in DOMAIN Append(s, e) /\ Append(s, e)[Len(s) + 1] = e
         /\ \A i \in DOMAIN s : i \in DOMAIN Append(s, e) /\ Append(s, e)[i] = s[i]
         /\ \A i \in DOMAIN Append(s, e) :
              \/ i \in DOMAIN s /\ Append(s, e)[i] = s[i]
              \/ i = Len(s) + 1 /\ Append(s, e)[i] = e
<1>1. /\ Append(s, e) \in Seq(S) /\ Len(s) \in Nat
      /\ Len(Append(s, e)) = Len(s) + 1
      /\ Append(s, e)[Len(s) + 1] = e
      /\ \A i \in 1 .. Len(s) : Append(s, e)[i] = s[i]
  BY AppendProperties, LenProperties
<1>2. DOMAIN s = 1 .. Len(s) /\ DOMAIN Append(s, e) = 1 .. Len(s) + 1
  BY <1>1, LenProperties
<1>3. QED
  BY <1>1, <1>2

LEMMA PopGives ==
  ASSUME QTypeOK, QueuedOnce, NEW p \in Place, Shelf(p) # <<>>,
         Shelf(p)' = Tail(Shelf(p)),
         \A q \in Place : q # p => Shelf(q)' = Shelf(q)
  PROVE  Popped(p, Head(Shelf(p)))
<1>1. Shelf(p) \in Seq(Task)
  BY ShelfType
<1> DEFINE s == Shelf(p)
<1>2. /\ Head(s) \in Task /\ 1 \in DOMAIN s /\ s[1] = Head(s)
      /\ \A i \in DOMAIN Tail(s) : i + 1 \in DOMAIN s /\ Tail(s)[i] = s[i + 1] /\ i + 1 # 1
      /\ \A i \in DOMAIN s : i = 1 \/ (i - 1 \in DOMAIN Tail(s) /\ Tail(s)[i - 1] = s[i])
  BY <1>1, PopSeq
<1>3. \A i \in DOMAIN s : s[i] = s[1] => i = 1
  BY <1>2 DEF QueuedOnce
<1> HIDE DEF s
<1>4. Shelf(p) = s /\ Shelf(p)' = Tail(s)
  BY DEF s
<1>5. \A i \in DOMAIN Tail(s) : s[i + 1] # Head(s)
  BY <1>2, <1>3
<1>6. QED
  BY <1>2, <1>4, <1>5 DEF Popped

LEMMA PushGives ==
  ASSUME QTypeOK, NEW p \in Place, NEW t \in Task,
         Shelf(p)' = Append(Shelf(p), t),
         \A q \in Place : q # p => Shelf(q)' = Shelf(q)
  PROVE  Pushed(p, t)
<1>1. Shelf(p) \in Seq(Task)
  BY ShelfType
<1>2. QED
  BY <1>1, PushSeq DEF Pushed

-----------------------------------------------------------------------------
(* The conjuncts of PoolInv through a pop, a push, an emptied queue, the   *)
(* end of a run, and a step that touches none of it.                       *)

KeepsOnce == QueuedOnce' /\ QueuedPending' /\ HeldPending'

LEMMA TakeKeeps ==
  ASSUME PoolInv, QTypeOK', NEW w \in Worker, NEW p \in {0, w}, NEW t, Popped(p, t),
         pc[w] = "take", Run(w, t),
         UNCHANGED <<kind, queueDead, future>>
  PROVE  KeepsOnce /\ ChildrenFollow' /\ NestedStaysHome'
<1> USE DEF PoolInv
<1>0. p \in Place /\ t \in Task /\ held[w] = NoTask
  BY Places DEF Popped, QTypeOK
<1>1. \A v \in Worker : held'[v] = IF v = w THEN t ELSE held[v]
  BY DEF Run, QTypeOK
<1>2. Queued(t)
  BY <1>0, QueuedPlace DEF Popped
<1>3. future[t] = "pending" /\ \A v \in Worker : held[v] # t
  BY <1>0 DEF Popped, QueuedPending
<1>4. ASSUME NEW q \in Place, NEW i \in DOMAIN Shelf(q)'
      PROVE  /\ Shelf(q)'[i] # t
             /\ \E k \in DOMAIN Shelf(q) : Shelf(q)[k] = Shelf(q)'[i]
                                           /\ k = IF q = p THEN i + 1 ELSE i
  <2>1. CASE q = p
    BY <2>1, <1>4 DEF Popped
  <2>2. CASE q # p
    <3>1. Shelf(q)' = Shelf(q)
      BY <2>2 DEF Popped
    <3>2. PICK j \in DOMAIN Shelf(p) : Shelf(p)[j] = t
      BY DEF Popped
    <3>3. Shelf(q)[i] # t
      BY <1>0, <1>4, <2>2, <3>1, <3>2 DEF QueuedOnce
    <3>4. QED
      BY <1>4, <2>2, <3>1, <3>3
  <2>3. QED
    BY <2>1, <2>2
<1>5. ASSUME NEW q \in Place, NEW i \in DOMAIN Shelf(q)'
      PROVE  i \in Int
  <2>1. Shelf(q)' \in Seq(Task)
    BY Places DEF QTypeOK, Shelf
  <2>2. QED
    BY <1>5, <2>1, LenProperties
<1>6. QueuedOnce'
  <2> SUFFICES ASSUME NEW q \in Place', NEW r \in Place',
                      NEW i \in DOMAIN Shelf(q)', NEW j \in DOMAIN Shelf(r)',
                      Shelf(q)'[i] = Shelf(r)'[j]
               PROVE  q = r /\ i = j
    BY DEF QueuedOnce
  <2>1. q \in Place /\ r \in Place
    BY DEF Place
  <2>2. PICK k \in DOMAIN Shelf(q) : Shelf(q)[k] = Shelf(q)'[i] /\ k = IF q = p THEN i + 1 ELSE i
    BY <1>4, <2>1
  <2>3. PICK l \in DOMAIN Shelf(r) : Shelf(r)[l] = Shelf(r)'[j] /\ l = IF r = p THEN j + 1 ELSE j
    BY <1>4, <2>1
  <2>4. q = r /\ k = l
    BY <2>1, <2>2, <2>3 DEF QueuedOnce
  <2>5. QED
    BY <1>5, <2>1, <2>2, <2>3, <2>4
<1>7. QueuedPending'
  BY <1>1, <1>4 DEF QueuedPending, Place
<1>8. HeldPending'
  BY <1>0, <1>1, <1>3 DEF HeldPending
<1>9. \A u : Queued(u)' => Queued(u) /\ u # t
  BY <1>4, QueuedPlace, QueuedPlaceNext
<1>10. ChildrenFollow'
  BY <1>9 DEF ChildrenFollow, Children
<1>11. NestedStaysHome'
  <2> SUFFICES ASSUME kind' = "local", NEW v \in Worker, held'[v] # NoTask,
                      NEW c \in Children(held'[v]), future'[c] # "none"
               PROVE  future'[c] = "pending" /\ c \in ToSet(local'[v])
    BY DEF NestedStaysHome, Children, Worker
  <2>1. v # w
    BY <1>0, <1>1, <1>2 DEF ChildrenFollow, Children
  <2>2. held'[v] = held[v] /\ future[c] = "pending" /\ c \in ToSet(local[v])
    BY <1>1, <2>1 DEF NestedStaysHome, Children
  <2>3. local'[v] = local[v]
    <3>1. v \in Place /\ v # p /\ v # 0
      BY <2>1, Places
    <3>2. Shelf(v)' = Shelf(v)
      BY <3>1 DEF Popped
    <3>3. QED
      BY <3>1, <3>2 DEF Shelf
  <2>4. QED
    BY <2>2, <2>3
<1>12. QED
  BY <1>6, <1>7, <1>8, <1>10, <1>11 DEF KeepsOnce

LEMMA PushKeeps ==
  ASSUME PoolInv, QTypeOK', NEW p \in Place, NEW t \in Task, Pushed(p, t),
         future[t] = "none", future' = [future EXCEPT ![t] = "pending"],
         \/ t \in Root
         \/ \E w \in Worker : Parent[t] = held[w] /\ (kind = "local" => p = w),
         UNCHANGED <<kind, queueDead, pc, held>>
  PROVE  KeepsOnce /\ ChildrenFollow' /\ NestedStaysHome'
<1> USE DEF PoolInv
<1>1. \A u \in Task : future'[u] = IF u = t THEN "pending" ELSE future[u]
  BY DEF QTypeOK
<1>2. ~Queued(t) /\ \A w \in Worker : held[w] # t
  BY QueuedPlace, QueuePoolsAssumption DEF QueuedPending, HeldPending
<1>3. ASSUME NEW q \in Place, NEW i \in DOMAIN Shelf(q)'
      PROVE  \/ i \in DOMAIN Shelf(q) /\ Shelf(q)'[i] = Shelf(q)[i] /\ Shelf(q)[i] # t
             \/ q = p /\ i = Len(Shelf(p)) + 1 /\ Shelf(q)'[i] = t
  <2>1. \A j \in DOMAIN Shelf(q) : Shelf(q)[j] # t
    BY <1>2, QueuedPlace
  <2>2. QED
    BY <1>3, <2>1 DEF Pushed
<1>4. QueuedOnce'
  <2> SUFFICES ASSUME NEW q \in Place', NEW r \in Place',
                      NEW i \in DOMAIN Shelf(q)', NEW j \in DOMAIN Shelf(r)',
                      Shelf(q)'[i] = Shelf(r)'[j]
               PROVE  q = r /\ i = j
    BY DEF QueuedOnce
  <2>1. q \in Place /\ r \in Place
    BY DEF Place
  <2>2. QED
    BY <1>3, <2>1 DEF QueuedOnce
<1>5. \A q \in Place : \A i \in DOMAIN Shelf(q) : Shelf(q)[i] \in Task
  BY ShelfType, ElementOfSeq, LenProperties
<1>6. QueuedPending'
  <2> SUFFICES ASSUME NEW q \in Place, NEW i \in DOMAIN Shelf(q)'
               PROVE  future'[Shelf(q)'[i]] = "pending" /\ \A w \in Worker : held'[w] # Shelf(q)'[i]
    BY DEF QueuedPending, Place
  <2>1. CASE Shelf(q)'[i] = t
    BY <1>1, <1>2, <2>1
  <2>2. CASE i \in DOMAIN Shelf(q) /\ Shelf(q)'[i] = Shelf(q)[i] /\ Shelf(q)[i] # t
    BY <1>1, <1>5, <2>2 DEF QueuedPending
  <2>3. QED
    BY <1>3, <2>1, <2>2
<1>7. HeldPending'
  <2>1. \A w \in Worker : held[w] \in Task \cup {NoTask}
    BY DEF QTypeOK
  <2>2. QED
    BY <1>1, <2>1 DEF HeldPending
<1>8. \A u : Queued(u)' <=> Queued(u) \/ u = t
  <2>1. ASSUME NEW u, Queued(u)'
        PROVE  Queued(u) \/ u = t
    BY <1>3, <2>1, QueuedPlace, QueuedPlaceNext
  <2>2. ASSUME NEW u, Queued(u) \/ u = t
        PROVE  Queued(u)'
    <3>1. PICK q \in Place : \E i \in DOMAIN Shelf(q)' : Shelf(q)'[i] = u
      BY <2>2, QueuedPlace DEF Pushed
    <3>2. QED
      BY <3>1, QueuedPlaceNext
  <2>3. QED
    BY <2>1, <2>2
<1>9. \A u \in Task : Parent[t] = u => future[u] = "pending" /\ ~Queued(u) /\ u # t
  BY <1>2, QueuedPlace, QueuePoolsAssumption DEF Root, HeldPending, QueuedPending
<1>10. ChildrenFollow'
  <2> SUFFICES ASSUME NEW u \in Task, future'[u] = "none" \/ Queued(u)',
                      NEW c \in Children(u)
               PROVE  future'[c] = "none"
    BY DEF ChildrenFollow, Children
  <2>1. c \in Task /\ Parent[c] = u
    BY DEF Children
  <2>2. future[u] = "none" \/ Queued(u)
    BY <1>1, <1>8
  <2>3. c # t
    BY <1>9, <2>1, <2>2
  <2>4. QED
    BY <1>1, <2>1, <2>2, <2>3 DEF ChildrenFollow
<1>11. NestedStaysHome'
  <2> SUFFICES ASSUME kind = "local", NEW v \in Worker, held[v] # NoTask,
                      NEW c \in Children(held[v]), future'[c] # "none"
               PROVE  future'[c] = "pending" /\ c \in ToSet(local'[v])
    BY DEF NestedStaysHome, Children, Worker
  <2>1. c \in Task /\ Parent[c] = held[v] /\ v \in Place /\ v # 0
    BY Places DEF Children
  <2>2. CASE c = t
    <3>1. p = v
      <4>1. t \notin Root
        BY <2>1, <2>2 DEF Root
      <4>2. PICK w \in Worker : Parent[t] = held[w] /\ p = w
        BY <4>1
      <4>3. w = v
        BY <2>1, <2>2, <4>2 DEF HeldPending
      <4>4. QED
        BY <4>2, <4>3
    <3>2. \E i \in DOMAIN local'[v] : local'[v][i] = t
      BY <2>1, <3>1 DEF Pushed, Shelf
    <3>3. QED
      BY <1>1, <2>2, <3>2 DEF ToSet
  <2>3. CASE c # t
    <3>1. future[c] = "pending" /\ c \in ToSet(local[v]) /\ future'[c] = future[c]
      BY <1>1, <2>1, <2>3 DEF NestedStaysHome
    <3>2. PICK i \in DOMAIN Shelf(v) : Shelf(v)[i] = c
      BY <2>1, <3>1 DEF ToSet, Shelf
    <3>3. i \in DOMAIN Shelf(v)' /\ Shelf(v)'[i] = c
      BY <2>1, <3>2 DEF Pushed
    <3>4. QED
      BY <2>1, <3>1, <3>3 DEF ToSet, Shelf
  <2>4. QED
    BY <2>2, <2>3
<1>12. QED
  BY <1>4, <1>6, <1>7, <1>10, <1>11 DEF KeepsOnce

LEMMA EmptyKeeps ==
  ASSUME PoolInv, QTypeOK', NEW p \in Place, Emptied(p),
         p # 0 => held[p] = NoTask,
         \A u \in Task : future'[u] = IF kind = "shared" /\ \E i \in DOMAIN Shelf(p) : Shelf(p)[i] = u
                                      THEN "broken" ELSE future[u],
         UNCHANGED <<kind, held>>
  PROVE  KeepsOnce /\ ChildrenFollow' /\ NestedStaysHome'
<1> USE DEF PoolInv
<1>1. ASSUME NEW q \in Place, NEW i \in DOMAIN Shelf(q)'
      PROVE  q # p /\ Shelf(q)' = Shelf(q) /\ i \in DOMAIN Shelf(q)
  BY <1>1 DEF Emptied
<1>2. \A q \in Place : \A i \in DOMAIN Shelf(q) : Shelf(q)[i] \in Task
  BY ShelfType, ElementOfSeq, LenProperties
<1>3. \A u \in Task : future'[u] \in {future[u], "broken"}
  OBVIOUS
<1>4. QueuedOnce'
  BY <1>1 DEF QueuedOnce, Place
<1>5. QueuedPending'
  <2> SUFFICES ASSUME NEW q \in Place, NEW i \in DOMAIN Shelf(q)'
               PROVE  future'[Shelf(q)[i]] = "pending" /\ \A w \in Worker : held[w] # Shelf(q)[i]
    BY <1>1 DEF QueuedPending, Place
  <2>1. q # p /\ i \in DOMAIN Shelf(q) /\ Shelf(q)[i] \in Task
    BY <1>1, <1>2
  <2>2. \A j \in DOMAIN Shelf(p) : Shelf(p)[j] # Shelf(q)[i]
    BY <2>1 DEF QueuedOnce
  <2>3. future'[Shelf(q)[i]] = future[Shelf(q)[i]]
    BY <2>1, <2>2
  <2>4. QED
    BY <2>1, <2>3 DEF QueuedPending
<1>6. HeldPending'
  <2> SUFFICES ASSUME NEW w \in Worker, held[w] # NoTask
               PROVE  future'[held[w]] = "pending" /\ \A v \in Worker : held[v] = held[w] => v = w
    BY DEF HeldPending, Worker
  <2>1. held[w] \in Task /\ \A j \in DOMAIN Shelf(p) : Shelf(p)[j] # held[w]
    BY DEF QTypeOK, QueuedPending
  <2>2. QED
    BY <2>1 DEF HeldPending
<1>7. \A u : Queued(u)' => Queued(u)
  <2> SUFFICES ASSUME NEW u, Queued(u)'
               PROVE  Queued(u)
    OBVIOUS
  <2>1. PICK q \in Place : \E i \in DOMAIN Shelf(q)' : Shelf(q)'[i] = u
    BY QueuedPlaceNext
  <2>2. QED
    BY <1>1, <2>1, QueuedPlace
<1>8. ChildrenFollow'
  <2> SUFFICES ASSUME NEW u \in Task, future'[u] = "none" \/ Queued(u)', NEW c \in Children(u)
               PROVE  future'[c] = "none"
    BY DEF ChildrenFollow, Children
  <2>1. future[c] = "none" /\ c \in Task
    BY <1>3, <1>7 DEF ChildrenFollow, Children
  <2>2. \A j \in DOMAIN Shelf(p) : Shelf(p)[j] # c
    BY <2>1 DEF QueuedPending
  <2>3. QED
    BY <2>1, <2>2
<1>9. NestedStaysHome'
  <2> SUFFICES ASSUME kind = "local", NEW v \in Worker, held[v] # NoTask,
                      NEW c \in Children(held[v]), future'[c] # "none"
               PROVE  future'[c] = "pending" /\ c \in ToSet(local'[v])
    BY DEF NestedStaysHome, Children, Worker
  <2>1. c \in Task /\ future'[c] = future[c]
    BY DEF Children
  <2>2. Shelf(v)' = Shelf(v) /\ v # 0
    BY Places DEF Emptied
  <2>3. local'[v] = local[v]
    BY <2>2 DEF Shelf
  <2>4. QED
    BY <2>1, <2>3 DEF NestedStaysHome
<1>10. QED
  BY <1>4, <1>5, <1>6, <1>8, <1>9 DEF KeepsOnce

LEMMA FinishKeeps ==
  ASSUME PoolInv, QTypeOK', NEW w \in Worker, Finish(w)
  PROVE  KeepsOnce /\ ChildrenFollow' /\ NestedStaysHome'
<1> USE DEF PoolInv
<1>0. PICK h \in Task : h = held[w] /\ h # NoTask
  BY QueuePoolsAssumption DEF Finish, QTypeOK
<1>1. /\ \A u \in Task : u # h => future'[u] = future[u]
      /\ future'[h] \in {"value", "exception"}
      /\ \A v \in Worker : held'[v] = IF v = w THEN NoTask ELSE held[v]
      /\ UNCHANGED <<kind, queueDead, queue, local>>
      /\ \A v \in Worker : pc[v] = "exited" => pc'[v] = "exited"
  BY <1>0 DEF Finish, QTypeOK, pool
<1>2. \A q : Shelf(q)' = Shelf(q)
  BY <1>1 DEF Shelf
<1>3. \A u : Queued(u)' <=> Queued(u)
  BY <1>1 DEF Queued
<1>4. ~Queued(h) /\ future[h] = "pending" /\ \A v \in Worker : held[v] = h => v = w
  BY <1>0, QueuedPlace DEF QueuedPending, HeldPending
<1>5. QueuedOnce'
  BY <1>2 DEF QueuedOnce, Place
<1>6. QueuedPending'
  <2> SUFFICES ASSUME NEW q \in Place, NEW i \in DOMAIN Shelf(q)
               PROVE  future'[Shelf(q)[i]] = "pending" /\ \A v \in Worker : held'[v] # Shelf(q)[i]
    BY <1>2 DEF QueuedPending, Place
  <2>1. Shelf(q)[i] \in Task /\ Shelf(q)[i] # h
    BY <1>4, ShelfType, ElementOfSeq, LenProperties, QueuedPlace
  <2>2. QED
    BY <1>1, <2>1, QueuePoolsAssumption DEF QueuedPending
<1>7. HeldPending'
  <2> SUFFICES ASSUME NEW v \in Worker, held'[v] # NoTask
               PROVE  future'[held'[v]] = "pending" /\ \A x \in Worker : held'[x] = held'[v] => x = v
    BY DEF HeldPending, Worker
  <2>1. v # w /\ held'[v] = held[v] /\ held[v] \in Task /\ held[v] # h
    BY <1>1, <1>4 DEF QTypeOK
  <2>2. QED
    BY <1>1, <2>1 DEF HeldPending
<1>8. ChildrenFollow'
  <2> SUFFICES ASSUME NEW u \in Task, future'[u] = "none" \/ Queued(u)', NEW c \in Children(u)
               PROVE  future'[c] = "none"
    BY DEF ChildrenFollow, Children
  <2>1. c \in Task /\ future[c] = "none"
    BY <1>1, <1>3 DEF ChildrenFollow, Children
  <2>2. QED
    BY <1>1, <1>4, <2>1
<1>9. NestedStaysHome'
  <2> SUFFICES ASSUME kind = "local", NEW v \in Worker, held'[v] # NoTask,
                      NEW c \in Children(held'[v]), future'[c] # "none"
               PROVE  future'[c] = "pending" /\ c \in ToSet(local[v])
    BY <1>1 DEF NestedStaysHome, Children, Worker
  <2>1. v # w /\ held'[v] = held[v] /\ c \in Task
    BY <1>1 DEF Children
  <2>2. future[c] = "pending" /\ c \in ToSet(local[v])
    BY <1>1, <1>4, <2>1 DEF NestedStaysHome, Children
  <2>3. Queued(c)
    BY <2>2 DEF Queued
  <2>4. QED
    BY <1>1, <1>4, <2>1, <2>2, <2>3
<1>10. QED
  BY <1>5, <1>6, <1>7, <1>8, <1>9 DEF KeepsOnce

LEMMA SameKeeps ==
  ASSUME PoolInv, UNCHANGED <<kind, queue, local, held, future>>, queueDead => queueDead',
         \A w \in Worker : pc[w] = "exited" => pc'[w] = "exited"
  PROVE  KeepsOnce /\ ChildrenFollow' /\ NestedStaysHome' /\ SharedHasNoLocal'
<1>1. \A q : Shelf(q)' = Shelf(q)
  BY DEF Shelf
<1>2. \A u : Queued(u)' <=> Queued(u)
  BY DEF Queued
<1>3. KeepsOnce
  BY <1>1 DEF PoolInv, KeepsOnce, QueuedOnce, QueuedPending, HeldPending, Place, Worker
<1>4. ChildrenFollow' /\ NestedStaysHome' /\ SharedHasNoLocal'
  BY <1>2 DEF PoolInv, ChildrenFollow, NestedStaysHome, SharedHasNoLocal, Children, Worker
<1>5. QED
  BY <1>3, <1>4

-----------------------------------------------------------------------------
(* The induction, action by action.                                        *)

LEMMA Initially == Init => PoolInv
<1> SUFFICES ASSUME Init PROVE PoolInv
  OBVIOUS
<1>1. QTypeOK
  BY QueuePoolsAssumption, EmptySeq DEF Init, QTypeOK
<1>2. \A p \in Place : DOMAIN Shelf(p) = {}
  BY Places DEF Init, Shelf
<1>3. \A t : ~Queued(t)
  BY DEF Init, Queued, ToSet
<1>4. QED
  BY <1>1, <1>2, <1>3
     DEF Init, PoolInv, QueuedOnce, QueuedPending, HeldPending, SharedHasNoLocal,
         ChildrenFollow, NestedStaysHome, Children

LEMMA TypeStep ==
  ASSUME QTypeOK, [Next]_vars
  PROVE  QTypeOK'
<1> USE DEF QTypeOK
<1>1. ASSUME NEW w \in Worker, StartThread(w)
      PROVE  QTypeOK'
  BY <1>1 DEF StartThread, pool
<1>2. CASE Constructed \/ ConstructFails \/ Shutdown \/ BeginDestroy \/ Join
  BY <1>2 DEF Constructed, ConstructFails, Shutdown, BeginDestroy, Join, threads
<1>3. ASSUME NEW t \in Task, SubmitExternal(t)
      PROVE  QTypeOK'
  BY <1>3, AppendProperties DEF SubmitExternal, pool, threads
<1>4. CASE DestroyQueue
  BY <1>4, EmptySeq DEF DestroyQueue, threads, Ready
<1>5. ASSUME NEW w \in Worker, CheckDone(w)
      PROVE  QTypeOK'
  BY <1>5, EmptySeq DEF CheckDone, pool
<1>6. ASSUME NEW w \in Worker, TakeLocal(w)
      PROVE  QTypeOK'
  <2>1. Head(local[w]) \in Task /\ Tail(local[w]) \in Seq(Task)
    BY <1>6, PopSeq DEF TakeLocal
  <2>2. QED
    BY <1>6, <2>1, QueuePoolsAssumption DEF TakeLocal, Run, pool
<1>7. CASE Crash
  BY <1>7 DEF Crash, pool, threads
<1>8. ASSUME NEW w \in Worker, TakeShared(w)
      PROVE  QTypeOK'
  <2>1. CASE queue # <<>> /\ Run(w, Head(queue)) /\ queue' = Tail(queue)
             /\ UNCHANGED <<pool, local, future, crashed>>
    <3>1. Head(queue) \in Task /\ Tail(queue) \in Seq(Task)
      BY <2>1, PopSeq
    <3>2. QED
      BY <1>8, <2>1, <3>1, QueuePoolsAssumption DEF TakeShared, Run, pool
  <2>2. CASE pc' = [pc EXCEPT ![w] = "loop"] /\ UNCHANGED <<pool, queue, local, held, future, crashed>>
    BY <1>8, <2>2 DEF TakeShared, pool
  <2>3. QED
    BY <1>7, <1>8, <2>1, <2>2 DEF TakeShared
<1>9. ASSUME NEW w \in Worker, NEW t \in Task, SubmitNested(w, t)
      PROVE  QTypeOK'
  <2>1. Append(queue, t) \in Seq(Task) /\ Append(local[w], t) \in Seq(Task)
    BY AppendProperties
  <2>2. CASE ~Crash
    BY <1>9, <2>1, <2>2 DEF SubmitNested, pool
  <2>3. QED
    BY <1>7, <2>2
<1>10. ASSUME NEW w \in Worker, Finish(w)
      PROVE  QTypeOK'
  BY <1>10 DEF Finish, pool, Ready
<1>11. CASE UNCHANGED vars
  BY <1>11 DEF vars
<1>12. QED
  BY <1>1, <1>2, <1>3, <1>4, <1>5, <1>6, <1>8, <1>9, <1>10, <1>11
     DEF Next, ConstructorStep, DestructorStep, WorkerStep

\* Which shelf a step pops, pushes or empties.
LEMMA LocalTaken ==
  ASSUME PoolInv, NEW w \in Worker, TakeLocal(w)
  PROVE  /\ Popped(w, Head(local[w])) /\ pc[w] = "take" /\ Run(w, Head(local[w]))
         /\ UNCHANGED <<kind, queueDead, life, done, queue, future>>
<1>1. w \in Place /\ w # 0
  BY Places
<1>2. Shelf(w) # <<>> /\ Shelf(w)' = Tail(Shelf(w))
  BY <1>1 DEF TakeLocal, Shelf, PoolInv, QTypeOK
<1>3. \A q \in Place : q # w => Shelf(q)' = Shelf(q)
  BY <1>1 DEF TakeLocal, Shelf, PoolInv, QTypeOK
<1>4. Popped(w, Head(Shelf(w)))
  BY <1>1, <1>2, <1>3, PopGives DEF PoolInv
<1>5. Shelf(w) = local[w]
  BY <1>1 DEF Shelf
<1>6. QED
  BY <1>4, <1>5 DEF TakeLocal, pool

LEMMA SharedTaken ==
  ASSUME PoolInv, NEW w \in Worker, TakeShared(w)
  PROVE  \/ /\ Popped(0, Head(queue)) /\ pc[w] = "take" /\ Run(w, Head(queue))
            /\ UNCHANGED <<kind, queueDead, life, done, local, future>>
         \/ /\ UNCHANGED <<kind, queueDead, life, done, queue, local, held, future>>
            /\ \A v \in Worker : pc[v] = "exited" => pc'[v] = "exited"
<1>1. CASE queue # <<>> /\ Run(w, Head(queue)) /\ queue' = Tail(queue)
           /\ UNCHANGED <<pool, local, future, crashed>>
  <2>1. 0 \in Place /\ Shelf(0) = queue /\ Shelf(0)' = Tail(queue)
    BY <1>1, Places DEF Shelf
  <2>2. \A q \in Place : q # 0 => Shelf(q)' = Shelf(q)
    BY <1>1 DEF Shelf
  <2>3. Popped(0, Head(queue))
    BY <1>1, <2>1, <2>2, PopGives DEF PoolInv
  <2>4. QED
    BY <1>1, <2>3 DEF TakeShared, pool
<1>2. CASE pc' = [pc EXCEPT ![w] = "loop"] /\ UNCHANGED <<pool, queue, local, held, future, crashed>>
  BY <1>2 DEF TakeShared, pool, PoolInv, QTypeOK
<1>3. CASE Crash
  BY <1>3 DEF Crash, pool, threads
<1>4. QED
  BY <1>1, <1>2, <1>3 DEF TakeShared

LEMMA NestedPushed ==
  ASSUME PoolInv, NEW w \in Worker, NEW t \in Task, SubmitNested(w, t)
  PROVE  \/ /\ Pushed(IF kind = "shared" THEN 0 ELSE w, t)
            /\ future[t] = "none" /\ Parent[t] = held[w]
            /\ future' = [future EXCEPT ![t] = "pending"]
            /\ UNCHANGED <<kind, queueDead, life, done, pc, held>>
            /\ kind = "shared" => local' = local
         \/ UNCHANGED <<kind, queueDead, life, done, queue, local, pc, held, future>>
<1>1. CASE Crash
  BY <1>1 DEF Crash, pool, threads
<1>2. CASE ~Crash
  <2>1. w \in Place /\ w # 0
    BY Places
  <2>2. CASE kind = "shared"
    <3>1. Shelf(0)' = Append(Shelf(0), t) /\ \A q \in Place : q # 0 => Shelf(q)' = Shelf(q)
      BY <1>2, <2>2 DEF SubmitNested, Shelf
    <3>2. Pushed(0, t)
      BY <2>1, <3>1, Places, PushGives DEF PoolInv
    <3>3. QED
      BY <1>2, <2>2, <3>2 DEF SubmitNested, pool
  <2>3. CASE kind # "shared"
    <3>1. queue' = queue /\ local' = [local EXCEPT ![w] = Append(@, t)]
      BY <1>2, <2>3 DEF SubmitNested
    <3>2. Shelf(w)' = Append(Shelf(w), t) /\ \A q \in Place : q # w => Shelf(q)' = Shelf(q)
      BY <2>1, <3>1, Places DEF Shelf, PoolInv, QTypeOK
    <3>3. Pushed(w, t)
      BY <2>1, <3>2, Places, PushGives DEF PoolInv
    <3>4. QED
      BY <1>2, <2>3, <3>3 DEF SubmitNested, pool
  <2>4. QED
    BY <2>2, <2>3
<1>3. QED
  BY <1>1, <1>2

LEMMA ExternalPushed ==
  ASSUME PoolInv, NEW t \in Task, SubmitExternal(t)
  PROVE  /\ Pushed(0, t) /\ t \in Root /\ future[t] = "none"
         /\ future' = [future EXCEPT ![t] = "pending"]
         /\ UNCHANGED <<kind, queueDead, life, done, local, pc, held>>
<1>1. Shelf(0)' = Append(Shelf(0), t) /\ \A q \in Place : q # 0 => Shelf(q)' = Shelf(q)
  BY DEF SubmitExternal, threads, Shelf
<1>2. QED
  BY <1>1, Places, PushGives DEF SubmitExternal, PoolInv, pool, threads

LEMMA QueueEmptied ==
  ASSUME PoolInv, DestroyQueue
  PROVE  /\ Emptied(0) /\ queueDead' /\ life = "destroy"
         /\ \A u \in Task : future'[u] = IF kind = "shared" /\ \E i \in DOMAIN Shelf(0) : Shelf(0)[i] = u
                                         THEN "broken" ELSE future[u]
         /\ UNCHANGED <<kind, life, done, local, held, pc>>
<1>1. Emptied(0)
  BY DEF DestroyQueue, threads, Shelf, Emptied
<1>2. \A u : u \in ToSet(queue) <=> \E i \in DOMAIN Shelf(0) : Shelf(0)[i] = u
  BY DEF ToSet, Shelf
<1>3. QED
  BY <1>1, <1>2 DEF DestroyQueue, threads

LEMMA LeaverEmptied ==
  ASSUME PoolInv, NEW w \in Worker, CheckDone(w), done
  PROVE  /\ Emptied(w) /\ held[w] = NoTask /\ pc'[w] = "exited"
         /\ UNCHANGED <<kind, queueDead, life, done, queue, held, future>>
<1>1. w # 0
  BY Places
<1>2. QED
  BY <1>1 DEF CheckDone, PoolInv, QTypeOK, pool, Emptied, Shelf

LEMMA PoolStep ==
  ASSUME PoolInv, [Next]_vars
  PROVE  PoolInv'
<1>0. QTypeOK'
  BY TypeStep DEF PoolInv
<1>1. ASSUME UNCHANGED <<kind, queue, local, held, future>>, queueDead => queueDead',
             \A w \in Worker : pc[w] = "exited" => pc'[w] = "exited"
      PROVE  PoolInv'
  BY <1>0, <1>1, SameKeeps DEF KeepsOnce, PoolInv
<1>2. ASSUME KeepsOnce /\ ChildrenFollow' /\ NestedStaysHome', SharedHasNoLocal'
      PROVE  PoolInv'
  BY <1>0, <1>2 DEF KeepsOnce, PoolInv
<1>3. ASSUME NEW w \in Worker, StartThread(w)
      PROVE  PoolInv'
  BY <1>1, <1>3 DEF StartThread, pool, PoolInv, QTypeOK
<1>4. CASE Constructed \/ ConstructFails \/ Shutdown \/ BeginDestroy \/ Join
  BY <1>1, <1>4 DEF Constructed, ConstructFails, Shutdown, BeginDestroy, Join, threads
<1>5. ASSUME NEW t \in Task, SubmitExternal(t)
      PROVE  PoolInv'
  <2>1. KeepsOnce /\ ChildrenFollow' /\ NestedStaysHome'
    BY <1>0, <1>5, ExternalPushed, PushKeeps, Places
  <2>2. QED
    BY <1>2, <1>5, <2>1, ExternalPushed DEF PoolInv, SharedHasNoLocal, Worker
<1>6. CASE DestroyQueue
  <2>1. KeepsOnce /\ ChildrenFollow' /\ NestedStaysHome'
    BY <1>0, <1>6, QueueEmptied, EmptyKeeps, Places
  <2>2. QED
    BY <1>2, <1>6, <2>1, QueueEmptied DEF PoolInv, SharedHasNoLocal, Worker
<1>7. ASSUME NEW w \in Worker, CheckDone(w)
      PROVE  PoolInv'
  <2>1. CASE ~done
    <3>1. /\ UNCHANGED <<kind, queue, local, held, future, queueDead>>
          /\ \A v \in Worker : pc[v] = "exited" => pc'[v] = "exited"
      BY <1>7, <2>1 DEF CheckDone, pool, PoolInv, QTypeOK
    <3>2. QED
      BY <1>1, <3>1
  <2>2. CASE done /\ kind = "local"
    <3>1. KeepsOnce /\ ChildrenFollow' /\ NestedStaysHome'
      BY <1>0, <1>7, <2>2, LeaverEmptied, EmptyKeeps, Places
    <3>2. QED
      BY <1>2, <1>7, <2>2, <3>1, LeaverEmptied DEF SharedHasNoLocal
  <2>3. CASE done /\ kind # "local"
    <3>1. kind = "shared"
      BY <2>3 DEF PoolInv, QTypeOK
    <3>2. local' = local
      BY <1>7, <3>1 DEF CheckDone, PoolInv, SharedHasNoLocal, QTypeOK
    <3>3. /\ UNCHANGED <<kind, queue, local, held, future, queueDead>>
          /\ \A v \in Worker : pc[v] = "exited" => pc'[v] = "exited"
      BY <1>7, <3>2 DEF CheckDone, pool, PoolInv, QTypeOK
    <3>4. QED
      BY <1>1, <3>3
  <2>4. QED
    BY <2>1, <2>2, <2>3
<1>8. ASSUME NEW w \in Worker, TakeLocal(w)
      PROVE  PoolInv'
  <2>1. KeepsOnce /\ ChildrenFollow' /\ NestedStaysHome'
    BY <1>0, <1>8, LocalTaken, TakeKeeps
  <2>2. SharedHasNoLocal'
    BY <1>8 DEF TakeLocal, pool, PoolInv, SharedHasNoLocal
  <2>3. QED
    BY <1>2, <2>1, <2>2
<1>9. ASSUME NEW w \in Worker, TakeShared(w)
      PROVE  PoolInv'
  <2>1. CASE /\ Popped(0, Head(queue)) /\ pc[w] = "take" /\ Run(w, Head(queue))
             /\ UNCHANGED <<kind, queueDead, life, done, local, future>>
    <3>1. KeepsOnce /\ ChildrenFollow' /\ NestedStaysHome'
      BY <1>0, <2>1, TakeKeeps
    <3>2. QED
      BY <1>2, <2>1, <3>1 DEF PoolInv, SharedHasNoLocal, Worker
  <2>2. QED
    BY <1>1, <1>9, <2>1, SharedTaken
<1>10. ASSUME NEW w \in Worker, NEW t \in Task, SubmitNested(w, t)
       PROVE  PoolInv'
  <2> DEFINE p == IF kind = "shared" THEN 0 ELSE w
  <2>1. CASE UNCHANGED <<kind, queueDead, life, done, queue, local, pc, held, future>>
    BY <1>1, <2>1
  <2>2. CASE ~UNCHANGED <<kind, queueDead, life, done, queue, local, pc, held, future>>
    <3>1. p \in Place /\ (kind = "local" => p = w)
      BY Places
    <3>2. KeepsOnce /\ ChildrenFollow' /\ NestedStaysHome'
      BY <1>0, <1>10, <2>2, <3>1, NestedPushed, PushKeeps
    <3>3. SharedHasNoLocal'
      BY <1>10, <2>2, NestedPushed DEF PoolInv, SharedHasNoLocal, Worker
    <3>4. QED
      BY <1>2, <3>2, <3>3
  <2>3. QED
    BY <2>1, <2>2
<1>11. ASSUME NEW w \in Worker, Finish(w)
       PROVE  PoolInv'
  <2>1. SharedHasNoLocal'
    BY <1>11 DEF Finish, pool, PoolInv, SharedHasNoLocal, Worker
  <2>2. QED
    BY <1>0, <1>2, <1>11, <2>1, FinishKeeps
<1>12. CASE UNCHANGED vars
  BY <1>1, <1>12 DEF vars
<1>13. QED
  BY <1>3, <1>4, <1>5, <1>6, <1>7, <1>8, <1>9, <1>10, <1>11, <1>12
     DEF Next, ConstructorStep, DestructorStep, WorkerStep

LEMMA PoolInvHolds == Spec => []PoolInv
BY Initially, PoolStep, PTL DEF Spec

\* The types of the state of either pool.
THEOREM QueuePoolsTypes == Spec => []QTypeOK
BY PoolInvHolds, PTL DEF PoolInv

\* A task submitted by a running task of pool 3 stays behind it on its worker
\* until it ends: submit() pushes to the local queue, and nobody steals.
THEOREM NestedTasksStayHome == Spec => []NestedStaysHome
BY PoolInvHolds, PTL DEF PoolInv

-----------------------------------------------------------------------------
(* THE THREE WAYS IN WHICH A FUTURE HANGS.                                 *)

\* A queue dies in the destructor; what is in its remains was put there by a task
\* of pool 2.  Pool 3 keeps tasks from outside and nested ones apart, and a nested
\* one lies on the worker that runs, or has run, its parent.
QueueDiesLate == queueDead => life \in {"destroy", "gone"}

RemainsAreNested ==
  \A t \in ToSet(queue) :
    /\ queueDead => t \notin Root
    /\ kind = "local" => t \in Root

ParentWasHere ==
  \A w \in Worker : \A t \in ToSet(local[w]) :
    t \notin Root /\ (Parent[t] = held[w] \/ future[Parent[t]] \in Ready)

HangsKnown ==
  \A t \in Task : future[t] = "pending" /\ ~Queued(t) /\ t \notin HeldTasks =>
    LostWithQueue(t) \/ LostWithWorker(t)

HangInv == QueueDiesLate /\ RemainsAreNested /\ ParentWasHere /\ HangsKnown

LEMMA AppendSet ==
  ASSUME NEW S, NEW s \in Seq(S), NEW e \in S
  PROVE  ToSet(Append(s, e)) = ToSet(s) \cup {e}
BY PushSeq DEF ToSet

LEMMA TailSet ==
  ASSUME NEW S, NEW s \in Seq(S), s # <<>>
  PROVE  ToSet(s) = {Head(s)} \cup ToSet(Tail(s))
<1> DEFINE r == Tail(s)
<1>1. /\ 1 \in DOMAIN s /\ s[1] = Head(s)
      /\ \A i \in DOMAIN r : i + 1 \in DOMAIN s /\ r[i] = s[i + 1]
      /\ \A i \in DOMAIN s : i = 1 \/ (i - 1 \in DOMAIN r /\ r[i - 1] = s[i])
  BY PopSeq
<1> HIDE DEF r
<1>2. ToSet(s) = {Head(s)} \cup ToSet(r)
  BY <1>1 DEF ToSet
<1>3. QED
  BY <1>2 DEF r

LEMMA SetOfTasks ==
  ASSUME QTypeOK, NEW w \in Worker, NEW t \in ToSet(local[w])
  PROVE  t \in Task /\ Parent[t] \in Task \cup {NoTask}
<1>1. local[w] \in Seq(Task)
  BY DEF QTypeOK
<1>2. PICK i \in DOMAIN local[w] : local[w][i] = t
  BY DEF ToSet
<1>3. t \in Task
  BY <1>1, <1>2, ElementOfSeq, LenProperties
<1>4. QED
  BY <1>3, QueuePoolsAssumption

\* A task lost stays lost: nothing takes back an outcome, a dead queue or an exit.
LEMMA LostStays ==
  ASSUME QTypeOK, NEW t \in Task, LostWithQueue(t) \/ LostWithWorker(t),
         kind' = kind, queueDead => queueDead',
         \A u \in Task : future[u] \in Ready => future'[u] \in Ready,
         \A w \in Worker : pc[w] = "exited" => pc'[w] = "exited"
  PROVE  (LostWithQueue(t) \/ LostWithWorker(t))'
<1>1. CASE LostWithQueue(t)
  BY <1>1 DEF LostWithQueue
<1>2. CASE LostWithWorker(t)
  BY <1>2, QueuePoolsAssumption DEF LostWithWorker, Root
<1>3. QED
  BY <1>1, <1>2

\* Steps that move no task.
LEMMA HangSame ==
  ASSUME PoolInv, HangInv, UNCHANGED <<kind, queueDead, queue, local, held, future>>,
         life \in {"destroy", "gone"} => life' \in {"destroy", "gone"},
         \A w \in Worker : pc[w] = "exited" => pc'[w] = "exited"
  PROVE  HangInv'
<1>1. QueueDiesLate' /\ RemainsAreNested' /\ ParentWasHere'
  BY DEF HangInv, QueueDiesLate, RemainsAreNested, ParentWasHere
<1>2. HangsKnown'
  BY LostStays DEF PoolInv, HangInv, HangsKnown, Queued, HeldTasks
<1>3. QED
  BY <1>1, <1>2 DEF HangInv

LEMMA HangPush ==
  ASSUME PoolInv, HangInv, NEW t \in Task, future[t] = "none",
         future' = [future EXCEPT ![t] = "pending"],
         UNCHANGED <<kind, queueDead, life, pc, held>>,
         \/ /\ queue' = Append(queue, t) /\ local' = local
            /\ queueDead => t \notin Root
            /\ kind = "local" => t \in Root
         \/ \E w \in Worker :
              /\ local' = [local EXCEPT ![w] = Append(@, t)] /\ queue' = queue
              /\ Parent[t] = held[w] /\ t \notin Root
  PROVE  HangInv'
<1> USE DEF PoolInv
<1>1. \A u \in Task : future'[u] = IF u = t THEN "pending" ELSE future[u]
  BY DEF QTypeOK
<1>2. /\ \A u \in Task : future[u] \in Ready => future'[u] \in Ready
      /\ HeldTasks' = HeldTasks
  BY <1>1 DEF Ready, HeldTasks
<1>3. ToSet(Append(queue, t)) = ToSet(queue) \cup {t}
  BY AppendSet DEF QTypeOK
<1>4. \A w \in Worker : ToSet(Append(local[w], t)) = ToSet(local[w]) \cup {t}
  BY AppendSet DEF QTypeOK
<1>5. \A w \in Worker : \A u \in ToSet(local[w]) : u \in Task /\ Parent[u] \in Task \cup {NoTask}
  BY SetOfTasks
<1>6. QueueDiesLate' /\ RemainsAreNested'
  BY <1>3 DEF HangInv, QueueDiesLate, RemainsAreNested
<1>7. ParentWasHere'
  <2> SUFFICES ASSUME NEW w \in Worker, NEW u \in ToSet(local'[w])
               PROVE  u \notin Root /\ (Parent[u] = held[w] \/ future'[Parent[u]] \in Ready)
    BY DEF ParentWasHere, Root
  <2>1. CASE u \in ToSet(local[w])
    BY <1>2, <1>5, <2>1, QueuePoolsAssumption DEF HangInv, ParentWasHere, Root
  <2>2. CASE u \notin ToSet(local[w])
    BY <1>4, <2>2 DEF QTypeOK
  <2>3. QED
    BY <2>1, <2>2
<1>8. HangsKnown'
  <2> SUFFICES ASSUME NEW u \in Task, future'[u] = "pending", ~Queued(u)', u \notin HeldTasks'
               PROVE  (LostWithQueue(u) \/ LostWithWorker(u))'
    BY DEF HangsKnown
  <2>1. u # t /\ ~Queued(u)
    BY <1>3, <1>4 DEF Queued, QTypeOK
  <2>2. QED
    BY <1>1, <1>2, <2>1, LostStays DEF HangInv, HangsKnown
<1>9. QED
  BY <1>6, <1>7, <1>8 DEF HangInv

LEMMA HangTake ==
  ASSUME PoolInv, HangInv, NEW w \in Worker, NEW t \in Task, pc[w] = "take", Run(w, t),
         UNCHANGED <<kind, queueDead, life, future>>,
         \/ ToSet(queue) = {t} \cup ToSet(queue') /\ local' = local
         \/ /\ ToSet(local[w]) = {t} \cup ToSet(local'[w])
            /\ \A v \in Worker : v # w => local'[v] = local[v]
            /\ queue' = queue
  PROVE  HangInv'
<1> USE DEF PoolInv
<1>1. /\ held[w] = NoTask
      /\ \A v \in Worker : held'[v] = IF v = w THEN t ELSE held[v]
      /\ \A v \in Worker : pc[v] = "exited" => pc'[v] = "exited"
  BY DEF Run, QTypeOK
<1>2. \A v \in Worker : ToSet(local'[v]) \subseteq ToSet(local[v])
  OBVIOUS
<1>3. QueueDiesLate' /\ RemainsAreNested'
  BY DEF HangInv, QueueDiesLate, RemainsAreNested
<1>4. ParentWasHere'
  <2> SUFFICES ASSUME NEW v \in Worker, NEW u \in ToSet(local'[v])
               PROVE  u \notin Root /\ (Parent[u] = held'[v] \/ future[Parent[u]] \in Ready)
    BY DEF ParentWasHere, Root
  <2>1. u \notin Root /\ (Parent[u] = held[v] \/ future[Parent[u]] \in Ready)
    BY <1>2 DEF HangInv, ParentWasHere
  <2>2. u \in Task
    BY <1>2, SetOfTasks
  <2>3. QED
    BY <1>1, <2>1, <2>2 DEF Root
<1>5. HangsKnown'
  <2> SUFFICES ASSUME NEW u \in Task, future[u] = "pending", ~Queued(u)', u \notin HeldTasks'
               PROVE  (LostWithQueue(u) \/ LostWithWorker(u))'
    BY DEF HangsKnown
  <2>1. u # t /\ u \notin HeldTasks
    BY <1>1, QueuePoolsAssumption DEF HeldTasks
  <2>2. ~Queued(u)
    BY <2>1 DEF Queued
  <2>3. QED
    BY <1>1, <2>1, <2>2, LostStays DEF HangInv, HangsKnown
<1>6. QED
  BY <1>3, <1>4, <1>5 DEF HangInv

LEMMA HangDestroy ==
  ASSUME PoolInv, HangInv, DestroyQueue
  PROVE  HangInv'
<1> USE DEF PoolInv
<1>1. /\ UNCHANGED <<kind, local, pc, held, life>> /\ life = "destroy"
      /\ queue' = <<>> /\ queueDead'
      /\ \A u \in Task : future'[u] = IF kind = "shared" /\ u \in ToSet(queue) THEN "broken" ELSE future[u]
  BY DEF DestroyQueue, threads
<1>2. ToSet(queue') = {} /\ HeldTasks' = HeldTasks
  BY <1>1 DEF ToSet, HeldTasks
<1>3. \A u \in Task : future[u] \in Ready => future'[u] \in Ready
  BY <1>1 DEF Ready
<1>4. QueueDiesLate' /\ RemainsAreNested'
  BY <1>1, <1>2 DEF QueueDiesLate, RemainsAreNested
<1>5. ParentWasHere'
  <2> SUFFICES ASSUME NEW w \in Worker, NEW u \in ToSet(local[w])
               PROVE  u \notin Root /\ (Parent[u] = held[w] \/ future'[Parent[u]] \in Ready)
    BY <1>1 DEF ParentWasHere, Root
  <2>1. u \in Task /\ Parent[u] \in Task \cup {NoTask}
    BY SetOfTasks
  <2>2. QED
    BY <1>3, <2>1 DEF HangInv, ParentWasHere, Root
<1>6. HangsKnown'
  <2> SUFFICES ASSUME NEW u \in Task, future'[u] = "pending", ~Queued(u)', u \notin HeldTasks'
               PROVE  (LostWithQueue(u) \/ LostWithWorker(u))'
    BY DEF HangsKnown
  <2>1. future[u] = "pending" /\ u \notin HeldTasks /\ \A w \in Worker : u \notin ToSet(local[w])
    BY <1>1, <1>2 DEF Queued
  <2>2. CASE u \in ToSet(queue)
    <3>1. kind = "local" /\ u \in Root
      BY <1>1, <2>2 DEF QTypeOK, HangInv, RemainsAreNested
    <3>2. QED
      BY <1>1, <3>1 DEF LostWithQueue
  <2>3. CASE u \notin ToSet(queue)
    BY <1>1, <1>3, <2>1, <2>3, LostStays DEF HangInv, HangsKnown, Queued
  <2>4. QED
    BY <2>2, <2>3
<1>7. QED
  BY <1>4, <1>5, <1>6 DEF HangInv

LEMMA HangLeave ==
  ASSUME PoolInv, HangInv, NEW w \in Worker, CheckDone(w), done
  PROVE  HangInv'
<1> USE DEF PoolInv
<1>1. /\ UNCHANGED <<kind, queueDead, life, queue, held, future>>
      /\ held[w] = NoTask /\ pc'[w] = "exited"
      /\ \A v \in Worker : local'[v] = IF v = w THEN <<>> ELSE local[v]
      /\ \A v \in Worker : pc[v] = "exited" => pc'[v] = "exited"
  BY DEF CheckDone, pool, QTypeOK
<1>2. ToSet(<<>>) = {} /\ HeldTasks' = HeldTasks
  BY <1>1 DEF ToSet, HeldTasks
<1>3. QueueDiesLate' /\ RemainsAreNested' /\ ParentWasHere'
  BY <1>1, <1>2 DEF HangInv, QueueDiesLate, RemainsAreNested, ParentWasHere
<1>4. HangsKnown'
  <2> SUFFICES ASSUME NEW u \in Task, future[u] = "pending", ~Queued(u)', u \notin HeldTasks
               PROVE  (LostWithQueue(u) \/ LostWithWorker(u))'
    BY <1>1, <1>2 DEF HangsKnown
  <2>1. CASE u \in ToSet(local[w])
    <3>1. kind = "local"
      BY <2>1, <1>2 DEF QTypeOK, SharedHasNoLocal
    <3>2. u \notin Root /\ future[Parent[u]] \in Ready
      BY <1>1, <2>1 DEF HangInv, ParentWasHere, Root
    <3>3. QED
      BY <1>1, <3>1, <3>2 DEF LostWithWorker
  <2>2. CASE u \notin ToSet(local[w])
    <3>1. ~Queued(u)
      BY <1>1, <2>2 DEF Queued
    <3>2. QED
      BY <1>1, <3>1, LostStays DEF HangInv, HangsKnown
  <2>3. QED
    BY <2>1, <2>2
<1>5. QED
  BY <1>3, <1>4 DEF HangInv

LEMMA HangFinish ==
  ASSUME PoolInv, HangInv, NEW w \in Worker, Finish(w)
  PROVE  HangInv'
<1> USE DEF PoolInv
<1>0. PICK h \in Task : h = held[w] /\ h # NoTask
  BY QueuePoolsAssumption DEF Finish, QTypeOK
<1>1. /\ \A u \in Task : u # h => future'[u] = future[u]
      /\ future'[h] \in {"value", "exception"}
      /\ \A v \in Worker : held'[v] = IF v = w THEN NoTask ELSE held[v]
      /\ UNCHANGED <<kind, queueDead, life, queue, local>>
      /\ \A v \in Worker : pc[v] = "exited" => pc'[v] = "exited"
  BY <1>0 DEF Finish, QTypeOK, pool
<1>2. \A u \in Task : future[u] \in Ready => future'[u] \in Ready
  BY <1>1 DEF Ready
<1>3. QueueDiesLate' /\ RemainsAreNested'
  BY <1>1 DEF HangInv, QueueDiesLate, RemainsAreNested
<1>4. ParentWasHere'
  <2> SUFFICES ASSUME NEW v \in Worker, NEW u \in ToSet(local[v])
               PROVE  u \notin Root /\ (Parent[u] = held'[v] \/ future'[Parent[u]] \in Ready)
    BY <1>1 DEF ParentWasHere, Root
  <2>1. u \in Task /\ u \notin Root /\ (Parent[u] = held[v] \/ future[Parent[u]] \in Ready)
    BY SetOfTasks DEF HangInv, ParentWasHere
  <2>2. Parent[u] \in Task
    BY <2>1, QueuePoolsAssumption DEF Root
  <2>3. QED
    BY <1>0, <1>1, <1>2, <2>1, <2>2 DEF Ready
<1>5. HangsKnown'
  <2> SUFFICES ASSUME NEW u \in Task, future'[u] = "pending", ~Queued(u)', u \notin HeldTasks'
               PROVE  (LostWithQueue(u) \/ LostWithWorker(u))'
    BY DEF HangsKnown
  <2>1. u # h /\ future[u] = "pending" /\ ~Queued(u)
    BY <1>1 DEF Queued
  <2>2. u \notin HeldTasks
    BY <1>0, <1>1, <2>1 DEF HeldTasks
  <2>3. QED
    BY <1>1, <1>2, <2>1, <2>2, LostStays DEF HangInv, HangsKnown
<1>6. QED
  BY <1>3, <1>4, <1>5 DEF HangInv

LEMMA HangStep ==
  ASSUME PoolInv, HangInv, [Next]_vars
  PROVE  HangInv'
<1> USE DEF PoolInv
<1>1. ASSUME NEW w \in Worker, StartThread(w)
      PROVE  HangInv'
  BY <1>1, HangSame DEF StartThread, pool, QTypeOK
<1>2. CASE Constructed \/ ConstructFails \/ Shutdown \/ BeginDestroy \/ Join
  BY <1>2, HangSame DEF Constructed, ConstructFails, Shutdown, BeginDestroy, Join, threads
<1>3. ASSUME NEW t \in Task, SubmitExternal(t)
      PROVE  HangInv'
  BY <1>3, HangPush DEF SubmitExternal, pool, threads, HangInv, QueueDiesLate
<1>4. CASE DestroyQueue
  BY <1>4, HangDestroy
<1>5. ASSUME NEW w \in Worker, CheckDone(w)
      PROVE  HangInv'
  <2>1. CASE done
    BY <1>5, <2>1, HangLeave
  <2>2. CASE ~done
    BY <1>5, <2>2, HangSame DEF CheckDone, pool, QTypeOK
  <2>3. QED
    BY <2>1, <2>2
<1>6. ASSUME NEW w \in Worker, TakeLocal(w)
      PROVE  HangInv'
  <2>1. ToSet(local[w]) = {Head(local[w])} \cup ToSet(Tail(local[w])) /\ Head(local[w]) \in Task
    BY <1>6, TailSet, PopSeq DEF TakeLocal, QTypeOK
  <2>2. local'[w] = Tail(local[w]) /\ \A v \in Worker : v # w => local'[v] = local[v]
    BY <1>6 DEF TakeLocal, QTypeOK
  <2>3. QED
    BY <1>6, <2>1, <2>2, HangTake DEF TakeLocal, pool
<1>7. ASSUME NEW w \in Worker, TakeShared(w)
      PROVE  HangInv'
  <2>1. CASE queue # <<>> /\ Run(w, Head(queue)) /\ queue' = Tail(queue)
             /\ UNCHANGED <<pool, local, future, crashed>>
    <3>1. ToSet(queue) = {Head(queue)} \cup ToSet(Tail(queue)) /\ Head(queue) \in Task
      BY <2>1, TailSet, PopSeq DEF QTypeOK
    <3>2. QED
      BY <1>7, <2>1, <3>1, HangTake DEF TakeShared, pool
  <2>2. CASE pc' = [pc EXCEPT ![w] = "loop"] /\ UNCHANGED <<pool, queue, local, held, future, crashed>>
    BY <1>7, <2>2, HangSame DEF TakeShared, pool, QTypeOK
  <2>3. CASE Crash
    BY <2>3, HangSame DEF Crash, pool, threads
  <2>4. QED
    BY <1>7, <2>1, <2>2, <2>3 DEF TakeShared
<1>8. ASSUME NEW w \in Worker, NEW t \in Task, SubmitNested(w, t)
      PROVE  HangInv'
  <2>1. t \notin Root
    BY <1>8 DEF SubmitNested, QTypeOK, Root
  <2>2. CASE Crash
    BY <2>2, HangSame DEF Crash, pool, threads
  <2>3. CASE ~Crash
    BY <1>8, <2>1, <2>3, HangPush DEF SubmitNested, pool, QTypeOK
  <2>4. QED
    BY <2>2, <2>3
<1>9. ASSUME NEW w \in Worker, Finish(w)
      PROVE  HangInv'
  BY <1>9, HangFinish
<1>10. CASE UNCHANGED vars
  BY <1>10, HangSame DEF vars
<1>11. QED
  BY <1>1, <1>2, <1>3, <1>4, <1>5, <1>6, <1>7, <1>8, <1>9, <1>10
     DEF Next, ConstructorStep, DestructorStep, WorkerStep

\* A task that has not finished waits in a queue that stands or is being run,
\* except for the three ways in which submit(), the worker loop and the
\* destruction of the queues leave its future hanging.
THEOREM NoTaskForgotten == Spec => []NothingForgotten
<1>1. Init => HangInv
  BY QueuePoolsAssumption
     DEF Init, HangInv, QueueDiesLate, RemainsAreNested, ParentWasHere, HangsKnown, ToSet
<1>2. Spec => []HangInv
  BY <1>1, HangStep, PoolInvHolds, PTL DEF Spec
<1>3. PoolInv /\ HangInv => NothingForgotten
  BY DEF PoolInv, QTypeOK, HangInv, HangsKnown, RemainsAreNested, NothingForgotten,
         Waiting, SubmittedTooLate, Queued
<1>4. QED
  BY <1>2, <1>3, PoolInvHolds, PTL

-----------------------------------------------------------------------------
(* THE REFINEMENT OF TaskExecutor.                                         *)

Seen == [t \in Task |-> Status(t)]
Closing == life \in {"destroy", "gone"} \/ done

LEMMA StatusSame ==
  ASSUME NEW t \in Task, future'[t] = future[t],
         (t \in HeldTasks)' <=> t \in HeldTasks, Queued(t)' <=> Queued(t)
  PROVE  Status(t)' = Status(t)
BY DEF Status

LEMMA MoveSet ==
  ASSUME NEW S \in SUBSET Task, S # {}, NEW from, NEW to,
         \A t \in S : Status(t) = from /\ Status(t)' = to,
         \A t \in Task \ S : Status(t)' = Status(t),
         Closing' = Closing
  PROVE  Executor!Move(S, from, to)
<1>1. \A t \in S : Seen[t] = from
  BY DEF Seen
<1>2. Seen' = [t \in Task |-> IF t \in S THEN to ELSE Seen[t]]
  BY DEF Seen
<1>3. QED
  BY <1>1, <1>2 DEF Executor!Move, Seen, Closing

\* A step after which every task is where it was: nothing, or the first notice
\* that the pool is closing.
LEMMA StutterOrClose ==
  ASSUME \A t \in Task : Status(t)' = Status(t), Closing => Closing'
  PROVE  Executor!Next \/ UNCHANGED Executor!vars
<1>1. Seen' = Seen
  BY DEF Seen
<1>2. CASE Closing' = Closing
  BY <1>1, <1>2 DEF Executor!vars, Seen, Closing
<1>3. CASE Closing' # Closing
  <2>1. ~Closing /\ Closing' = TRUE
    BY <1>3 DEF Closing
  <2>2. Executor!Close
    BY <1>1, <2>1 DEF Executor!Close, Seen, Closing
  <2>3. QED
    BY <2>2 DEF Executor!Next
<1>4. QED
  BY <1>2, <1>3

LEMMA SameView ==
  ASSUME UNCHANGED <<queue, local, held, future>>, Closing => Closing'
  PROVE  Executor!Next \/ UNCHANGED Executor!vars
<1>1. \A t : Queued(t)' <=> Queued(t)
  BY DEF Queued
<1>2. HeldTasks' = HeldTasks
  BY DEF HeldTasks
<1>3. \A t \in Task : Status(t)' = Status(t)
  BY <1>1, <1>2, StatusSame
<1>4. QED
  BY <1>3, StutterOrClose

LEMMA QueuedStatus ==
  ASSUME PoolInv, NEW t \in Task, Queued(t)
  PROVE  Status(t) = "queued" /\ t \notin HeldTasks
<1>1. future[t] = "pending" /\ \A w \in Worker : held[w] # t
  BY QueuedPlace DEF PoolInv, QueuedPending
<1>2. QED
  BY <1>1 DEF Status, HeldTasks

LEMMA NewStatus ==
  ASSUME PoolInv, NEW t \in Task, future[t] = "none"
  PROVE  Status(t) = "unborn" /\ t \notin HeldTasks
<1>1. t \notin HeldTasks
  BY DEF PoolInv, HeldPending, HeldTasks
<1>2. QED
  BY <1>1 DEF Status

LEMMA TakeSeen ==
  ASSUME PoolInv, PoolInv', NEW w \in Worker, NEW p \in Place, NEW h, Popped(p, h),
         pc[w] = "take", Run(w, h), UNCHANGED <<future, life, done>>
  PROVE  Executor!Start(h)
<1>0. h \in Task /\ held[w] = NoTask
  BY DEF Popped, PoolInv, QTypeOK
<1>1. Queued(h)
  BY QueuedPlace DEF Popped, PoolInv
<1>2. \A v \in Worker : held'[v] = IF v = w THEN h ELSE held[v]
  BY DEF Run, PoolInv, QTypeOK
<1>3. HeldTasks' = HeldTasks \cup {h}
  BY <1>0, <1>2, QueuePoolsAssumption DEF HeldTasks
<1>4. ASSUME NEW t \in Task, t # h
      PROVE  Queued(t)' <=> Queued(t)
  <2>1. ASSUME Queued(t)
        PROVE  Queued(t)'
    <3>1. PICK q \in Place : \E i \in DOMAIN Shelf(q) : Shelf(q)[i] = t
      BY <2>1, QueuedPlace DEF PoolInv
    <3>2. \E i \in DOMAIN Shelf(q)' : Shelf(q)'[i] = t
      BY <1>4, <3>1 DEF Popped
    <3>3. QED
      BY <3>2, QueuedPlaceNext DEF PoolInv
  <2>2. ASSUME Queued(t)'
        PROVE  Queued(t)
    <3>1. PICK q \in Place : \E i \in DOMAIN Shelf(q)' : Shelf(q)'[i] = t
      BY <2>2, QueuedPlaceNext DEF PoolInv
    <3>2. \E i \in DOMAIN Shelf(q) : Shelf(q)[i] = t
      BY <3>1 DEF Popped
    <3>3. QED
      BY <3>2, QueuedPlace DEF PoolInv
  <2>3. QED
    BY <2>1, <2>2
<1>5. Status(h) = "queued"
  BY <1>0, <1>1, QueuedStatus
<1>6. Status(h)' = "running"
  <2>1. future'[h] = "pending"
    BY DEF PoolInv, QueuedPending, Popped
  <2>2. QED
    BY <1>3, <2>1 DEF Status
<1>7. \A t \in Task \ {h} : Status(t)' = Status(t)
  BY <1>3, <1>4, StatusSame
<1>8. Executor!Move({h}, "queued", "running")
  BY <1>0, <1>5, <1>6, <1>7, MoveSet DEF Closing
<1>9. QED
  BY <1>8 DEF Executor!Start

LEMMA PushSeen ==
  ASSUME PoolInv, PoolInv', NEW p \in Place, NEW t \in Task, Pushed(p, t),
         future[t] = "none", future' = [future EXCEPT ![t] = "pending"],
         UNCHANGED <<held, life, done>>
  PROVE  Executor!Submit(t)
<1>1. \A u \in Task : future'[u] = IF u = t THEN "pending" ELSE future[u]
  BY DEF PoolInv, QTypeOK
<1>2. HeldTasks' = HeldTasks
  BY DEF HeldTasks
<1>3. Queued(t)'
  BY QueuedPlaceNext DEF Pushed, PoolInv
<1>4. ASSUME NEW u \in Task, u # t
      PROVE  Queued(u)' <=> Queued(u)
  <2>1. ASSUME Queued(u)
        PROVE  Queued(u)'
    <3>1. PICK q \in Place : \E i \in DOMAIN Shelf(q) : Shelf(q)[i] = u
      BY <2>1, QueuedPlace DEF PoolInv
    <3>2. \E i \in DOMAIN Shelf(q)' : Shelf(q)'[i] = u
      BY <3>1 DEF Pushed
    <3>3. QED
      BY <3>2, QueuedPlaceNext DEF PoolInv
  <2>2. ASSUME Queued(u)'
        PROVE  Queued(u)
    <3>1. PICK q \in Place : \E i \in DOMAIN Shelf(q)' : Shelf(q)'[i] = u
      BY <2>2, QueuedPlaceNext DEF PoolInv
    <3>2. \E i \in DOMAIN Shelf(q) : Shelf(q)[i] = u
      BY <1>4, <3>1 DEF Pushed
    <3>3. QED
      BY <3>2, QueuedPlace DEF PoolInv
  <2>3. QED
    BY <2>1, <2>2
<1>5. Status(t) = "unborn" /\ t \notin HeldTasks
  BY NewStatus
<1>6. Status(t)' = "queued"
  BY <1>1, <1>2, <1>3, <1>5 DEF Status
<1>7. \A u \in Task \ {t} : Status(u)' = Status(u)
  BY <1>1, <1>2, <1>4, StatusSame
<1>8. Executor!Move({t}, "unborn", "queued")
  BY <1>5, <1>6, <1>7, MoveSet DEF Closing
<1>9. QED
  BY <1>8 DEF Executor!Submit

\* The tasks of a queue that dies, or of a leaving worker, are dropped together.
LEMMA EmptySeen ==
  ASSUME PoolInv, PoolInv', NEW p \in Place, Emptied(p), Closing, Closing',
         \A u \in Task : future'[u] = IF kind = "shared" /\ \E i \in DOMAIN Shelf(p) : Shelf(p)[i] = u
                                      THEN "broken" ELSE future[u],
         held' = held
  PROVE  Executor!Next \/ UNCHANGED Executor!vars
<1> DEFINE S == {u \in Task : \E i \in DOMAIN Shelf(p) : Shelf(p)[i] = u}
<1>1. HeldTasks' = HeldTasks
  BY DEF HeldTasks
<1>2. ASSUME NEW u \in S
      PROVE  Status(u) = "queued" /\ Status(u)' = "dropped"
  <2>1. PICK i \in DOMAIN Shelf(p) : Shelf(p)[i] = u
    OBVIOUS
  <2>2. Queued(u)
    BY <2>1, QueuedPlace DEF PoolInv
  <2>3. Status(u) = "queued" /\ u \notin HeldTasks
    BY <2>2, QueuedStatus
  <2>4. ~Queued(u)'
    <3>1. SUFFICES ASSUME NEW q \in Place, NEW j \in DOMAIN Shelf(q)', Shelf(q)'[j] = u
                   PROVE  FALSE
      BY QueuedPlaceNext DEF PoolInv
    <3>2. q # p /\ Shelf(q)' = Shelf(q)
      BY DEF Emptied
    <3>3. QED
      BY <2>1, <3>1, <3>2 DEF PoolInv, QueuedOnce
  <2>5. future'[u] \in {"broken", "pending"}
    BY <2>1 DEF PoolInv, QueuedPending
  <2>6. QED
    BY <1>1, <2>3, <2>4, <2>5 DEF Status
<1>3. ASSUME NEW u \in Task \ S
      PROVE  Status(u)' = Status(u)
  <2>1. future'[u] = future[u]
    OBVIOUS
  <2>2. ASSUME Queued(u)
        PROVE  Queued(u)'
    <3>1. PICK q \in Place : \E i \in DOMAIN Shelf(q) : Shelf(q)[i] = u
      BY <2>2, QueuedPlace DEF PoolInv
    <3>2. \E i \in DOMAIN Shelf(q)' : Shelf(q)'[i] = u
      BY <3>1 DEF Emptied
    <3>3. QED
      BY <3>2, QueuedPlaceNext DEF PoolInv
  <2>3. ASSUME Queued(u)'
        PROVE  Queued(u)
    <3>1. PICK q \in Place : \E i \in DOMAIN Shelf(q)' : Shelf(q)'[i] = u
      BY <2>3, QueuedPlaceNext DEF PoolInv
    <3>2. \E i \in DOMAIN Shelf(q) : Shelf(q)[i] = u
      BY <3>1 DEF Emptied
    <3>3. QED
      BY <3>2, QueuedPlace DEF PoolInv
  <2>4. QED
    BY <1>1, <2>1, <2>2, <2>3, StatusSame
<1>4. S \in SUBSET Task
  OBVIOUS
<1> HIDE DEF S
<1>5. CASE S = {}
  BY <1>3, <1>5, StutterOrClose
<1>6. CASE S # {}
  <2>1. Closing' = Closing
    BY DEF Closing
  <2>2. Executor!Move(S, "queued", "dropped")
    BY <1>2, <1>3, <1>4, <1>6, <2>1, MoveSet
  <2>3. Executor!Drop(S)
    BY <2>2 DEF Executor!Drop, Closing
  <2>4. QED
    BY <1>4, <2>3 DEF Executor!Next
<1>7. QED
  BY <1>5, <1>6

LEMMA FinishSeen ==
  ASSUME PoolInv, NEW w \in Worker, Finish(w)
  PROVE  \E t \in Task : Executor!Finish(t)
<1>0. PICK h \in Task : h = held[w] /\ h # NoTask
  BY QueuePoolsAssumption DEF Finish, PoolInv, QTypeOK
<1>1. /\ \A u \in Task : u # h => future'[u] = future[u]
      /\ future'[h] \in {"value", "exception"}
      /\ \A v \in Worker : held'[v] = IF v = w THEN NoTask ELSE held[v]
      /\ UNCHANGED <<queue, local, life, done>>
  BY <1>0 DEF Finish, PoolInv, QTypeOK, pool
<1>2. h \in HeldTasks /\ HeldTasks' = HeldTasks \ {h}
  <2>1. \A v \in Worker : held[v] = h => v = w
    BY <1>0 DEF PoolInv, HeldPending
  <2>2. QED
    BY <1>0, <1>1, <2>1 DEF HeldTasks
<1>3. \A u : Queued(u)' <=> Queued(u)
  BY <1>1 DEF Queued
<1>4. Status(h) = "running" /\ Status(h)' = "done"
  <2>1. future[h] = "pending"
    BY <1>0 DEF PoolInv, HeldPending
  <2>2. QED
    BY <1>1, <1>2, <2>1 DEF Status
<1>5. \A u \in Task \ {h} : Status(u)' = Status(u)
  BY <1>1, <1>2, <1>3, StatusSame
<1>6. Executor!Move({h}, "running", "done")
  BY <1>1, <1>4, <1>5, MoveSet DEF Closing
<1>7. QED
  BY <1>6 DEF Executor!Finish

-----------------------------------------------------------------------------
LEMMA StepRefines ==
  ASSUME PoolInv, PoolInv', [Next]_vars
  PROVE  Executor!Next \/ UNCHANGED Executor!vars
<1>1. ASSUME NEW w \in Worker, StartThread(w)
      PROVE  Executor!Next \/ UNCHANGED Executor!vars
  BY <1>1, SameView DEF StartThread, pool, Closing
<1>2. CASE Constructed \/ ConstructFails \/ Shutdown \/ BeginDestroy \/ Join
  BY <1>2, SameView DEF Constructed, ConstructFails, Shutdown, BeginDestroy, Join, threads, Closing
<1>3. ASSUME NEW t \in Task, SubmitExternal(t)
      PROVE  Executor!Next
  <2>1. Executor!Submit(t)
    BY <1>3, ExternalPushed, PushSeen, Places
  <2>2. QED
    BY <2>1 DEF Executor!Next
<1>4. CASE DestroyQueue
  <2>1. Closing /\ Closing'
    BY <1>4, QueueEmptied DEF Closing
  <2>2. QED
    BY <1>4, <2>1, QueueEmptied, EmptySeen, Places
<1>5. ASSUME NEW w \in Worker, CheckDone(w)
      PROVE  Executor!Next \/ UNCHANGED Executor!vars
  <2>1. CASE ~done
    <3>1. UNCHANGED <<queue, local, held, future, life, done>>
      BY <1>5, <2>1 DEF CheckDone, pool, PoolInv, QTypeOK
    <3>2. QED
      BY <3>1, SameView DEF Closing
  <2>2. CASE done /\ kind = "local"
    <3>1. Closing /\ Closing'
      BY <1>5, <2>2, LeaverEmptied DEF Closing
    <3>2. QED
      BY <1>5, <2>2, <3>1, LeaverEmptied, EmptySeen, Places
  <2>3. CASE done /\ kind # "local"
    <3>1. kind = "shared"
      BY <2>3 DEF PoolInv, QTypeOK
    <3>2. local' = local
      BY <1>5, <3>1 DEF CheckDone, PoolInv, SharedHasNoLocal, QTypeOK
    <3>3. QED
      BY <1>5, <3>2, SameView DEF CheckDone, pool, Closing
  <2>4. QED
    BY <2>1, <2>2, <2>3
<1>6. ASSUME NEW w \in Worker, TakeLocal(w)
      PROVE  Executor!Next
  <2>1. Executor!Start(Head(local[w])) /\ Head(local[w]) \in Task
    BY <1>6, LocalTaken, TakeSeen, Places DEF Popped
  <2>2. QED
    BY <2>1 DEF Executor!Next
<1>7. ASSUME NEW w \in Worker, TakeShared(w)
      PROVE  Executor!Next \/ UNCHANGED Executor!vars
  <2>1. CASE /\ Popped(0, Head(queue)) /\ pc[w] = "take" /\ Run(w, Head(queue))
             /\ UNCHANGED <<kind, queueDead, life, done, local, future>>
    <3>1. Executor!Start(Head(queue)) /\ Head(queue) \in Task
      BY <2>1, TakeSeen, Places DEF Popped
    <3>2. QED
      BY <3>1 DEF Executor!Next
  <2>2. CASE UNCHANGED <<kind, queueDead, life, done, queue, local, held, future>>
    BY <2>2, SameView DEF Closing
  <2>3. QED
    BY <1>7, <2>1, <2>2, SharedTaken
<1>8. ASSUME NEW w \in Worker, NEW t \in Task, SubmitNested(w, t)
      PROVE  Executor!Next \/ UNCHANGED Executor!vars
  <2>1. CASE UNCHANGED <<kind, queueDead, life, done, queue, local, pc, held, future>>
    BY <2>1, SameView DEF Closing
  <2>2. CASE /\ Pushed(IF kind = "shared" THEN 0 ELSE w, t)
             /\ future[t] = "none"
             /\ future' = [future EXCEPT ![t] = "pending"]
             /\ UNCHANGED <<life, done, held>>
    <3>1. (IF kind = "shared" THEN 0 ELSE w) \in Place
      BY Places
    <3>2. Executor!Submit(t)
      BY <2>2, <3>1, PushSeen
    <3>3. QED
      BY <3>2 DEF Executor!Next
  <2>3. QED
    BY <1>8, <2>1, <2>2, NestedPushed
<1>9. ASSUME NEW w \in Worker, Finish(w)
      PROVE  Executor!Next
  BY <1>9, FinishSeen DEF Executor!Next
<1>10. CASE UNCHANGED vars
  BY <1>10, SameView DEF vars, Closing
<1>11. QED
  BY <1>1, <1>2, <1>3, <1>4, <1>5, <1>6, <1>7, <1>8, <1>9, <1>10
     DEF Next, ConstructorStep, DestructorStep, WorkerStep

\* Either pool, seen through Status, is a TaskExecutor: submit() runs a task at
\* most once and to its end, and drops it only when the pool is being shut down.
THEOREM QueuePoolsImplementExecutor == Spec => ImplementsExecutor
<1>1. Init => Executor!Init
  <2> SUFFICES ASSUME Init PROVE Executor!Init
    OBVIOUS
  <2>1. \A t \in Task : Status(t) = "unborn"
    BY QueuePoolsAssumption DEF Init, Status, HeldTasks
  <2>2. QED
    BY <2>1 DEF Init, Executor!Init
<1>2. PoolInv /\ PoolInv' /\ [Next]_vars => [Executor!Next]_(Executor!vars)
  BY StepRefines
<1>3. QED
  BY <1>1, <1>2, PoolInvHolds, PTL DEF Spec, ImplementsExecutor, Executor!Spec
=============================================================================
