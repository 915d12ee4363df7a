----------------------------- MODULE Structures -----------------------------
(***************************************************************************)
(* The repository's data structures, each driven by an arbitrary sequence  *)
(* of legal calls: kind says which one, s is the state of the code, m the  *)
(* mathematical object it stands for, and ans the pair of the answers the  *)
(* two give to the last call.  The memory pools are among them.            *)
(*                                                                         *)
(* The loops of the heaps and of the array trie run one turn per step, and *)
(* a structure takes its next call when its loops have ended.  A find() in *)
(* a forest, which recurses up to the root, is described by what it does   *)
(* to the ancestors of its argument.                                       *)
(***************************************************************************)
EXTENDS Integers, Sequences, SequencesExt, FiniteSetsExt

CONSTANTS Kinds,                    \* the structures to look at
          MaxOps,                   \* bound: calls made to a structure
          Repeats,                  \* whether the queue with a maximum may hold two equal elements
          Val, Infinite,            \* the values, and INT_MAX
          Key, HeadNode, TailNode,  \* the keys of the caches, and the dummy nodes of the list
          Capacity,                 \* capacity_ of the caches
          Rank,                     \* k of KthLargest
          Letter, MaxLetters,       \* what the words of the tries are made of
          Node,                     \* the elements of the disjoint sets
          Animal,                   \* those of the food chain
          Expansion,                \* EXPANSION_SIZE
          ChunkSize, SizeT          \* DEFAULT_CHUNK_SIZE; size_t counts modulo SizeT

ASSUME ValAssumption == Val \subseteq Int /\ Infinite \in Int /\ \A v \in Val : v <= Infinite
ASSUME CacheAssumption ==
  /\ Capacity \in Nat \ {0}
  /\ HeadNode # TailNode /\ {HeadNode, TailNode} \cap Key = {}
ASSUME RankAssumption == Rank \in Nat \ {0}
ASSUME LettersAssumption == MaxLetters \in Nat
ASSUME NodeAssumption == IsFiniteSet(Node) /\ IsFiniteSet(Animal)
ASSUME PoolsAssumption ==
  Expansion \in Nat /\ ChunkSize \in Nat /\ SizeT \in Nat /\ ChunkSize < SizeT
ASSUME OpsAssumption == MaxOps \in Nat

VARIABLES kind, s, m, ans, ops

vars == <<kind, s, m, ans, ops>>

Void == 0                    \* the answer of a call that returns nothing
Word == UNION {[1 .. n -> Letter] : n \in 1 .. MaxLetters}
Nothing == [x \in {} |-> Void]

\* One call: the code goes to s2 and answers x, the object to m2 and answers y.
Call(s2, m2, x, y) ==
  /\ s' = s2
  /\ m' = m2
  /\ ans' = <<x, y>>
  /\ ops < MaxOps /\ ops' = ops + 1
  /\ UNCHANGED kind

\* A call that answers only when its loop ends begins, runs a turn of the loop,
\* and returns.
Begin(s2) == s' = s2 /\ ops < MaxOps /\ ops' = ops + 1 /\ UNCHANGED <<kind, m, ans>>
Turn(s2) == s' = s2 /\ UNCHANGED <<kind, m, ans, ops>>
Return(s2, m2, x, y) == s' = s2 /\ m' = m2 /\ ans' = <<x, y>> /\ UNCHANGED <<kind, ops>>

-----------------------------------------------------------------------------
(* LRU caches; m maps the keys present to the number of the call that last *)
(* used the key, and to its value.                                         *)

AddToHead(l, n) ==
  LET first == l.next[HeadNode] IN
    [l EXCEPT !.next[n] = first, !.prev[n] = HeadNode,
              !.prev[first] = n, !.next[HeadNode] = n]

RemoveNode(l, n) ==
  [l EXCEPT !.next[l.prev[n]] = l.next[n], !.prev[l.next[n]] = l.prev[n]]

MoveToHead(l, n) == AddToHead(RemoveNode(l, n), n)

LruNode == Key \cup {HeadNode, TailNode}
LruInit ==
  [next |-> [n \in LruNode |-> TailNode], prev |-> [n \in LruNode |-> HeadNode],
   cache |-> {}, value |-> [k \in Key |-> 0]]

LruGet(l, k) ==
  IF k \notin l.cache THEN <<l, -1>> ELSE <<MoveToHead(l, k), l.value[k]>>

LruPut(l, k, v) ==
  IF k \in l.cache THEN MoveToHead([l EXCEPT !.value[k] = v], k)
  ELSE LET new == AddToHead([l EXCEPT !.cache = @ \cup {k}, !.value[k] = v], k)
           last == new.prev[TailNode]
       IN IF Cardinality(new.cache) > Capacity
          THEN [RemoveNode(new, last) EXCEPT !.cache = @ \ {last}]
          ELSE new

\* LRUCache-1: a std::list of keys, and a map of values.  put() begins with
\* get(), which moves the key.
Lru1Get(l, k) ==
  IF k \notin DOMAIN l.map THEN <<l, -1>>
  ELSE <<[l EXCEPT !.keys = <<k>> \o RemoveAt(l.keys, CHOOSE j \in DOMAIN l.keys : l.keys[j] = k)],
         l.map[k]>>

Lru1Put(l, k, v) ==
  LET got == Lru1Get(l, k)
      kept == SubSeq(l.keys, 1, Min({Len(l.keys), Capacity - 1}))
  IN IF got[2] # -1 THEN [got[1] EXCEPT !.map[k] = v]
     ELSE [keys |-> <<k>> \o kept,
           map |-> [j \in ToSet(kept) \cup {k} |-> IF j = k THEN v ELSE l.map[j]]]

Use(mm, k, v) ==
  [j \in DOMAIN mm \cup {k} |-> IF j = k THEN [used |-> ops + 1, val |-> v] ELSE mm[j]]
Oldest(mm) == CHOOSE k \in DOMAIN mm : \A j \in DOMAIN mm : mm[k].used <= mm[j].used
WithoutKey(mm, k) == [j \in DOMAIN mm \ {k} |-> mm[j]]

CacheGet(k) ==
  LET got == IF kind = "lru" THEN LruGet(s, k) ELSE Lru1Get(s, k) IN
    IF k \in DOMAIN m THEN Call(got[1], Use(m, k, m[k].val), got[2], m[k].val)
                      ELSE Call(got[1], m, got[2], -1)

\* -1 stands for a key that is absent, and is never stored.
CachePut(k, v) ==
  LET new == Use(m, k, v) IN
    Call(IF kind = "lru" THEN LruPut(s, k, v) ELSE Lru1Put(s, k, v),
         IF Cardinality(DOMAIN new) > Capacity THEN WithoutKey(new, Oldest(new)) ELSE new,
         Void, Void)

CacheCall ==
  /\ kind \in {"lru", "lru1"}
  /\ \E k \in Key : CacheGet(k) \/ \E v \in Val \ {-1} : CachePut(k, v)

\* The list links the keys in the order of their last use, read from either end,
\* and the other parts of a cache know the same keys.
CacheSound ==
  /\ kind = "lru" =>
       /\ s.cache = DOMAIN m
       /\ \A n \in s.cache \cup {HeadNode} :
            s.next[n] \in s.cache \cup {TailNode} /\ s.prev[s.next[n]] = n
       /\ \A n \in s.cache \cup {TailNode} :
            s.prev[n] \in s.cache \cup {HeadNode} /\ s.next[s.prev[n]] = n
       /\ \A k \in s.cache :
            /\ s.next[k] # TailNode => m[s.next[k]].used < m[k].used
            /\ s.value[k] = m[k].val
  /\ kind = "lru1" =>
       /\ DOMAIN s.map = DOMAIN m /\ ToSet(s.keys) = DOMAIN m
       /\ \A i, j \in DOMAIN s.keys : i < j => m[s.keys[j]].used < m[s.keys[i]].used
       /\ \A k \in DOMAIN m : s.map[k] = m[k].val

-----------------------------------------------------------------------------
(* The heap that can delete and change the k-th element inserted; m maps   *)
(* the insertion numbers of the elements still present to their values.    *)

\* run: which of down() and up() is running, and at what position.  What comes after
\* down(): up() from a position, from where element number k then is, or nothing.
HeapInit == [h |-> <<>>, hp |-> <<>>, ph |-> <<>>, size |-> 0,
             run |-> "idle", at |-> 0, after |-> <<"return", 0>>]

Swap(f, a, b) == [f EXCEPT ![a] = f[b], ![b] = f[a]]

HeapSwap(x, a, b) ==
  [x EXCEPT !.ph = Swap(@, x.hp[a], x.hp[b]), !.hp = Swap(@, a, b), !.h = Swap(@, a, b)]

Smaller(x, t, c) == IF c <= x.size /\ x.h[c] < x.h[t] THEN c ELSE t
Smallest(x, u) == Smaller(x, Smaller(x, u, 2 * u), 2 * u + 1)

Down ==
  LET t == Smallest(s, s.at) IN
  /\ s.run = "down"
  /\ \/ t # s.at /\ Turn([HeapSwap(s, t, s.at) EXCEPT !.at = t])
     \/ /\ t = s.at
        /\ \/ s.after[1] = "return" /\ Turn([s EXCEPT !.run = "idle", !.at = 0])
           \/ s.after[1] = "position" /\ Turn([s EXCEPT !.run = "up", !.at = s.after[2]])
           \/ s.after[1] = "element" /\ Turn([s EXCEPT !.run = "up", !.at = s.ph[s.after[2]]])

Up ==
  LET p == s.at \div 2
      above == p # 0 /\ s.h[s.at] < s.h[p]
  IN
  /\ s.run = "up"
  /\ \/ above /\ Turn([HeapSwap(s, s.at, p) EXCEPT !.at = p])
     \/ ~above /\ Turn([s EXCEPT !.run = "idle", !.at = 0, !.after = <<"return", 0>>])

\* The arrays keep what lies beyond size; a new element overwrites it.
Store(f, j, v) == IF j \in DOMAIN f THEN [f EXCEPT ![j] = v] ELSE Append(f, v)

HeapInsert(x, v) ==
  LET j == x.size + 1
      k == Len(x.ph) + 1
  IN [h |-> Store(x.h, j, v), hp |-> Store(x.hp, j, k), ph |-> Append(x.ph, j), size |-> j,
      run |-> "up", at |-> j, after |-> <<"return", 0>>]

HeapDeleteMin(x) == [HeapSwap(x, 1, x.size) EXCEPT !.size = @ - 1, !.run = "down", !.at = 1]

\* Position u, read before the swap, serves both repairs.
HeapDelete(x, k) ==
  LET u == x.ph[k] IN
    [HeapSwap(x, u, x.size) EXCEPT !.size = @ - 1, !.run = "down", !.at = u,
                                   !.after = <<"position", u>>]

HeapChange(x, k, v) ==
  [x EXCEPT !.h[x.ph[k]] = v, !.run = "down", !.at = x.ph[k], !.after = <<"element", k>>]

\* The topic's program: the same with the names hp and ph exchanged, except
\* that a change repairs upwards from the old position.
SimulateHeapChange(x, k, v) ==
  LET u == x.ph[k] IN
    [x EXCEPT !.h[u] = v, !.run = "down", !.at = u, !.after = <<"position", u>>]

Least(mm) == Min({mm[k] : k \in DOMAIN mm})

HeapCall ==
  /\ kind \in {"mockHeap", "simulateHeap"} /\ s.run = "idle"
  /\ \/ \E v \in Val :
          LET k == Len(s.ph) + 1 IN
            Call(HeapInsert(s, v), [j \in DOMAIN m \cup {k} |-> IF j = k THEN v ELSE m[j]],
                 Void, Void)
     \/ s.size > 0 /\ Call(s, m, s.h[1], Least(m))
     \/ /\ s.size > 0
        /\ \E k \in DOMAIN m :
             /\ \A j \in DOMAIN m \ {k} : m[k] < m[j]
             /\ Call(HeapDeleteMin(s), WithoutKey(m, k), Void, Void)
     \/ \E k \in DOMAIN m : Call(HeapDelete(s, k), WithoutKey(m, k), Void, Void)
     \/ \E k \in DOMAIN m, v \in Val :
          Call(IF kind = "mockHeap" THEN HeapChange(s, k, v) ELSE SimulateHeapChange(s, k, v),
               [m EXCEPT ![k] = v], Void, Void)

HeapTurn == kind \in {"mockHeap", "simulateHeap"} /\ (Down \/ Up)

\* Heap order, whenever no repair is running; and always the two position maps are
\* inverse to one another.
HeapSound ==
  kind \in {"mockHeap", "simulateHeap"} =>
    /\ s.size = Cardinality(DOMAIN m)
    /\ s.run = "idle" => \A j \in 2 .. s.size : s.h[j \div 2] <= s.h[j]
    /\ \A k \in DOMAIN m : s.ph[k] \in 1 .. s.size /\ s.hp[s.ph[k]] = k /\ s.h[s.ph[k]] = m[k]

-----------------------------------------------------------------------------
(* Stacks and queues; m is the sequence of the elements, oldest first.     *)

\* Faulty variant: an element equal to the minimum is not remembered.
MinStackPushStrict(x, v) ==
  [data |-> Append(x.data, v), min |-> IF v < Last(x.min) THEN Append(x.min, v) ELSE x.min]

MinStackPush(x, v) ==
  [data |-> Append(x.data, v), min |-> IF v <= Last(x.min) THEN Append(x.min, v) ELSE x.min]

MinStackPop(x) ==
  [data |-> Front(x.data), min |-> IF Last(x.data) = Last(x.min) THEN Front(x.min) ELSE x.min]

\* The second implementation pushes the current minimum every time.
MinStack2Push(x, v) ==
  [data |-> Append(x.data, v), min |-> Append(x.min, Min({v, Last(x.min)}))]

MinStack2Pop(x) == [data |-> Front(x.data), min |-> Front(x.min)]

StackCall ==
  /\ kind \in {"minStack", "minStack2"}
  /\ \/ \E v \in Val :
          Call(IF kind = "minStack" THEN MinStackPush(s, v) ELSE MinStack2Push(s, v),
               Append(m, v), Void, Void)
     \/ /\ m # <<>>
        /\ Call(IF kind = "minStack" THEN MinStackPop(s) ELSE MinStack2Pop(s),
                Front(m), Last(s.data), Last(m))
     \/ /\ m # <<>>
        /\ Call(s, m, Last(s.min), Min(ToSet(m)))

\* CQueue: two stacks, top last.
DeleteHead(x) ==
  LET y == IF x.s2 = <<>> THEN [s1 |-> <<>>, s2 |-> Reverse(x.s1)] ELSE x
  IN IF y.s2 = <<>> THEN <<y, -1>> ELSE <<[y EXCEPT !.s2 = Front(@)], Last(y.s2)>>

CQueueCall ==
  /\ kind = "cqueue"
  /\ \/ \E v \in Val : Call([s EXCEPT !.s1 = Append(@, v)], Append(m, v), Void, Void)
     \/ LET got == DeleteHead(s) IN
          IF m = <<>> THEN Call(got[1], m, got[2], -1) ELSE Call(got[1], Tail(m), got[2], Head(m))

\* MaxQueue: push_back takes from the back of maxQ the elements up to v, the equal
\* ones with them; pop_front takes its front when it equals the element that leaves.
MaxQueuePush(x, v) ==
  LET kept == Max({0} \cup {j \in DOMAIN x.maxQ : x.maxQ[j] > v}) IN
    [nums |-> Append(x.nums, v), maxQ |-> Append(SubSeq(x.maxQ, 1, kept), v)]

MaxQueuePop(x) ==
  IF x.nums = <<>> THEN <<x, -1>>
  ELSE <<[nums |-> Tail(x.nums),
          maxQ |-> IF x.maxQ # <<>> /\ Head(x.maxQ) = Head(x.nums) THEN Tail(x.maxQ) ELSE x.maxQ],
         Head(x.nums)>>

\* front() of an empty maxQ is undefined: any value that was never pushed stands for it.
MaxValue(x) == IF x.nums = <<>> THEN -1 ELSE IF x.maxQ = <<>> THEN Infinite ELSE Head(x.maxQ)

MaxQueueCall ==
  /\ kind = "maxQueue"
  /\ \/ \E v \in Val : (Repeats \/ v \notin ToSet(m)) /\ Call(MaxQueuePush(s, v), Append(m, v), Void, Void)
     \/ Call(s, m, MaxValue(s), IF m = <<>> THEN -1 ELSE Max(ToSet(m)))
     \/ LET got == MaxQueuePop(s) IN
          IF m = <<>> THEN Call(got[1], m, got[2], -1) ELSE Call(got[1], Tail(m), got[2], Head(m))

\* KthLargest: the heap holds pairs of a value and the number of the add() that
\* pushed it; m lists the values in the order they came.
HeapTop(heap) == CHOOSE e \in heap : \A f \in heap : e[1] <= f[1]
KthAdd(x, v) ==
  LET n == x.n + 1 IN
    [n |-> n,
     heap |-> IF Cardinality(x.heap) < Rank THEN x.heap \cup {<<v, n>>}
              ELSE IF v > HeapTop(x.heap)[1] THEN (x.heap \ {HeapTop(x.heap)}) \cup {<<v, n>>}
              ELSE x.heap]

\* The value at place Rank from the top, or the least while there are fewer.
KthLargest(q) ==
  CHOOSE v \in ToSet(q) :
    /\ Cardinality({j \in DOMAIN q : q[j] > v}) < Min({Rank, Len(q)})
    /\ Cardinality({j \in DOMAIN q : q[j] >= v}) >= Min({Rank, Len(q)})

KthCall ==
  /\ kind = "kthLargest"
  /\ \E v \in Val :
       LET new == KthAdd(s, v) IN
         Call(new, Append(m, v), HeapTop(new.heap)[1], KthLargest(Append(m, v)))

-----------------------------------------------------------------------------
(* Tries; m counts how often each word was inserted.                       *)

\* A node is named by the path to it: it exists when the path is in nodes.
TrieInsert(t, w) ==
  [nodes |-> t.nodes \cup {SubSeq(w, 1, j) : j \in 1 .. Len(w)}, isEnd |-> t.isEnd \cup {w}]

SearchPrefix(t, w) == \A j \in 1 .. Len(w) : SubSeq(w, 1, j) \in t.nodes

TrieSearch(t, w) == SearchPrefix(t, w) /\ w \in t.isEnd

Starts(mm, w) == \E v \in Word : mm[v] > 0 /\ IsPrefix(w, v)

TrieCall ==
  /\ kind = "trie"
  /\ \E w \in Word :
       \/ Call(TrieInsert(s, w), [m EXCEPT ![w] = @ + 1], Void, Void)
       \/ Call(s, m, <<TrieSearch(s, w), SearchPrefix(s, w)>>, <<m[w] > 0, Starts(m, w)>>)

\* The array trie: son maps <<node, letter>> to a node, 0 is the root.  A call walks
\* down a word, one letter per turn: p is its node and i its place in the word.
StatInit == [son |-> Nothing, cnt |-> <<>>, idx |-> 0, call |-> "none", word |-> <<>>, p |-> 0, i |-> 1]
StatDone(t) == [t EXCEPT !.call = "none", !.word = <<>>, !.p = 0, !.i = 1]

StatCall ==
  /\ s.call = "none"
  /\ \E w \in Word, c \in {"insert", "query"} : Begin([s EXCEPT !.call = c, !.word = w])

\* The step to the next letter, over a new edge where insert() finds none.
StatLetter ==
  LET e == <<s.p, s.word[s.i]>>
      new == s.idx + 1
  IN
  /\ s.call # "none" /\ s.i <= Len(s.word)
  /\ \/ e \in DOMAIN s.son /\ Turn([s EXCEPT !.p = s.son[e], !.i = @ + 1])
     \/ /\ e \notin DOMAIN s.son /\ s.call = "insert"
        /\ Turn([s EXCEPT !.son = [f \in DOMAIN s.son \cup {e} |-> IF f = e THEN new ELSE s.son[f]],
                          !.cnt = Append(@, 0), !.idx = new, !.p = new, !.i = @ + 1])

StatInsert ==
  /\ s.call = "insert" /\ s.i > Len(s.word)
  /\ Return(StatDone([s EXCEPT !.cnt[s.p] = @ + 1]), [m EXCEPT ![s.word] = @ + 1], Void, Void)

StatQuery ==
  /\ s.call = "query"
  /\ \/ /\ s.i <= Len(s.word) /\ <<s.p, s.word[s.i]>> \notin DOMAIN s.son
        /\ Return(StatDone(s), m, 0, m[s.word])
     \/ s.i > Len(s.word) /\ Return(StatDone(s), m, s.cnt[s.p], m[s.word])

StatStep == kind = "stringStat" /\ (StatCall \/ StatLetter \/ StatInsert \/ StatQuery)

-----------------------------------------------------------------------------
(* Disjoint sets; m maps each element to its set.                          *)

\* The elements find(x) passes on its way from x to the root, both included.
Ancestors(d, x) ==
  LET closed == {S \in SUBSET DOMAIN d : x \in S /\ \A z \in S : d[z] \in S} IN
    {y \in DOMAIN d : \A S \in closed : y \in S}

Root(d, x) == CHOOSE r \in Ancestors(d, x) : d[r] = r

\* find() with path compression: it hangs all it has passed directly under the root.
Find(d, x) ==
  LET passed == Ancestors(d, x)
      root == Root(d, x)
  IN [y \in DOMAIN d |-> IF y \in passed THEN root ELSE d[y]]

Join(mm, a, b) ==
  [x \in DOMAIN mm |-> IF x \in mm[a] \cup mm[b] THEN mm[a] \cup mm[b] ELSE mm[x]]

\* d[find(a)] = find(b)
MergeSets(x, a, b) ==
  LET d == Find(Find(x.d, a), b) IN [x EXCEPT !.d = [d EXCEPT ![d[a]] = d[b]]]

\* The program that also counts: nothing is added when the sets are the same.
ConnectBlocks(x, a, b) ==
  LET d == Find(Find(x.d, a), b) IN
    IF d[a] = d[b] THEN [x EXCEPT !.d = d]
    ELSE [x EXCEPT !.d = [d EXCEPT ![d[a]] = d[b]], !.n[d[b]] = @ + x.n[d[a]]]

\* Class UnionFind compares the ranks of the elements, not of their roots; the
\* rank is only a hint.
UnionUf(x, a, b) ==
  LET d == Find(Find(x.d, a), b) IN
    IF d[a] = d[b] THEN [x EXCEPT !.d = d]
    ELSE IF x.n[a] < x.n[b] THEN [x EXCEPT !.d = [d EXCEPT ![d[a]] = d[b]]]
    ELSE [x EXCEPT !.d = [d EXCEPT ![d[b]] = d[a]],
                   !.n[d[a]] = IF x.n[a] = x.n[b] THEN @ + 1 ELSE @]

Connected(x, a, b) == LET d == Find(Find(x.d, a), b) IN <<[x EXCEPT !.d = d], d[a] = d[b]>>

SetsCall ==
  /\ kind \in {"unionSet", "blocks", "unionFind"}
  /\ \E a, b \in Node :
       \/ Call(CASE kind = "unionSet" -> MergeSets(s, a, b)
                 [] kind = "blocks" -> ConnectBlocks(s, a, b)
                 [] kind = "unionFind" -> UnionUf(s, a, b), Join(m, a, b), Void, Void)
       \/ LET got == Connected(s, a, b) IN Call(got[1], m, got[2], m[a] = m[b])

SetsSound ==
  kind \in {"unionSet", "blocks", "unionFind"} =>
    /\ \A a, b \in Node : Root(s.d, a) = Root(s.d, b) <=> b \in m[a]
    /\ kind = "blocks" => \A a \in Node : s.n[Root(s.d, a)] = Cardinality(m[a])

\* The food chain: d[x] is the distance to the parent; m holds every assignment
\* of the three species that agrees with the statements accepted so far.  On the
\* way back from the root find() adds to each distance that of the parent.
FindChain(x, a) ==
  LET passed == Ancestors(x.p, a) IN
    [p |-> Find(x.p, a),
     d |-> [y \in DOMAIN x.d |-> IF y \in passed THEN SumFunctionOnSet(x.d, Ancestors(x.p, y))
                                 ELSE x.d[y]]]

\* op 1: a and b are of one species (e = 0); op 2: a eats b (e = 1).  Answers
\* whether the statement is counted as a lie.
Statement(x, e, a, b) ==
  LET y == FindChain(FindChain(x, a), b) IN
    IF y.p[a] # y.p[b]
    THEN <<[y EXCEPT !.p[y.p[a]] = y.p[b], !.d[y.p[a]] = y.d[b] - y.d[a] + e], FALSE>>
    ELSE <<y, (y.d[a] - y.d[b] - e) % 3 # 0>>

ChainCall ==
  /\ kind = "foodChain"
  /\ \E e \in {0, 1}, a, b \in Animal :
       LET got == Statement(s, e, a, b)
           agree == {f \in m : (f[a] - f[b] - e) % 3 = 0}
       IN Call(got[1], IF agree = {} THEN m ELSE agree, got[2], agree = {})

-----------------------------------------------------------------------------
(* Memory pools.  m is the set of blocks the client holds.                 *)

\* expandTheFreeList: howMany + 1 fresh blocks; whatever next was is lost, so
\* it is only called with an empty list.
ExpandTheFreeList(x) ==
  [x EXCEPT !.free = [j \in 1 .. Expansion + 1 |-> x.fresh + j],
            !.fresh = @ + Expansion + 1]

\* Faulty variant: alloc hands out the block at the front and forgets to advance next.
PoolAllocTwice(x) ==
  LET y == IF x.free = <<>> THEN ExpandTheFreeList(x) ELSE x IN <<y, Head(y.free)>>

PoolAlloc(x) ==
  LET y == IF x.free = <<>> THEN ExpandTheFreeList(x) ELSE x
  IN <<[y EXCEPT !.free = Tail(@)], Head(y.free)>>

PoolFree(x, b) == [x EXCEPT !.free = <<b>> \o @]

\* MTMemoryPool runs the same two operations between lock() and unlock(): a
\* thread owns x.lock from Lock to Unlock, and another one waits.
PoolCall ==
  /\ kind = "memoryPool"
  /\ \/ \E t \in {1, 2} : s.lock = 0 /\ Call([s EXCEPT !.lock = t], m, Void, Void)
     \/ /\ s.lock # 0
        /\ \/ LET got == PoolAlloc(s) IN
                Call([got[1] EXCEPT !.lock = 0], m \cup {got[2]}, got[2] \in m, FALSE)
           \/ \E b \in m : Call([PoolFree(s, b) EXCEPT !.lock = 0], m \ {b}, Void, Void)

\* Chunks, head first; bytesAlreadyAllocated of each.
ByteAlloc(x, n) ==
  LET y == IF (ChunkSize - Head(x.chunks).used) % SizeT < n
           THEN [x EXCEPT !.chunks = <<[id |-> Len(@) + 1, used |-> 0]>> \o @]
           ELSE x
      c == Head(y.chunks)
  IN <<[y EXCEPT !.chunks[1].used = (@ + n) % SizeT], [chunk |-> c.id, at |-> c.used, len |-> n]>>

\* free() ignores the address: the bytes are taken off the head chunk.
ByteFree(x, n) == [x EXCEPT !.chunks[1].used = (@ - n) % SizeT]

\* orderly: until now only the newest block was freed, and it lay in the head
\* chunk.  m lists the blocks in use, newest first.
ByteCall ==
  /\ kind = "bytePool"
  /\ \/ \E n \in 1 .. ChunkSize :
          LET got == ByteAlloc(s, n) IN Call(got[1], <<got[2]>> \o m, Void, Void)
     \/ \E j \in DOMAIN m :
          Call([ByteFree(s, m[j].len) EXCEPT
                  !.orderly = @ /\ j = 1 /\ m[1].chunk = Head(s.chunks).id],
               RemoveAt(m, j), Void, Void)

Overlap(b, c) == b.chunk = c.chunk /\ b.at < c.at + c.len /\ c.at < b.at + b.len

\* A block handed out is not on the free list, nor twice on it; and the byte
\* pool never hands out the same byte twice nor one outside a chunk, as long as
\* blocks are given back in the opposite order, within the head chunk.
PoolsSound ==
  /\ kind = "memoryPool" =>
       IsInjective(s.free) /\ ToSet(s.free) \cap m = {} /\ ToSet(s.free) \cup m = 1 .. s.fresh
  /\ kind = "bytePool" /\ s.orderly =>
       /\ \A i, j \in DOMAIN m : Overlap(m[i], m[j]) => i = j
       /\ \A i \in DOMAIN m : m[i].at + m[i].len <= ChunkSize

-----------------------------------------------------------------------------
Empty(k) ==
  CASE k = "lru" -> <<LruInit, Nothing>>
    [] k = "lru1" -> <<[keys |-> <<>>, map |-> Nothing], Nothing>>
    [] k \in {"mockHeap", "simulateHeap"} -> <<HeapInit, Nothing>>
    [] k \in {"minStack", "minStack2"} -> <<[data |-> <<>>, min |-> <<Infinite>>], <<>>>>
    [] k = "cqueue" -> <<[s1 |-> <<>>, s2 |-> <<>>], <<>>>>
    [] k = "maxQueue" -> <<[nums |-> <<>>, maxQ |-> <<>>], <<>>>>
    [] k = "kthLargest" -> <<[heap |-> {}, n |-> 0], <<>>>>
    [] k = "trie" -> <<[nodes |-> {}, isEnd |-> {}], [w \in Word |-> 0]>>
    [] k = "stringStat" -> <<StatInit, [w \in Word |-> 0]>>
    [] k \in {"unionSet", "blocks", "unionFind"} ->
         <<[d |-> [x \in Node |-> x], n |-> [x \in Node |-> IF k = "blocks" THEN 1 ELSE 0]],
           [x \in Node |-> {x}]>>
    [] k = "foodChain" ->
         <<[p |-> [x \in Animal |-> x], d |-> [x \in Animal |-> 0]], [Animal -> 0 .. 2]>>
    [] k = "memoryPool" -> <<ExpandTheFreeList([free |-> <<>>, fresh |-> 0, lock |-> 0]), {}>>
    [] k = "bytePool" -> <<[chunks |-> <<[id |-> 1, used |-> 0]>>, orderly |-> TRUE], <<>>>>

Init ==
  /\ kind \in Kinds
  /\ s = Empty(kind)[1]
  /\ m = Empty(kind)[2]
  /\ ans = <<Void, Void>>
  /\ ops = 0

Next ==
  \/ CacheCall \/ HeapCall \/ HeapTurn \/ StackCall \/ CQueueCall \/ MaxQueueCall \/ KthCall
  \/ TrieCall \/ StatStep \/ SetsCall \/ ChainCall \/ PoolCall \/ ByteCall

Spec == Init /\ [][Next]_vars
-----------------------------------------------------------------------------
\* After any sequence of legal calls every structure answers what the object it
\* stands for would answer.
AnswersAgree == ans[1] = ans[2]

\* The queue with a maximum, as its header describes it: max_value is the greatest of
\* the elements in the queue, and -1 of an empty one.
MaxValueIsGreatest == kind = "maxQueue" => MaxValue(s) = Max({-1} \cup ToSet(m))

\* The redundant parts of a structure stay consistent with one another: list
\* and map of the caches, order and position maps of the heap, forest and sizes
\* of the disjoint sets, free list and blocks in use of the pools.
PartsConsistent == CacheSound /\ HeapSound /\ SetsSound /\ PoolsSound
=============================================================================
