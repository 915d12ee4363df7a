------------------------------ MODULE Exploring ------------------------------
(***************************************************************************)
(* Exercises that explore a grid, a graph or a tree of choices, depth      *)
(* first or breadth first.  A grid is a sequence of rows, a graph on       *)
(* 1 .. n a sequence of edges <<a, b>>, a weighted one of <<a, b, w>>.     *)
(* A queue serves one distance after the other, so breadth first search    *)
(* goes from one layer to the next.                                        *)
(***************************************************************************)
EXTENDS ExerciseBasics

Distances(starts, Near(_), All) ==
  LET f[front \in SUBSET All, seen \in SUBSET All, k \in Nat] ==
        LET next == UNION {Near(u) : u \in front} \ seen
        IN IF front = {} THEN <<>> ELSE [u \in front |-> k] @@ f[next, seen \cup next, k + 1]
  IN f[starts, starts, 0]

-----------------------------------------------------------------------------
(* Grids.                                                                  *)

Cells(g) == (DOMAIN g) \X (DOMAIN g[1])
Value(g, c) == g[c[1]][c[2]]
CellAt(g, n) == <<((n - 1) \div Len(g[1])) + 1, ((n - 1) % Len(g[1])) + 1>>
CellsInOrder(g) == [n \in 1 .. Len(g) * Len(g[1]) |-> CellAt(g, n)]
Around(c) == <<<<c[1], c[2] - 1>>, <<c[1] + 1, c[2]>>, <<c[1], c[2] + 1>>, <<c[1] - 1, c[2]>>>>
NearIn(g, c, v) == {x \in ToSet(Around(c)) \cap Cells(g) : Value(g, x) = v}

\* Depth first: the land sunk after the visit of c.
RECURSIVE Sink(_, _, _)
Sink(g, sunk, c) ==
  IF c \notin Cells(g) \/ c \in sunk \/ Value(g, c) = 0 THEN sunk
  ELSE FoldLeft(LAMBDA s, x : Sink(g, s, x), sunk \cup {c}, Around(c))
FloodFrom(g, c) == DOMAIN Distances({c}, LAMBDA x : NearIn(g, x, 1), Cells(g))

IslandsBy(g, After(_, _)) ==
  LET Look(st, c) == IF Value(g, c) = 0 \/ c \in st.sunk THEN st
                     ELSE [sunk |-> After(st.sunk, c), count |-> st.count + 1,
                           area |-> Bigger(st.area, Cardinality(After(st.sunk, c) \ st.sunk))]
  IN FoldLeft(Look, [sunk |-> {}, count |-> 0, area |-> 0], CellsInOrder(g))
numIslands(g) == IslandsBy(g, LAMBDA sunk, c : Sink(g, sunk, c)).count
IslandsByFlood(g) == IslandsBy(g, LAMBDA sunk, c : sunk \cup FloodFrom(g, c)).count
maxAreaOfIsland(g) == IslandsBy(g, LAMBDA sunk, c : Sink(g, sunk, c)).area
AreaByFlood(g) == IslandsBy(g, LAMBDA sunk, c : sunk \cup FloodFrom(g, c)).area

\* A queue of cells that are looked at only when their turn comes.
RECURSIVE SinkQueue(_, _, _)
SinkQueue(g, sunk, q) ==
  IF q = <<>> THEN sunk
  ELSE IF Head(q) \notin Cells(g) \/ Head(q) \in sunk \/ Value(g, Head(q)) = 0 THEN SinkQueue(g, sunk, Tail(q))
  ELSE SinkQueue(g, sunk \cup {Head(q)}, Tail(q) \o Around(Head(q)))
AreaByQueue(g) == IslandsBy(g, LAMBDA sunk, c : SinkQueue(g, sunk, <<c>>)).area

\* Union by rank of neighbouring land; every union takes one from the count.
RECURSIVE FindLand(_, _)
FindLand(parent, x) == IF parent[x] = x THEN x ELSE FindLand(parent, parent[x])
UnionLand(uf, x, y) ==
  LET rx == FindLand(uf.parent, x)
      ry == FindLand(uf.parent, y)
  IN IF rx = ry THEN uf
     ELSE [count |-> uf.count - 1,
           parent |-> IF uf.rank[rx] >= uf.rank[ry] THEN [uf.parent EXCEPT ![ry] = rx] ELSE [uf.parent EXCEPT ![rx] = ry],
           rank |-> IF uf.rank[rx] = uf.rank[ry] THEN [uf.rank EXCEPT ![rx] = @ + 1] ELSE uf.rank]
IslandsByUnion(g) ==
  LET land == SelectSeq(CellsInOrder(g), LAMBDA c : Value(g, c) = 1)
      start == [parent |-> [c \in ToSet(land) |-> c], rank |-> [c \in ToSet(land) |-> 0], count |-> Len(land)]
      Join4(uf, c) == FoldLeft(LAMBDA u, x : IF x \in ToSet(land) THEN UnionLand(u, c, x) ELSE u, uf, Around(c))
  IN FoldLeft(Join4, start, land).count

\* Distance of every cell to the next 0: layers from the zeros, or passes over the
\* rows, each with the neighbours already passed.
NearestZero(g) ==
  LET d == Distances({c \in Cells(g) : Value(g, c) = 0}, LAMBDA c : ToSet(Around(c)) \cap Cells(g), Cells(g))
  IN [i \in DOMAIN g |-> [j \in DOMAIN g[1] |-> d[<<i, j>>]]]
ZeroOrFar(g) == [i \in DOMAIN g |-> [j \in DOMAIN g[1] |-> IF g[i][j] = 0 THEN 0 ELSE Infinity]]
\* di, dj: on which side the neighbours are that the pass has seen.
Sweep(d, di, dj) ==
  LET new[i \in Int, j \in Int] ==
        IF i \notin DOMAIN d \/ j \notin DOMAIN d[1] THEN Infinity
        ELSE Min({d[i][j], new[i + di, j] + 1, new[i, j + dj] + 1})
  IN [i \in DOMAIN d |-> [j \in DOMAIN d[1] |-> new[i, j]]]
ZeroByFourSweeps(g) == Sweep(Sweep(Sweep(Sweep(ZeroOrFar(g), 1, 1), 1, -1), -1, 1), -1, -1)
\* The second of its four sweeps never runs: its loop asks for j < 0 from the start.
ZeroByThreeSweeps(g) == Sweep(Sweep(Sweep(ZeroOrFar(g), -1, -1), 1, -1), 1, 1)
ZeroByTwoSweeps(g) == Sweep(Sweep(ZeroOrFar(g), -1, -1), 1, 1)

\* From corner to corner of a maze, -1 when there is no way.
WalkMaze(g) ==
  LET t == Distances({<<1, 1>>}, LAMBDA c : NearIn(g, c, 0), Cells(g))
      goal == <<Len(g), Len(g[1])>>
  IN IF goal \in DOMAIN t THEN t[goal] ELSE -1

\* The eight puzzle: 0 is the hole, the goal has it last.
Goal == [i \in 1 .. 9 |-> i % 9]
Moves(state) ==
  LET pos == CHOOSE i \in 1 .. 9 : state[i] = 0
      row(i) == (i - 1) \div 3
      col(i) == (i - 1) % 3
  IN {Exchange(state, pos, i) : i \in {x \in 1 .. 9 : Distance(row(x), row(pos)) + Distance(col(x), col(pos)) = 1}}
EightNumber(start) ==
  LET f[front \in SUBSET [1 .. 9 -> 0 .. 8], seen \in SUBSET [1 .. 9 -> 0 .. 8], k \in Nat] ==
        LET next == UNION {Moves(s) : s \in front} \ seen
        IN IF Goal \in front THEN k ELSE IF front = {} THEN -1 ELSE f[next, seen \cup next, k + 1]
  IN f[{start}, {start}, 0]

\* A word along neighbouring cells, none twice.
RECURSIVE CheckWord(_, _, _, _, _)
CheckWord(board, word, visited, c, k) ==
  /\ Value(board, c) = word[k]
  /\ k = Len(word) \/ \E x \in (ToSet(Around(c)) \cap Cells(board)) \ (visited \cup {c}) :
                        CheckWord(board, word, visited \cup {c}, x, k + 1)
exist(board, word) == \E c \in Cells(board) : CheckWord(board, word, {}, c, 1)

\* The cells a robot reaches whose digits sum to at most k, counted from 0.
getBitSum(i) == LET f[n \in Nat] == IF n = 0 THEN 0 ELSE (n % 10) + f[n \div 10] IN f[i]
RECURSIVE Roam(_, _, _, _, _)
Roam(visited, c, m, n, k) ==
  IF /\ c[1] \in 0 .. m - 1 /\ c[2] \in 0 .. n - 1 /\ c \notin visited
     /\ getBitSum(c[1]) + getBitSum(c[2]) <= k
  THEN FoldLeft(LAMBDA v, x : Roam(v, x, m, n, k), visited \cup {c}, Around(c))
  ELSE visited
movingCount(m, n, k) == Cardinality(Roam({}, <<0, 0>>, m, n, k))

-----------------------------------------------------------------------------
(* Graphs.                                                                 *)

\* Where the edges from u lead, the last edge first.
Out(E, u) == LET s == SelectSeq(E, LAMBDA e : e[1] = u) IN [k \in DOMAIN s |-> s[Len(s) - k + 1][2]]
Both(E) == E \o [k \in DOMAIN E |-> <<E[k][2], E[k][1]>>]

\* Depth first until the target is next to the node; a visit that fails marks all it saw.
RECURSIVE RouteFrom(_, _, _, _)
RouteFrom(E, st, node, target) ==
  IF st.found \/ node \in st.visited THEN st
  ELSE IF target \in ToSet(Out(E, node)) THEN [st EXCEPT !.found = TRUE]
  ELSE FoldLeft(LAMBDA s, x : RouteFrom(E, s, x, target), [st EXCEPT !.visited = @ \cup {node}], Out(E, node))
findWhetherExistsPath(n, E, start, target) ==
  start = target \/ (start <= n /\ target <= n /\ RouteFrom(E, [found |-> FALSE, visited |-> {}], start, target).found)
RouteByLayers(n, E, start, target) ==
  \/ start = target
  \/ start <= n /\ target <= n /\ target \in DOMAIN Distances({start}, LAMBDA u : ToSet(Out(E, u)), 1 .. n)

levelOfGraph(n, E) ==
  LET d == Distances({1}, LAMBDA u : ToSet(Out(E, u)), 1 .. n) IN IF n \in DOMAIN d THEN d[n] ELSE -1

\* Nodes without an incoming edge are taken away, and the edges from them.
RECURSIVE TakeAway(_, _, _)
TakeAway(E, indeg, q) ==
  IF q = <<>> THEN <<>>
  ELSE LET Cut(st, v) == LET d == [st.indeg EXCEPT ![v] = @ - 1] IN
                           [indeg |-> d, q |-> IF d[v] = 0 THEN Append(st.q, v) ELSE st.q]
           after == FoldLeft(Cut, [indeg |-> indeg, q |-> Tail(q)], Out(E, Head(q)))
       IN <<Head(q)>> \o TakeAway(E, after.indeg, after.q)
Indegree(E, v) == Len(SelectSeq(E, LAMBDA e : e[2] = v))
TakenInOrder(n, E) ==
  TakeAway(E, [v \in 1 .. n |-> Indegree(E, v)], SelectSeq(Upto(1, n), LAMBDA v : Indegree(E, v) = 0))
topsort(n, E) == LET q == TakenInOrder(n, E) IN IF Len(q) = n THEN q ELSE <<-1>>
\* A pair <<c, p>>: p comes before c.
canFinish(n, prerequisites) ==
  Len(TakenInOrder(n, [k \in DOMAIN prerequisites |-> <<prerequisites[k][2], prerequisites[k][1]>>])) = n

\* Two colours, depth first: a node that has one must have the one expected.
RECURSIVE setColor(_, _, _, _)
setColor(E, st, i, color) ==
  IF ~st.ok THEN st
  ELSE IF i \in DOMAIN st.colors THEN [st EXCEPT !.ok = st.colors[i] = color]
  ELSE FoldLeft(LAMBDA s, j : setColor(E, s, j, 1 - color), [st EXCEPT !.colors = @ @@ (i :> color)], Out(E, i))
isBipartite(n, E) ==
  LET Start(st, i) == IF i \in DOMAIN st.colors THEN st ELSE setColor(E, st, i, 0)
  IN FoldLeft(Start, [ok |-> TRUE, colors |-> <<>>], Upto(1, n)).ok
\* Breadth first, from every node anew: the colours go by value.
BipartiteByLayers(n, E) ==
  \A i \in 1 .. n : LET d == Distances({i}, LAMBDA u : ToSet(Out(E, u)), 1 .. n) IN
    \A u \in DOMAIN d : \A v \in ToSet(Out(E, u)) : d[u] % 2 # d[v] % 2

\* Shortest paths: the nearest node left, n - 1 times; or from a heap, stale entries skipped.
Weight(W, a, b) == Smallest({W[k][3] : k \in {x \in DOMAIN W : W[x][1] = a /\ W[x][2] = b}})
Dijkstra(n, W) ==
  LET Settle(st, i) ==
        LET left == {j \in 1 .. n : j \notin st.done}
            t == Min({j \in left : \A x \in left : st.dist[j] <= st.dist[x]})
        IN [done |-> st.done \cup {t}, dist |-> [j \in 1 .. n |-> Lesser(st.dist[j], st.dist[t] + Weight(W, t, j))]]
      start == [done |-> {}, dist |-> [j \in 1 .. n |-> IF j = 1 THEN 0 ELSE Infinity]]
      dist == FoldLeft(Settle, start, Upto(1, n - 1)).dist
  IN IF dist[n] = Infinity THEN -1 ELSE dist[n]

RECURSIVE SettleTop(_, _, _, _)
SettleTop(W, heap, done, dist) ==
  IF heap = {} THEN dist
  ELSE LET t == CHOOSE x \in heap : \A y \in heap : x[1] < y[1] \/ (x[1] = y[1] /\ x[2] <= y[2])
           Relax(st, e) == IF st.dist[e[2]] > st.dist[t[2]] + e[3]
                           THEN LET d == st.dist[t[2]] + e[3] IN
                                  [dist |-> [st.dist EXCEPT ![e[2]] = d], heap |-> st.heap \cup {<<d, e[2]>>}]
                           ELSE st
           edges == Reverse(SelectSeq(W, LAMBDA e : e[1] = t[2]))
           after == FoldLeft(Relax, [dist |-> dist, heap |-> heap \ {t}], edges)
       IN IF t[2] \in done THEN SettleTop(W, heap \ {t}, done, dist)
          ELSE SettleTop(W, after.heap, done \cup {t[2]}, after.dist)
DijkstraHeap(n, W) ==
  LET dist == SettleTop(W, {<<0, 1>>}, {}, [j \in 1 .. n |-> IF j = 1 THEN 0 ELSE Infinity])
  IN IF dist[n] = Infinity THEN -1 ELSE dist[n]

\* The least greatest part a node leaves when it is taken from the tree.
RECURSIVE WeighTree(_, _, _, _)
WeighTree(n, E, st, u) ==
  LET Below(s, j) == IF j \in s.seen THEN s
                     ELSE LET w == WeighTree(n, E, [s EXCEPT !.sum = 0, !.size = 0], j)
                          IN [seen |-> w.seen, ans |-> w.ans, size |-> Bigger(s.size, w.sum), sum |-> s.sum + w.sum]
      end == FoldLeft(Below, [seen |-> st.seen \cup {u}, ans |-> st.ans, size |-> 0, sum |-> 0], Out(E, u))
  IN [end EXCEPT !.sum = @ + 1, !.ans = Lesser(@, Bigger(end.size, n - 1 - end.sum))]
centerOfTree(n, E) == WeighTree(n, Both(E), [seen |-> {}, ans |-> Infinity, size |-> 0, sum |-> 0], 1).ans

-----------------------------------------------------------------------------
(* Trees of choices.                                                       *)

\* Numbers not on the path yet, the least first.
RECURSIVE PermuteFrom(_, _)
PermuteFrom(n, path) ==
  IF Len(path) = n THEN <<path>>
  ELSE FlattenSeq([k \in 1 .. n |-> IF k \in ToSet(path) THEN <<>> ELSE PermuteFrom(n, Append(path, k))])
permuteNumbers(n) == PermuteFrom(n, <<>>)

\* By exchanges with the places that follow, and with marks on the places used.
RECURSIVE PermuteBySwaps(_, _)
PermuteBySwaps(nums, pos) ==
  IF pos > Len(nums) THEN <<nums>>
  ELSE FlattenSeq([k \in 1 .. Len(nums) - pos + 1 |-> PermuteBySwaps(Exchange(nums, pos, pos + k - 1), pos + 1)])
permute(nums) == PermuteBySwaps(nums, 1)
RECURSIVE PermuteByMarks(_, _)
PermuteByMarks(nums, used) ==
  IF Len(used) = Len(nums) THEN <<[k \in DOMAIN used |-> nums[used[k]]]>>
  ELSE FlattenSeq([i \in DOMAIN nums |-> IF i \in ToSet(used) THEN <<>> ELSE PermuteByMarks(nums, Append(used, i))])
\* Of equal numbers the first unused one only.
RECURSIVE PermuteDistinct(_, _)
PermuteDistinct(nums, used) ==
  LET skip(i) == i \in ToSet(used) \/ (i > 1 /\ nums[i] = nums[i - 1] /\ i - 1 \notin ToSet(used)) IN
    IF Len(used) = Len(nums) THEN <<[k \in DOMAIN used |-> nums[used[k]]]>>
    ELSE FlattenSeq([i \in DOMAIN nums |-> IF skip(i) THEN <<>> ELSE PermuteDistinct(nums, Append(used, i))])
permuteUnique(nums) == PermuteDistinct(Ascending(nums), <<>>)

RECURSIVE SubsetsFrom(_, _, _)
SubsetsFrom(nums, output, pos) ==
  IF pos > Len(nums) THEN <<output>>
  ELSE SubsetsFrom(nums, output, pos + 1) \o SubsetsFrom(nums, Append(output, nums[pos]), pos + 1)
subsets(nums) == SubsetsFrom(nums, <<>>, 1)

\* A candidate may be taken again; it is left before it is taken.
RECURSIVE CombineFrom(_, _, _, _)
CombineFrom(candidates, output, pos, target) ==
  IF target = 0 THEN <<output>>
  ELSE IF pos > Len(candidates) THEN <<>>
  ELSE CombineFrom(candidates, output, pos + 1, target)
       \o (IF target >= candidates[pos]
           THEN CombineFrom(candidates, Append(output, candidates[pos]), pos, target - candidates[pos]) ELSE <<>>)
combinationSum(candidates, target) == CombineFrom(candidates, <<>>, 1, target)

\* Faulty variant: the falling diagonals are not marked.
AttackedOnOneDiagonal(n, q, x, y) ==
  \E r \in DOMAIN q : q[r] = y \/ q[r] + r = y + x
\* Queens row by row, where neither column nor diagonal is taken.
Attacked(n, q, x, y) ==
  \E r \in DOMAIN q : q[r] = y \/ q[r] + r = y + x \/ n - r + q[r] = n - x + y
RECURSIVE QueensFrom(_, _)
QueensFrom(n, q) ==
  IF Len(q) = n THEN {q}
  ELSE UNION {QueensFrom(n, Append(q, y)) : y \in {c \in 1 .. n : ~Attacked(n, q, Len(q) + 1, c)}}
Queens(n) == QueensFrom(n, <<>>)

\* Cell by cell, without and with a queen; rows are watched too.
RECURSIVE QueensByCell(_, _, _)
QueensByCell(n, S, k) ==
  LET c == <<((k - 1) \div n) + 1, ((k - 1) % n) + 1>>
      free == \A s \in S : s[1] # c[1] /\ s[2] # c[2] /\ s[1] + s[2] # c[1] + c[2] /\ n + s[1] - s[2] # n + c[1] - c[2]
  IN IF k > n * n THEN IF Cardinality(S) = n THEN {S} ELSE {}
     ELSE QueensByCell(n, S, k + 1) \cup (IF free THEN QueensByCell(n, S \cup {c}, k + 1) ELSE {})

-----------------------------------------------------------------------------
(* What they should answer.                                                *)

\* Everything that k steps reach, one step after the other, for every k at once.
Reached(S, Near(_), n) == LET f[k \in Nat] == IF k = 0 THEN S ELSE f[k - 1] \cup UNION {Near(u) : u \in f[k - 1]} IN f[n]
StepsTo(S, Near(_), goal, n) == Smallest({k \in 0 .. n : goal \in Reached(S, Near, k)})
OrMinusOne(k) == IF k = Infinity THEN -1 ELSE k

\* Islands, distances and mazes in a grid of zeros and ones; words and robots in it.
GridsRight(g, k) ==
  LET cells == Cells(g)
      size == Cardinality(cells)
      land == {c \in cells : Value(g, c) = 1}
      zeros == cells \ land
      near(c) == {x \in cells : Distance(x[1], c[1]) + Distance(x[2], c[2]) = 1}
      onLand(c) == near(c) \cap land
      islands == {Reached({c}, onLand, size) : c \in land}
      nearest == [i \in DOMAIN g |-> [j \in DOMAIN g[1] |-> Min({Distance(i, z[1]) + Distance(j, z[2]) : z \in zeros})]]
      word == [i \in 1 .. k |-> i % 2]
      walks == {w \in [1 .. k -> cells] : IsInjective(w) /\ \A i \in 2 .. k : w[i] \in near(w[i - 1])}
  IN /\ {numIslands(g), IslandsByFlood(g), IslandsByUnion(g)} = {Cardinality(islands)}
     /\ {maxAreaOfIsland(g), AreaByFlood(g), AreaByQueue(g)} = {Max({0} \cup {Cardinality(s) : s \in islands})}
     /\ zeros # {} => {NearestZero(g), ZeroByFourSweeps(g), ZeroByThreeSweeps(g), ZeroByTwoSweeps(g)} = {nearest}
     /\ g[1][1] = 0 => WalkMaze(g) = OrMinusOne(StepsTo({<<1, 1>>}, LAMBDA c : near(c) \ land, <<Len(g), Len(g[1])>>, size))
     /\ k \in 1 .. 3 => exist(g, word) = (\E w \in walks : \A i \in 1 .. k : Value(g, w[i]) = word[i])
     /\ movingCount(Len(g), Len(g[1]), k)
          = Cardinality({c \in (0 .. Len(g) - 1) \X (0 .. Len(g[1]) - 1) : c[1] + c[2] <= k})

\* Routes, orders and colours of a graph with edges E on 1 .. n.
GraphsRight(n, E) ==
  LET out(u) == {v \in 1 .. n : <<u, v>> \in ToSet(E)}
      both(u) == {v \in 1 .. n : <<u, v>> \in ToSet(E) \/ <<v, u>> \in ToSet(E)}
      acyclic == \A u \in 1 .. n : u \notin Reached(out(u), out, n)
      order == topsort(n, E)
      place(v) == CHOOSE i \in 1 .. n : order[i] = v
      coloured == \E c \in [1 .. n -> 0 .. 1] : \A u \in 1 .. n : \A v \in both(u) : c[u] # c[v]
  IN /\ \A u, v \in 1 .. n : {findWhetherExistsPath(n, E, u, v), RouteByLayers(n, E, u, v)} = {v \in Reached({u}, out, n)}
     /\ levelOfGraph(n, E) = OrMinusOne(StepsTo({1}, out, n, n))
     /\ canFinish(n, E) = acyclic
     /\ IF acyclic THEN IsInjective(order) /\ \A e \in ToSet(E) : place(e[1]) < place(e[2]) ELSE order = <<-1>>
     /\ {isBipartite(n, Both(E)), BipartiteByLayers(n, Both(E))} = {coloured}

\* Shortest ways over weighted edges W, against the relaxing of every edge n times.
WaysRight(n, W) ==
  LET relaxed[k \in Nat] ==
        IF k = 0 THEN [v \in 1 .. n |-> IF v = 1 THEN 0 ELSE Infinity]
        ELSE [v \in 1 .. n |-> Min({relaxed[k - 1][v]} \cup {relaxed[k - 1][e[1]] + e[3] : e \in {x \in ToSet(W) : x[2] = v}})]
      far == relaxed[n][n]
  IN {Dijkstra(n, W), DijkstraHeap(n, W)} = {IF far >= Infinity THEN -1 ELSE far}

\* The centre of the tree in which node i + 1 hangs on parents[i].
CentresRight(parents) ==
  LET n == Len(parents) + 1
      E == [i \in DOMAIN parents |-> <<parents[i], i + 1>>]
      near(u) == {v \in 1 .. n : <<u, v>> \in ToSet(E) \/ <<v, u>> \in ToSet(E)}
      parts(u) == {Cardinality(Reached({v}, LAMBDA x : near(x) \ {u}, n)) : v \in near(u)}
  IN centerOfTree(n, E) = Min({Max({0} \cup parts(u)) : u \in 1 .. n})

\* Permutations, subsets and sums of d; queens on a small board.
TreesOfChoicesRight(d, t) ==
  LET n == Len(d)
      orders == {p \in [1 .. n -> 1 .. n] : IsInjective(p)}
      arranged == {[i \in 1 .. n |-> d[p[i]]] : p \in orders}
      once(q, S) == ToSet(q) = S /\ Len(q) = Cardinality(S)
      values == SelectSeq(Upto(1, 3), LAMBDA v : v \in ToSet(d))
      sums == {x \in [DOMAIN values -> 0 .. t] : Total([i \in DOMAIN values |-> x[i] * values[i]]) = t}
  IN /\ once(permuteNumbers(n), orders)
     /\ \A all \in {permute(d), PermuteByMarks(d, <<>>)} : ToSet(all) = arranged /\ Len(all) = Cardinality(orders)
     /\ once(permuteUnique(d), arranged)
     /\ Len(subsets(d)) = 2 ^ n /\ \A q \in ToSet(subsets(d)) : \A v \in ToSet(d) : HowOften(q, v) <= HowOften(d, v)
     /\ once(combinationSum(values, t), {FlattenSeq([i \in DOMAIN values |-> [k \in 1 .. x[i] |-> values[i]]]) : x \in sums})
     /\ LET placed == {p \in orders : \A i, j \in 1 .. n : i < j => Distance(p[i], p[j]) # j - i} IN
          Queens(n) = placed /\ QueensByCell(n, {}, 1) = {{<<i, p[i]>> : i \in 1 .. n} : p \in placed}

\* A puzzle that is k moves away from the goal, and no fewer, is solved in k.
PuzzleRight(k) ==
  LET ring == Reached({Goal}, Moves, k) \ (IF k = 0 THEN {} ELSE Reached({Goal}, Moves, k - 1))
  IN \A state \in ring : EightNumber(state) = k

=============================================================================
