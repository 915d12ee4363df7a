-------------------------------- MODULE Linked --------------------------------
(***************************************************************************)
(* Exercises on linked things: binary trees, lists, tries, and the words   *)
(* and matrices of the interview book.                                     *)
(* A tree is <<>> or <<value, left, right>>.  The programs compare nodes   *)
(* by address, which trees of distinct values do by themselves.            *)
(***************************************************************************)
EXTENDS ExerciseBasics

Null == <<>>
ValOf(t) == t[1]
Left(t) == t[2]
Right(t) == t[3]

-----------------------------------------------------------------------------
(* Orders of a tree, by calls and with a stack.                            *)

RECURSIVE preorderTraversal(_)
preorderTraversal(t) ==
  IF t = Null THEN <<>> ELSE <<ValOf(t)>> \o preorderTraversal(Left(t)) \o preorderTraversal(Right(t))
RECURSIVE inorderTraversal(_)
inorderTraversal(t) ==
  IF t = Null THEN <<>> ELSE Append(inorderTraversal(Left(t)), ValOf(t)) \o inorderTraversal(Right(t))
RECURSIVE postorderTraversal(_)
postorderTraversal(t) ==
  IF t = Null THEN <<>> ELSE Append(postorderTraversal(Left(t)) \o postorderTraversal(Right(t)), ValOf(t))

RECURSIVE PreorderByStack(_, _)
PreorderByStack(cur, stk) ==
  IF cur # Null THEN <<ValOf(cur)>> \o PreorderByStack(Left(cur), Append(stk, cur))
  ELSE IF stk = <<>> THEN <<>> ELSE PreorderByStack(Right(Last(stk)), Front(stk))
RECURSIVE InorderByStack(_, _)
InorderByStack(cur, stk) ==
  IF cur # Null THEN InorderByStack(Left(cur), Append(stk, cur))
  ELSE IF stk = <<>> THEN <<>> ELSE <<ValOf(Last(stk))>> \o InorderByStack(Right(Last(stk)), Front(stk))

\* A node is left when its right subtree is empty or was just left.
RECURSIVE PostorderByStack(_, _, _)
PostorderByStack(cur, stk, pre) ==
  IF cur # Null THEN PostorderByStack(Left(cur), Append(stk, cur), pre)
  ELSE IF stk = <<>> THEN <<>>
  ELSE LET top == Last(stk) IN
         IF Right(top) # Null /\ Right(top) # pre THEN PostorderByStack(Right(top), stk, pre)
         ELSE <<ValOf(top)>> \o PostorderByStack(Null, Front(stk), top)
\* The same with the node popped first and pushed again.
RECURSIVE PostorderPushedAgain(_, _, _)
PostorderPushedAgain(cur, stk, prev) ==
  IF cur # Null THEN PostorderPushedAgain(Left(cur), Append(stk, cur), prev)
  ELSE IF stk = <<>> THEN <<>>
  ELSE LET top == Last(stk)
           popped == Front(stk)
       IN IF Right(top) \in {Null, prev} THEN <<ValOf(top)>> \o PostorderPushedAgain(Null, popped, top)
          ELSE PostorderPushedAgain(Right(top), Append(popped, top), prev)

\* Level after level: each takes as many nodes from the queue as it held.
Children(q) ==
  SelectSeq(FlattenSeq([i \in DOMAIN q |-> <<Left(q[i]), Right(q[i])>>]), LAMBDA t : t # Null)
RECURSIVE Levels(_)
Levels(q) == IF q = <<>> THEN <<>> ELSE <<[i \in DOMAIN q |-> ValOf(q[i])]>> \o Levels(Children(q))
levelOrder(t) == IF t = Null THEN <<>> ELSE Levels(<<t>>)
listOfDepth(t) == IF t = Null THEN <<>> ELSE Levels(<<t>>)

RECURSIVE maxDepth(_)
maxDepth(t) == IF t = Null THEN 0 ELSE Bigger(maxDepth(Left(t)), maxDepth(Right(t))) + 1
RECURSIVE WidthsPassed(_)
WidthsPassed(q) == IF q = <<>> THEN 0 ELSE 1 + WidthsPassed(Children(q))
DepthByLevels(t) == IF t = Null THEN 0 ELSE WidthsPassed(<<t>>)

RECURSIVE TreeHeight(_)
TreeHeight(t) ==
  IF t = Null THEN 0
  ELSE LET lh == TreeHeight(Left(t))
           rh == TreeHeight(Right(t))
       IN IF -1 \in {lh, rh} \/ Distance(lh, rh) > 1 THEN -1 ELSE Bigger(lh, rh) + 1
isBalanced(t) == TreeHeight(t) >= 0

RECURSIVE WithinBounds(_, _, _)
WithinBounds(t, lower, upper) ==
  t = Null \/ (/\ lower < ValOf(t) /\ ValOf(t) < upper
               /\ WithinBounds(Left(t), lower, ValOf(t)) /\ WithinBounds(Right(t), ValOf(t), upper))
isValidBST(t) == WithinBounds(t, -Infinity, Infinity)

RECURSIVE BSTOf(_, _, _)
BSTOf(nums, left, right) ==
  LET mid == (left + right + 1) \div 2 IN
    IF right < left THEN Null ELSE <<nums[mid + 1], BSTOf(nums, left, mid - 1), BSTOf(nums, mid + 1, right)>>
sortedArrayToBST(nums) == BSTOf(nums, 0, Len(nums) - 1)

-----------------------------------------------------------------------------
(* Trees from their orders.                                                *)

IndexOf(q, v) == CHOOSE i \in DOMAIN q : q[i] = v
RECURSIVE FromPreIn(_, _, _, _, _, _)
FromPreIn(pre, in, preLeft, preRight, inLeft, inRight) ==
  LET inIdx == IndexOf(in, pre[preLeft])
      size == inIdx - inLeft
  IN IF preLeft > preRight THEN Null
     ELSE <<pre[preLeft], FromPreIn(pre, in, preLeft + 1, preLeft + size, inLeft, inIdx - 1),
            FromPreIn(pre, in, preLeft + size + 1, preRight, inIdx + 1, inRight)>>
BuildFromPreIn(pre, in) == FromPreIn(pre, in, 1, Len(pre), 1, Len(in))

\* A new value goes to the left of the top, until the top is the next of the inorder:
\* then to the right of the last of those that come off.  Links by value.
BuildByStack(pre, in) ==
  LET Add(st, v) ==
        LET off == Max({k \in 0 .. Len(st.stk) : \A j \in 1 .. k : st.stk[Len(st.stk) - j + 1] = in[st.index + j]})
            node == st.stk[Len(st.stk) - Bigger(off, 1) + 1]
        IN [index |-> st.index + off, stk |-> Append(First(st.stk, Len(st.stk) - off), v),
            links |-> st.links \cup {<<node, IF off = 0 THEN "left" ELSE "right", v>>}]
      links == FoldLeft(Add, [index |-> 0, stk |-> <<pre[1]>>, links |-> {}], Tail(pre)).links
      Child(f, v, side) == IF \E x \in links : x[1] = v /\ x[2] = side
                           THEN f[(CHOOSE x \in links : x[1] = v /\ x[2] = side)[3]] ELSE Null
      tree[v \in ToSet(pre)] == <<v, Child(tree, v, "left"), Child(tree, v, "right")>>
  IN IF pre = <<>> THEN Null ELSE tree[pre[1]]

\* From the end of the postorder, the right subtree first; what is left of it.
RECURSIVE FromInPost(_, _, _, _)
FromInPost(in, post, inLeft, inRight) ==
  IF inLeft > inRight THEN [tree |-> Null, post |-> post]
  ELSE LET inIndex == IndexOf(in, Last(post))
           r == FromInPost(in, Front(post), inIndex + 1, inRight)
           l == FromInPost(in, r.post, inLeft, inIndex - 1)
       IN [tree |-> <<Last(post), l.tree, r.tree>>, post |-> l.post]
BuildFromInPost(in, post) == FromInPost(in, post, 1, Len(in)).tree

\* The text is its items, what stands between commas; Hash stands for "#".
Hash == -1
RECURSIVE serialize(_)
serialize(t) == IF t = Null THEN <<Hash>> ELSE <<ValOf(t)>> \o serialize(Left(t)) \o serialize(Right(t))
RECURSIVE deserialize(_)
deserialize(items) ==
  IF Head(items) = Hash THEN [tree |-> Null, items |-> Tail(items)]
  ELSE LET l == deserialize(Tail(items))
           r == deserialize(l.items)
       IN [tree |-> <<Head(items), l.tree, r.tree>>, items |-> r.items]

-----------------------------------------------------------------------------
(* Nodes in a tree.                                                        *)

\* Lowest common ancestor: the node under which both sides are found.
RECURSIVE Meet(_, _, _)
Meet(t, p, q) ==
  IF t = Null THEN [found |-> FALSE, ans |-> Null]
  ELSE LET l == Meet(Left(t), p, q)
           r == Meet(Right(t), p, q)
           self == ValOf(t) \in {p, q}
           here == (l.found /\ r.found) \/ (self /\ (l.found \/ r.found))
       IN [found |-> l.found \/ r.found \/ self,
           ans |-> IF here THEN t ELSE IF r.ans # Null THEN r.ans ELSE l.ans]
lowestCommonAncestor(t, p, q) == Meet(t, p, q).ans

\* With the parent of every value: p's ancestors are marked, q climbs to the first.
RECURSIVE Fathers(_)
Fathers(t) ==
  IF t = Null THEN <<>>
  ELSE LET under(c) == IF c = Null THEN <<>> ELSE (ValOf(c) :> ValOf(t)) IN
         under(Left(t)) @@ under(Right(t)) @@ Fathers(Left(t)) @@ Fathers(Right(t))
AncestorByFathers(t, p, q) ==
  LET fa == Fathers(t)
      up[v \in Int] == IF v \in DOMAIN fa THEN {v} \cup up[fa[v]] ELSE {v}
      climb[v \in Int] == IF v \in up[p] THEN v ELSE climb[fa[v]]
  IN climb[q]

\* The node after the value p in the inorder: by a walk that remembers the one before,
\* or down the search tree.
RECURSIVE SuccessorByWalk(_, _, _, _)
SuccessorByWalk(cur, stk, pre, p) ==
  IF cur # Null THEN SuccessorByWalk(Left(cur), Append(stk, cur), pre, p)
  ELSE IF stk = <<>> THEN Null
  ELSE IF pre # Null /\ ValOf(pre) = p THEN Last(stk)
  ELSE SuccessorByWalk(Right(Last(stk)), Front(stk), Last(stk), p)
RECURSIVE Leftmost(_)
Leftmost(t) == IF Left(t) = Null THEN t ELSE Leftmost(Left(t))
RECURSIVE Above(_, _, _)
Above(cur, p, successor) ==
  IF cur = Null THEN successor ELSE IF ValOf(cur) > p THEN Above(Left(cur), p, cur) ELSE Above(Right(cur), p, successor)
SuccessorDown(t, node) == IF Right(node) # Null THEN Leftmost(Right(node)) ELSE Above(t, ValOf(node), Null)

\* Ways down from a node, and from every node, with the given sum.
RECURSIVE rootSum(_, _)
rootSum(t, sum) ==
  IF t = Null THEN 0
  ELSE (IF ValOf(t) = sum THEN 1 ELSE 0) + rootSum(Left(t), sum - ValOf(t)) + rootSum(Right(t), sum - ValOf(t))
RECURSIVE pathSum(_, _)
pathSum(t, sum) == IF t = Null THEN 0 ELSE rootSum(t, sum) + pathSum(Left(t), sum) + pathSum(Right(t), sum)

\* One text in the other; the digits of a value follow those before with nothing between,
\* so that 12 contains 2: the check below keeps to values of one digit.
RECURSIVE getOrderedString(_)
getOrderedString(t) == IF t = Null THEN <<-1>> ELSE <<ValOf(t)>> \o getOrderedString(Left(t)) \o getOrderedString(Right(t))
Occurs(s, q) == \E i \in 0 .. Len(q) - Len(s) : SubSeq(q, i + 1, i + Len(s)) = s
checkSubTree(t1, t2) == t2 = Null \/ (t1 # Null /\ Occurs(getOrderedString(t2), getOrderedString(t1)))

-----------------------------------------------------------------------------
(* Lists: a node is its address in next; 0 is the null pointer.            *)

\* The nodes from a head on, of a list without a cycle.
RECURSIVE NodesFrom(_, _)
NodesFrom(next, head) == IF head = 0 THEN <<>> ELSE <<head>> \o NodesFrom(next, next[head])
Chain(n) == [i \in 1 .. n |-> IF i = n THEN 0 ELSE i + 1]   \* the list 1 -> 2 -> ... -> n

RECURSIVE Reversed(_, _, _)
Reversed(next, pre, head) ==
  IF head = 0 THEN [next |-> next, head |-> pre]
  ELSE Reversed([next EXCEPT ![head] = pre], head, next[head])
reverseList(next, head) == Reversed(next, 0, head)
reversePrint(next, head) == LET r == Reversed(next, 0, head) IN NodesFrom(r.next, r.head)

\* Unlinks the node of the value (a node's value is its address).
RECURSIVE Unlink(_, _, _, _)
Unlink(next, pre, cur, v) ==
  IF cur = 0 THEN next ELSE IF cur = v THEN [next EXCEPT ![pre] = next[cur]] ELSE Unlink(next, cur, next[cur], v)
deleteNode(next, head, v) ==
  LET ans == IF head = v THEN next[head] ELSE head IN NodesFrom(Unlink(next, 0, ans, v), ans)

RECURSIVE Step(_, _, _)
Step(next, node, n) == IF n = 0 THEN node ELSE Step(next, next[node], n - 1)
RECURSIVE CountFrom(_, _)
CountFrom(next, cur) == IF cur = 0 THEN 0 ELSE 1 + CountFrom(next, next[cur])
getKthFromEnd(next, head, k) == NodesFrom(next, Step(next, head, CountFrom(next, head) - k))

\* The n-th from the end goes; the dummy before the head is node n0.
WithDummy(next, dummy, head) == next @@ (dummy :> head)
DropAfter(next, cur, dummy) == LET then == [next EXCEPT ![cur] = next[next[cur]]] IN NodesFrom(then, then[dummy])
removeNthFromEnd(next, head, n) ==
  LET d == WithDummy(next, -1, head) IN DropAfter(d, Step(d, -1, CountFrom(next, head) - n), -1)
removeNthByStack(next, head, n) ==
  LET d == WithDummy(next, -1, head)
      stk == NodesFrom(d, -1)
  IN DropAfter(d, Last(First(stk, Len(stk) - n)), -1)
RECURSIVE Trailing(_, _, _)
Trailing(next, first, second) == IF first = 0 THEN second ELSE Trailing(next, next[first], next[second])
removeNthByTwo(next, head, n) ==
  LET d == WithDummy(next, -1, head) IN DropAfter(d, Trailing(d, Step(d, head, n), -1), -1)

\* Lists that may close a cycle, and lists that may join.
RECURSIVE SeenAgain(_, _, _)
SeenAgain(next, head, nodes) == head # 0 /\ (head \in nodes \/ SeenAgain(next, next[head], nodes \cup {head}))
RECURSIVE Meeting(_, _, _)
Meeting(next, slow, fast) ==
  IF fast = 0 \/ (fast # 0 /\ next[fast] = 0) THEN 0
  ELSE LET s == next[slow]
           f == next[next[fast]]
       IN IF s = f THEN s ELSE Meeting(next, s, f)
hasCycle(next, head) == Meeting(next, head, head) # 0
RECURSIVE Together(_, _, _)
Together(next, a, b) == IF a = b THEN a ELSE Together(next, next[a], next[b])
detectCycle(next, head) == LET m == Meeting(next, head, head) IN IF m = 0 THEN 0 ELSE Together(next, head, m)

IntersectionByVisited(next, headA, headB) ==
  LET visited == ToSet(NodesFrom(next, headA))
      met == SelectSeq(NodesFrom(next, headB), LAMBDA x : x \in visited)
  IN IF met = <<>> THEN 0 ELSE Head(met)
RECURSIVE BothWays(_, _, _, _, _)
BothWays(next, headA, headB, pa, pb) ==
  IF pa = pb THEN pa
  ELSE BothWays(next, headA, headB, IF pa = 0 THEN headB ELSE next[pa], IF pb = 0 THEN headA ELSE next[pb])
getIntersectionNode(next, headA, headB) ==
  IF 0 \in {headA, headB} THEN 0 ELSE BothWays(next, headA, headB, headA, headB)

-----------------------------------------------------------------------------
(* Lists as their values: the programs relink or copy the nodes they take  *)
(* off the front.                                                          *)

\* Digits, the lowest first: as long as either has one, then the carry.
RECURSIVE AddDigits(_, _, _)
AddDigits(l1, l2, carry) ==
  LET head(l) == IF l = <<>> THEN 0 ELSE Head(l)
      rest(l) == IF l = <<>> THEN <<>> ELSE Tail(l)
      sum == carry + head(l1) + head(l2)
  IN IF l1 = <<>> /\ l2 = <<>> THEN IF carry > 0 THEN <<carry>> ELSE <<>>
     ELSE <<sum % 10>> \o AddDigits(rest(l1), rest(l2), sum \div 10)
addTwoNumbers(l1, l2) == AddDigits(l1, l2, 0)

RECURSIVE MergeLists(_, _)
MergeLists(list1, list2) ==
  IF list1 = <<>> THEN list2 ELSE IF list2 = <<>> THEN list1
  ELSE IF Head(list1)[1] < Head(list2)[1] THEN <<Head(list1)>> \o MergeLists(Tail(list1), list2)
  ELSE <<Head(list2)>> \o MergeLists(list1, Tail(list2))
\* The head first, then from c1 and c2 - in place of l1 and l2 once the head was l2's.
RECURSIVE MergeRest(_, _)
MergeRest(c1, c2) ==
  IF c1 = <<>> THEN c2 ELSE IF c2 = <<>> THEN c1
  ELSE IF Head(c1)[1] <= Head(c2)[1] THEN <<Head(c1)>> \o MergeRest(Tail(c1), c2)
  ELSE <<Head(c2)>> \o MergeRest(c1, Tail(c2))
mergeTwoLists(l1, l2) ==
  LET fromL1 == l2 = <<>> \/ (l1 # <<>> /\ Head(l1)[1] <= Head(l2)[1])
      head == IF fromL1 THEN l1 ELSE l2
  IN IF l1 = <<>> /\ l2 = <<>> THEN <<>>
     ELSE <<Head(head)>> \o MergeRest(Tail(head), IF fromL1 THEN l2 ELSE l1)

\* A heap of the lists that are not empty, by their heads.
RECURSIVE mergeKLists(_)
mergeKLists(lists) ==
  LET heap == {i \in DOMAIN lists : lists[i] # <<>>}
      top == CHOOSE i \in heap : \A j \in heap : Head(lists[i]) <= Head(lists[j])
  IN IF heap = {} THEN <<>> ELSE <<Head(lists[top])>> \o mergeKLists([lists EXCEPT ![top] = Tail(@)])

-----------------------------------------------------------------------------
(* What the exercises promise.                                             *)

RECURSIVE TreesOver(_)
TreesOver(q) ==                             \* the trees whose inorder is q
  IF q = <<>> THEN {Null}
  ELSE UNION {{<<q[i], l, r>> : l \in TreesOver(First(q, i - 1)), r \in TreesOver(SubSeq(q, i + 1, Len(q)))} : i \in DOMAIN q}
RECURSIVE Nodes(_)
Nodes(t) == IF t = Null THEN {} ELSE {t} \cup Nodes(Left(t)) \cup Nodes(Right(t))
Values(t) == {ValOf(u) : u \in Nodes(t)}
RECURSIVE WayTo(_, _)
WayTo(t, v) ==                              \* the nodes from the root to the value v
  IF t = Null \/ v \notin Values(t) THEN <<>>
  ELSE <<t>> \o (IF ValOf(t) = v THEN <<>> ELSE IF v \in Values(Left(t)) THEN WayTo(Left(t), v) ELSE WayTo(Right(t), v))

\* Every tree over the distinct values of q: its orders, what is rebuilt from them, its
\* shape, and its nodes' relatives.
TreesRight(q) ==
  \A t \in TreesOver(q) :
    LET pre == preorderTraversal(t)
        post == postorderTraversal(t)
        depth(v) == Len(WayTo(t, v))
        deepest(u) == Largest({0} \cup {Len(WayTo(u, v)) : v \in Values(u)})
        place(w, v) == CHOOSE i \in DOMAIN w : w[i] = v
        common(a, b) == CHOOSE u \in ToSet(WayTo(t, a)) \cap ToSet(WayTo(t, b)) :
                          \A w \in ToSet(WayTo(t, a)) \cap ToSet(WayTo(t, b)) : depth(ValOf(w)) <= depth(ValOf(u))
        downs == {SubSeq(w, i, Len(w)) : i \in 1 .. Len(q), w \in {WayTo(t, v) : v \in Values(t)}} \ {<<>>}
    IN /\ inorderTraversal(t) = q /\ InorderByStack(t, <<>>) = q
       /\ PreorderByStack(t, <<>>) = pre
       /\ {PostorderByStack(t, <<>>, Null), PostorderPushedAgain(t, <<>>, Null)} = {post}
       /\ \A u \in Nodes(t) : place(pre, ValOf(u)) = Min({place(pre, v) : v \in Values(u)})
                              /\ place(post, ValOf(u)) = Max({place(post, v) : v \in Values(u)})
       /\ {BuildFromPreIn(pre, q), BuildByStack(pre, q), BuildFromInPost(q, post)} = {t}
       /\ deserialize(serialize(t)) = [tree |-> t, items |-> <<>>]
       /\ {levelOrder(t), listOfDepth(t)} = {[d \in 1 .. deepest(t) |-> SelectSeq(q, LAMBDA v : depth(v) = d)]}
       /\ {maxDepth(t), DepthByLevels(t)} = {deepest(t)}
       /\ isBalanced(t) = (\A u \in Nodes(t) : Distance(deepest(Left(u)), deepest(Right(u))) <= 1)
       /\ isValidBST(t) = (q = Ascending(q))
       /\ \A a \in Values(t) : \A b \in Values(t) \ {a} :
            {lowestCommonAncestor(t, a, b)} = {common(a, b)} /\ AncestorByFathers(t, a, b) = ValOf(common(a, b))
       /\ \A u \in Nodes(t) :
            LET i == place(q, ValOf(u))
                next == IF i = Len(q) THEN Null ELSE Last(WayTo(t, q[i + 1]))
            IN SuccessorByWalk(t, <<>>, Null, ValOf(u)) = next /\ (isValidBST(t) => SuccessorDown(t, u) = next)
       /\ \A sum \in 1 .. 6 : pathSum(t, sum) = Cardinality({w \in downs : Total([i \in DOMAIN w |-> ValOf(w[i])]) = sum})
       /\ \A u \in Nodes(t) \cup {Null} : checkSubTree(t, u) /\ (checkSubTree(u, t) <=> u = t)

\* The tree of an ascending array is a search tree of least height.
SearchTreesRight(d) ==
  LET t == sortedArrayToBST(d) IN
    inorderTraversal(t) = d /\ \A u \in Nodes(t) : Distance(maxDepth(Left(u)), maxDepth(Right(u))) <= 1

\* The list 1 -> ... -> n.
ListsRight(n) ==
  LET head == IF n = 0 THEN 0 ELSE 1
      all == Upto(1, n)
      without(k) == SelectSeq(all, LAMBDA i : i # n - k + 1)
      reversed == reverseList(Chain(n), head)
  IN /\ NodesFrom(reversed.next, reversed.head) = Downto(n, 1) /\ reversePrint(Chain(n), head) = Downto(n, 1)
     /\ n > 0 => \A v \in 0 .. n : deleteNode(Chain(n), head, v) = SelectSeq(all, LAMBDA i : i # v)
     /\ \A k \in 1 .. n :
          /\ getKthFromEnd(Chain(n), head, k) = Upto(n - k + 1, n)
          /\ {removeNthFromEnd(Chain(n), head, k), removeNthByStack(Chain(n), head, k), removeNthByTwo(Chain(n), head, k)}
               = {without(k)}

\* Any links among nodes: the k-fold successors of the head tell whether and where it cycles.
CyclesRight(next, head) ==
  LET n == Cardinality(DOMAIN next)
      at[k \in Nat] == IF k = 0 THEN head ELSE IF at[k - 1] = 0 THEN 0 ELSE next[at[k - 1]]
      again == {k \in 0 .. n : at[k] # 0 /\ \E j \in k + 1 .. 2 * n : at[j] = at[k]}
  IN /\ {SeenAgain(next, head, {}), hasCycle(next, head)} = {at[n] # 0}
     /\ detectCycle(next, head) = (IF again = {} THEN 0 ELSE at[Min(again)])
     /\ \A other \in DOMAIN next \cup {0} :
          LET mine == ToSet(NodesFrom(next, head))
              theirs == NodesFrom(next, other)
          IN ~hasCycle(next, head) /\ ~hasCycle(next, other) =>
               {IntersectionByVisited(next, head, other), getIntersectionNode(next, head, other)}
                 = {IF mine \cap ToSet(theirs) = {} THEN 0
                    ELSE theirs[Min({i \in DOMAIN theirs : theirs[i] \in mine})]}

\* Ascending lists merged: nothing is lost, order kept.  Digits added.
MergesRight(a, b) ==
  LET tagged(l, from) == [i \in DOMAIN l |-> <<l[i], from, i>>]
      number[l \in Seq(Nat)] == IF l = <<>> THEN 0 ELSE Head(l) + 10 * number[Tail(l)]
  IN /\ \A w \in {MergeLists(tagged(a, 1), tagged(b, 2)), mergeTwoLists(tagged(a, 1), tagged(b, 2))} :
          /\ ToSet(w) = ToSet(tagged(a, 1)) \cup ToSet(tagged(b, 2)) /\ Len(w) = Len(a) + Len(b)
          /\ [i \in DOMAIN w |-> w[i][1]] = Ascending(a \o b)
          /\ \A from \in 1 .. 2 : SelectSeq(w, LAMBDA x : x[2] = from) = tagged(IF from = 1 THEN a ELSE b, from)
     /\ mergeKLists(<<a, <<>>, b, a>>) = Ascending(a \o b \o a)
     /\ number[addTwoNumbers(a, b)] = number[a] + number[b]

=============================================================================
