------------------------------ MODULE Exercises ------------------------------
(***************************************************************************)
(* The structures and the algorithm exercises under one specification.  A  *)
(* behaviour either drives one structure, or grows the input of one topic, *)
(* an element at a time; the exercises of the topic are right for every    *)
(* input on the way.  The algorithms are operators of their modules.       *)
(***************************************************************************)
EXTENDS Structures

Srt == INSTANCE Sorting
Sch == INSTANCE Searching
Scn == INSTANCE Scanning
Dyn == INSTANCE Dynamic
Exp == INSTANCE Exploring
Lnk == INSTANCE Linked
Wrd == INSTANCE Words

VARIABLES topic,      \* which exercises are fed, or "none" while a structure is driven
          a, b        \* what they are fed: two sequences

allVars == <<kind, s, m, ans, ops, topic, a, b>>

Topics == {"arrays", "pairs", "numbers", "grids", "graphs", "trees", "links", "words"}

\* What an input is made of, and how long it may grow.
Elements(t) ==
  CASE t \in {"arrays", "pairs"} -> 0 .. 2
    [] t = "numbers" -> Sch!MinInt .. Sch!MaxInt
    [] t = "grids" -> [1 .. 3 -> 0 .. 1] \cup {<<2, 1, 0>>, <<0, 2, 2>>}
    [] t = "graphs" -> {<<u, v, w>> \in (1 .. 3) \X (1 .. 3) \X (1 .. 2) : u # v}
    [] t \in {"trees", "links"} -> 0 .. 4
    [] t = "words" -> {<<1>>, <<2>>, <<1, 1>>, <<1, 2>>, <<2, 1>>}
MaxA(t) == CASE t = "arrays" -> 5 [] t \in {"trees", "links"} -> 4 [] t = "numbers" -> 1 [] t = "grids" -> 2 [] OTHER -> 3
MaxB(t) == CASE t \in {"pairs", "words"} -> 3 [] t = "numbers" -> 1 [] OTHER -> 0

DriveStructure == topic = "none" /\ Next /\ UNCHANGED <<topic, a, b>>
\* The second sequence of the words is a word asked for, letter by letter.
GrowA ==
  /\ topic # "none" /\ b = <<>> /\ Len(a) < MaxA(topic)
  /\ \E e \in Elements(topic) : a' = Append(a, e)
  /\ UNCHANGED <<kind, s, m, ans, ops, topic, b>>
GrowB ==
  /\ topic # "none" /\ Len(b) < MaxB(topic)
  /\ \E e \in IF topic = "words" THEN 1 .. 2 ELSE Elements(topic) : b' = Append(b, e)
  /\ UNCHANGED <<kind, s, m, ans, ops, topic, a>>

InitAll ==
  \/ Init /\ topic = "none" /\ a = <<>> /\ b = <<>>
  \/ /\ topic \in Topics /\ a = <<>> /\ b = <<>>
     /\ kind = "none" /\ s = <<>> /\ m = <<>> /\ ans = <<Void, Void>> /\ ops = 0
NextAll == DriveStructure \/ GrowA \/ GrowB
SpecAll == InitAll /\ [][NextAll]_allVars

-----------------------------------------------------------------------------
Ascends(q) == \A i \in 2 .. Len(q) : q[i - 1] <= q[i]

\* Sorting, selecting, searching and scanning programs, the recursive, in-place and
\* windowed versions alike, give what their exercise asks for.
ScansAndSortsRight ==
  /\ topic = "arrays" =>
       /\ Srt!SortsRight(a) /\ (a # <<>> => Srt!SelectsRight(a))
       /\ Sch!PeaksRight(a) /\ (Ascends(a) => \A t \in 0 .. 3 : Sch!SearchesRight(a, t))
       /\ Scn!HeightsRight(a) /\ Scn!StringsRight(a)
       /\ \A t \in 0 .. 3 : Scn!SumsRight(a, t) /\ (t > 0 => Scn!ScansRight(a, t))
  /\ topic = "pairs" =>
       /\ Scn!PairsScanRight(a, b)
       /\ a # <<>> /\ b # <<>> /\ Ascends(a) /\ Ascends(b) => \A k \in 1 .. 4 : Srt!PairsRight(a, b, k)
  /\ topic = "numbers" /\ a # <<>> /\ b # <<>> => Sch!ArithmeticRight(a[1], b[1])

\* Dynamic programs: tables, rolled-up rows and recursions alike give the best, or the
\* number, of all the choices there are.
TablesRight ==
  /\ topic = "arrays" => Dyn!ChoicesRight(a) /\ \A t \in 0 .. 5 : Dyn!TargetsRight(a, t)
  /\ topic = "pairs" =>
       /\ Len(a) = Len(b) /\ 0 \notin ToSet(a) => \A n \in 0 .. 3 : Dyn!PacksRight(a, b, n)
       /\ Ascends(a) => Dyn!WordsRight([i \in DOMAIN a |-> a[i] + 1], b)
  /\ topic = "numbers" /\ a # <<>> => Dyn!CountsRight(IF a[1] < 0 THEN 0 ELSE a[1] + 1)
  /\ topic = "grids" /\ a # <<>> => \A k \in {0, 2, 4} : Dyn!MatricesRight(a, k)

\* Searches of grids, graphs, trees, lists, words and choices find what is there.
FindsWhatIsThere ==
  /\ topic = "arrays" =>
       /\ Lnk!SearchTreesRight([i \in DOMAIN a |-> 3 * i + a[i]])
       /\ Lnk!ListsRight(Len(a))
       /\ \A t \in 1 .. 4 : Wrd!PracticeRight(a, t)
       /\ Len(a) <= 4 /\ 0 \notin ToSet(a) => \A t \in 1 .. 4 : Exp!TreesOfChoicesRight(a, t)
  /\ topic = "pairs" => Wrd!LettersRight(a, b) /\ (Ascends(a) /\ Ascends(b) => Lnk!MergesRight(a, b))
  /\ topic = "numbers" /\ a # <<>> => Wrd!PowersRight(a[1] + 8) /\ (a[1] \in 0 .. 4 => Exp!PuzzleRight(a[1]))
  /\ topic = "grids" /\ a # <<>> =>
       /\ Wrd!MatrixRight([x \in (0 .. Len(a) - 1) \X (0 .. 2) |-> a[x[1] + 1][x[2] + 1]], Len(a), 3)
       /\ (\A row \in ToSet(a) : ToSet(row) \subseteq 0 .. 1) => \A k \in 0 .. 3 : Exp!GridsRight(a, k)
       /\ Wrd!BoardRight(a, <<<<1, 1>>, <<1, 0, 2>>, <<0, 1, 1>>, <<0>>>>)
  /\ topic = "graphs" => Exp!GraphsRight(3, [i \in DOMAIN a |-> <<a[i][1], a[i][2]>>]) /\ Exp!WaysRight(3, a)
  /\ topic = "trees" =>
       /\ IsInjective(a) => Lnk!TreesRight(a)
       /\ (\A i \in DOMAIN a : a[i] \in 1 .. i) => Exp!CentresRight(a)
  /\ topic = "links" /\ (\A i \in DOMAIN a : a[i] <= Len(a)) =>
       \A head \in 0 .. Len(a) : Lnk!CyclesRight(a, head)
  /\ topic = "words" /\ a # <<>> =>
       \A sentence \in {<<1, 2, 0, 0, 2, 1>>, <<0, 2, 1, 2>>} : Wrd!DictionaryRight(a, sentence, b)
=============================================================================
