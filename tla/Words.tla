-------------------------------- MODULE Words --------------------------------
(***************************************************************************)
(* Exercises on words: tries and dictionaries, and the strings and         *)
(* matrices of the interview book.  A letter is a number, 0 the blank.     *)
(* A trie's node is the word that leads to it from the root, <<>>.         *)
(***************************************************************************)
EXTENDS ExerciseBasics, Bitwise

EmptyTrie == [nodes |-> {<<>>}, ends |-> {}]
insert(trie, word) == [nodes |-> trie.nodes \cup Prefixes(word), ends |-> trie.ends \cup {word}]
TrieOf(words) == FoldLeft(insert, EmptyTrie, words)

-----------------------------------------------------------------------------
(* Dictionaries.                                                           *)

search(trie, word) == word \in trie.nodes /\ word \in trie.ends
startsWith(trie, prefix) == prefix \in trie.nodes

\* The words between runs of the blank; a blank at the end leaves no empty word.
RECURSIVE split(_)
split(s) ==
  LET rest == SelectInSeq(s, LAMBDA c : c # 0)
      from == IF rest = 0 THEN <<>> ELSE SubSeq(s, rest, Len(s))
      stop == SelectInSeq(from, LAMBDA c : c = 0)
  IN IF from = <<>> THEN <<>>
     ELSE IF stop = 0 THEN <<from>>
     ELSE <<First(from, stop - 1)>> \o split(SubSeq(from, stop, Len(from)))

\* The shortest beginning that is in the set of the dictionary's words.
ShortenedBySet(dset, word) ==
  LET hits == {i \in 1 .. Len(word) : First(word, i) \in dset} IN IF hits = {} THEN word ELSE First(word, Min(hits))
\* Down the trie until an end, or where there is no further node.
RECURSIVE findPrex(_, _, _)
findPrex(trie, word, node) ==
  LET next == Append(node, word[Len(node) + 1]) IN
    IF Len(node) = Len(word) \/ node \in trie.ends \/ next \notin trie.nodes
    THEN IF node \in trie.ends THEN node ELSE <<>>
    ELSE findPrex(trie, word, next)
Joined(words) == FoldLeft(LAMBDA a, w : IF a = <<>> THEN w ELSE a \o <<0>> \o w, <<>>, words)
replaceWords(dictionary, sentence) ==
  LET dset == ToSet(dictionary)
      words == split(sentence)
  IN Joined([i \in DOMAIN words |-> ShortenedBySet(dset, words[i])])
ReplaceWordsByTrie(dictionary, sentence) ==
  LET trie == TrieOf(dictionary)
      words == split(sentence)
      Short(w) == LET prex == findPrex(trie, w, <<>>) IN IF prex = <<>> THEN w ELSE prex
  IN Joined([i \in DOMAIN words |-> Short(words[i])])

\* A word of the dictionary with exactly one letter changed.
RECURSIVE MagicSearch(_, _, _, _)
MagicSearch(trie, word, node, edit) ==
  /\ node \in trie.nodes
  /\ \/ Len(node) = Len(word) /\ edit = 1 /\ node \in trie.ends
     \/ /\ Len(node) < Len(word) /\ edit <= 1
        /\ \E c \in 1 .. 26 :
             MagicSearch(trie, word, Append(node, c), IF c = word[Len(node) + 1] THEN edit ELSE edit + 1)

\* Words that end other words share their letters; each entry is closed by one more.
minimumLengthEncoding(words) ==
  LET trie == TrieOf([i \in DOMAIN words |-> Reverse(words[i])])
      childless(w) == \A v \in trie.nodes : ~IsStrictPrefix(w, v)
  IN MapThenSumSet(LAMBDA w : Len(w) + 1, {w \in trie.ends : childless(w)})
EncodingBySet(words) ==
  LET Erase(uset, word) == uset \ {SubSeq(word, i, Len(word)) : i \in 2 .. Len(word)}
      left == FoldSet(LAMBDA w, uset : IF w \in uset THEN Erase(uset, w) ELSE uset, ToSet(words), ToSet(words))
  IN MapThenSumSet(LAMBDA w : Len(w) + 1, left)

\* Words on a board: down the trie from every cell, over cells not on the way already.
RECURSIVE WordsFrom(_, _, _, _, _)
WordsFrom(board, st, node, cell, used) ==
  LET here == Append(node, board[cell[1]][cell[2]])
      found == IF here \in st.ends THEN [st EXCEPT !.ends = @ \ {here}, !.valid = @ \cup {here}] ELSE st
      near == {c \in (DOMAIN board) \X (DOMAIN board[1]) : Distance(c[1], cell[1]) + Distance(c[2], cell[2]) = 1}
  IN IF here \notin st.nodes THEN st
     ELSE FoldSet(LAMBDA c, s : WordsFrom(board, s, here, c, used \cup {cell}), found, near \ (used \cup {cell}))
findWords(board, words) ==
  LET trie == TrieOf(words) IN
    FoldSet(LAMBDA c, st : WordsFrom(board, st, <<>>, c, {}),
            [nodes |-> trie.nodes, ends |-> trie.ends, valid |-> {}], (DOMAIN board) \X (DOMAIN board[1])).valid

-----------------------------------------------------------------------------
(* Letters of one word, or of two.                                         *)

\* Stops at the first letter that was met before: by a bit per letter, or a set.
isUnique(s) == \A i \in DOMAIN s : s[i] \notin {s[j] : j \in 1 .. i - 1}

\* One count per letter, up for s1 and down for s2; false as soon as one is short.
CheckPermutation(s1, s2) ==
  /\ Len(s1) = Len(s2)
  /\ \A j \in DOMAIN s2 : HowOften(First(s2, j), s2[j]) <= HowOften(s1, s2[j])
PermutationBySorting(s1, s2) == Len(s1) = Len(s2) /\ Ascending(s1) = Ascending(s2)

\* A letter met again leaves the set; a bit per letter is flipped.
OddLetters(s) == FoldLeft(LAMBDA set, c : IF c \in set THEN set \ {c} ELSE set \cup {c}, {}, s)
canPermutePalindrome(s) == Cardinality(OddLetters(s)) <= 1

\* Past a difference i, j or both go on, by which word is longer; a second one ends it.
RECURSIVE EditWalk(_, _, _, _, _)
EditWalk(first, second, i, j, flag) ==
  LET diff == Len(first) - Len(second)
      same == first[i] = second[j]
      i1 == IF same \/ diff >= 0 THEN i + 1 ELSE i
      j1 == IF same \/ diff <= 0 THEN j + 1 ELSE j
  IN IF i > Len(first) \/ j > Len(second) THEN TRUE
     ELSE (same \/ ~flag) /\ Distance(i1, j1) <= 1 /\ EditWalk(first, second, i1, j1, flag \/ ~same)
oneEditAway(first, second) ==
  Distance(Len(first), Len(second)) <= 1 /\ EditWalk(first, second, 1, 1, FALSE)

RunEnds(s) == SelectSeq(Upto(1, Len(s)), LAMBDA i : i = Len(s) \/ s[i] # s[i + 1])
countCompressLength(s) == 2 * Len(RunEnds(s))        \* as if no run had ten letters
compressString(s) ==
  LET ends == RunEnds(s)
      start(k) == IF k = 1 THEN 0 ELSE ends[k - 1]
      ans == FlattenSeq([k \in DOMAIN ends |-> <<s[ends[k]], ends[k] - start(k)>>])
  IN IF countCompressLength(s) >= Len(s) \/ Len(ans) >= Len(s) THEN s ELSE ans

\* The blank becomes three letters.  The first writes into a text one longer than needed.
Percent == <<37, 50, 48>>
ReplaceByStream(s) == FlattenSeq([i \in DOMAIN s |-> IF s[i] = 0 THEN Percent ELSE <<s[i]>>])
ReplaceIntoText(s) ==
  LET size == Len(s) + 2 * HowOften(s, 0) + 1
      written == FoldLeft(LAMBDA a, c : a \o (IF c = 0 THEN Percent ELSE <<c>>), <<>>, s)
  IN [i \in 1 .. size |-> IF i <= Len(written) THEN written[i] ELSE 0]
\* From the back, into the text itself, which has room for the longer form.
RECURSIVE WriteBack(_, _, _, _)
WriteBack(s, ans, i, j) ==
  IF j = 0 THEN SubSeq(ans, i + 1, Len(ans))
  ELSE IF s[j] = 0 THEN WriteBack(s, [ans EXCEPT ![i] = Percent[3], ![i - 1] = Percent[2], ![i - 2] = Percent[1]], i - 3, j - 1)
  ELSE WriteBack(s, [ans EXCEPT ![i] = s[j]], i - 1, j - 1)
ReplaceInPlace(S, length) == WriteBack(S, S, Len(S), length)

isFlipedString(s1, s2) ==
  /\ Len(s1) = Len(s2)
  /\ s1 = <<>> \/ \E i \in 0 .. Len(s1) - 1 : \A j \in 0 .. Len(s2) - 1 : At(s1, (i + j) % Len(s1)) = At(s2, j)
FlippedByDoubling(s1, s2) ==
  Len(s1) = Len(s2) /\ \E i \in 0 .. Len(s2) : SubSeq(s2 \o s2, i + 1, i + Len(s1)) = s1

-----------------------------------------------------------------------------
(* Matrices, indexed from 0 as the programs do.                            *)

\* Ring after ring, four cells at a time: left to top, bottom to left, right to bottom.
TurnFour(m, start, end, offset) ==
  [m EXCEPT ![<<start, start + offset>>] = m[<<end - offset, start>>],
            ![<<end - offset, start>>] = m[<<end, end - offset>>],
            ![<<end, end - offset>>] = m[<<start + offset, end>>],
            ![<<start + offset, end>>] = m[<<start, start + offset>>]]
rotate(m, N) ==
  LET Ring(a, start) == FoldLeft(LAMBDA b, k : TurnFour(b, start, N - 1 - start, k), a, Upto(0, N - 2 - 2 * start))
  IN FoldLeft(Ring, m, Upto(0, N \div 2))

\* The first column and row remember which are to be cleared; the first column itself apart.
setZeroes(m, M, N) ==
  LET marks == FoldLeft(LAMBDA a, x : IF a[x] = 0 THEN [a EXCEPT ![<<x[1], 0>>] = 0, ![<<0, x[2]>>] = 0] ELSE a, m,
                        [k \in 1 .. M * (N - 1) |-> <<(k - 1) \div (N - 1), 1 + ((k - 1) % (N - 1))>>])
      flag == \E i \in 0 .. M - 1 : m[<<i, 0>>] = 0
      Row(a, i) ==
        LET b == [x \in DOMAIN a |-> IF x[1] = i /\ x[2] > 0 /\ 0 \in {a[<<i, 0>>], a[<<0, x[2]>>]} THEN 0 ELSE a[x]]
        IN IF flag THEN [b EXCEPT ![<<i, 0>>] = 0] ELSE b
  IN FoldLeft(Row, marks, Downto(M - 1, 0))
ZeroesBySets(m) ==
  LET row == {x[1] : x \in {y \in DOMAIN m : m[y] = 0}}
      col == {x[2] : x \in {y \in DOMAIN m : m[y] = 0}}
  IN [x \in DOMAIN m |-> IF x[1] \in row \/ x[2] \in col THEN 0 ELSE m[x]]

-----------------------------------------------------------------------------
(* The first week's practice.                                              *)

\* The right end goes on while the cord reaches, the left end one by one.
maxPoint(arr, L) ==
  LET Window(st, l) ==
        LET r == Largest({st.r} \cup {q \in st.r .. Len(arr) : \A i \in st.r + 1 .. q : arr[i] - arr[l] <= L})
        IN [r |-> r, best |-> Bigger(st.best, r - l + 1)]
  IN FoldLeft(Window, [r |-> 0, best |-> 0], Upto(1, Len(arr))).best

Smear(n) == FoldLeft(LAMBDA x, k : x | (x \div 2 ^ k), n, <<1, 2, 4, 8, 16>>)
tableSizeFor1(n) == IF n - 1 < 0 THEN 1 ELSE Smear(n - 1) + 1
\* Of a power of two this one answers the next.
tableSizeFor(n) == IF Smear(n) <= 0 THEN 1 ELSE Smear(n) + 1

\* Swaps that bring every 1 to the front, or every other to it, in order of their places.
minSteps(s) ==
  LET Walk(st, i) == IF s[i] = 1 THEN [st EXCEPT !.step1 = @ + i - st.gi, !.gi = @ + 1]
                                 ELSE [st EXCEPT !.step2 = @ + i - st.bi, !.bi = @ + 1]
      end == FoldLeft(Walk, [step1 |-> 0, step2 |-> 0, gi |-> 1, bi |-> 1], Upto(1, Len(s)))
  IN Lesser(end.step1, end.step2)

RECURSIVE process(_, _, _)
process(nums, index, rest) ==
  IF index > Len(nums) THEN IF rest = 0 THEN 1 ELSE 0
  ELSE process(nums, index + 1, rest - nums[index]) + process(nums, index + 1, rest + nums[index])
findTargetSumWays(nums, target) == process(nums, 1, target)

-----------------------------------------------------------------------------
(* What the exercises promise.                                             *)

\* A dictionary of words, a sentence with a blank, and a word asked for.
DictionaryRight(words, sentence, w) ==
  LET dset == ToSet(words)
      parts == split(sentence)
      roots(v) == {r \in dset : IsPrefix(r, v)}
      short(v) == IF roots(v) = {} THEN v ELSE CHOOSE r \in roots(v) : \A x \in roots(v) : Len(r) <= Len(x)
      changes(v) == Len(v) = Len(w) /\ Cardinality({i \in DOMAIN v : v[i] # w[i]}) = 1
      apart == {v \in dset : \A x \in dset : ~(IsStrictPrefix(Reverse(v), Reverse(x)))}
  IN /\ search(TrieOf(words), w) = (w \in dset)
     /\ startsWith(TrieOf(words), w) = (w = <<>> \/ \E v \in dset : IsPrefix(w, v))
     /\ <<>> \notin dset /\ parts # <<>> =>
          {replaceWords(words, sentence), ReplaceWordsByTrie(words, sentence)} = {Joined([i \in DOMAIN parts |-> short(parts[i])])}
     /\ MagicSearch(TrieOf(words), w, <<>>, 0) = (\E v \in dset : changes(v))
     /\ <<>> \notin dset => {minimumLengthEncoding(words), EncodingBySet(words)} = {MapThenSumSet(LAMBDA v : Len(v) + 1, apart)}

\* Words found on a board are those that some way of neighbouring cells spells.
BoardRight(board, words) ==
  LET cells == (DOMAIN board) \X (DOMAIN board[1])
      ways(n) == {w \in [1 .. n -> cells] : IsInjective(w) /\ \A i \in 1 .. n - 1 :
                    Distance(w[i][1], w[i + 1][1]) + Distance(w[i][2], w[i + 1][2]) = 1}
  IN findWords(board, words) =
       {v \in ToSet(words) : v # <<>> /\ \E w \in ways(Len(v)) : \A i \in DOMAIN v : board[w[i][1]][w[i][2]] = v[i]}

\* Two words: rearranged, rotated or edited into each other, and what is said of one.
LettersRight(s1, s2) ==
  LET n == Len(s1)
      turns == {[i \in 1 .. n |-> s1[p[i]]] : p \in {f \in [1 .. n -> 1 .. n] : IsInjective(f)}}
      without(s, i) == First(s, i - 1) \o SubSeq(s, i + 1, Len(s))
      oneAway == \/ s1 = s2
                 \/ n = Len(s2) /\ \E i \in 1 .. n : \A j \in 1 .. n : j # i => s1[j] = s2[j]
                 \/ n = Len(s2) + 1 /\ \E i \in 1 .. n : without(s1, i) = s2
                 \/ n + 1 = Len(s2) /\ \E i \in 1 .. n + 1 : without(s2, i) = s1
      url == ReplaceByStream(s1)
      expand[q \in Seq(Nat)] == IF q = <<>> THEN <<>> ELSE [k \in 1 .. q[2] |-> q[1]] \o expand[SubSeq(q, 3, Len(q))]
  IN /\ isUnique(s1) = IsInjective(s1)
     /\ {CheckPermutation(s1, s2), PermutationBySorting(s1, s2)} = {s2 \in turns}
     /\ canPermutePalindrome(s1) = (\E t \in turns : t = Reverse(t))
     /\ oneEditAway(s1, s2) = oneAway
     /\ (compressString(s1) # s1) = (2 * Len(RunEnds(s1)) < n)
     /\ compressString(s1) # s1 => expand[compressString(s1)] = s1
     /\ {isFlipedString(s1, s2), FlippedByDoubling(s1, s2)}
          = {\E k \in 0 .. n : SubSeq(s1, k + 1, n) \o First(s1, k) = s2}
     /\ {url, ReplaceInPlace(s1 \o [k \in 1 .. 2 * HowOften(s1, 0) |-> 0], n)} = {SelectSeq(url, LAMBDA c : c # 0)}
     /\ IsPrefix(url, ReplaceIntoText(s1))

\* A matrix of M rows and N columns.
MatrixRight(m, M, N) ==
  /\ M = N => rotate(m, N) = [x \in DOMAIN m |-> m[<<N - 1 - x[2], x[1]>>]]
  /\ {setZeroes(m, M, N), ZeroesBySets(m)}
       = {[x \in DOMAIN m |-> IF \E y \in DOMAIN m : m[y] = 0 /\ (x[1] = y[1] \/ x[2] = y[2]) THEN 0 ELSE m[x]]}

\* The least power of two that is not below n.  The second program does not answer
\* it for the powers themselves, and is not asked for them.
PowersRight(n) ==
  LET powers == {2 ^ k : k \in 0 .. n}
      least == Min({x \in powers : x >= n})
  IN tableSizeFor1(n) = least /\ (n \notin powers => tableSizeFor(n) = least)

\* Points d under a cord of length t; 1s and others brought together; signs before d.
PracticeRight(d, t) ==
  LET inversions(test(_, _)) == Cardinality({p \in (DOMAIN d) \X (DOMAIN d) : p[1] < p[2] /\ test(d[p[1]], d[p[2]])})
  IN /\ maxPoint(Ascending(d), t) = Largest({0} \cup {Cardinality({j \in DOMAIN d : d[j] \in d[i] .. d[i] + t}) : i \in DOMAIN d})
     /\ minSteps(d) = Lesser(inversions(LAMBDA a, b : a # 1 /\ b = 1), inversions(LAMBDA a, b : a = 1 /\ b # 1))
     /\ findTargetSumWays(d, t)
          = Cardinality({f \in [DOMAIN d -> {-1, 1}] : Total([i \in DOMAIN d |-> f[i] * d[i]]) = t})

=============================================================================
