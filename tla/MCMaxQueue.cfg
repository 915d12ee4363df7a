SPECIFICATION Spec
CONSTANTS
  Kinds = {"maxQueue"}
  MaxOps = 5
  Repeats = TRUE
  Val = {1, 2, 3}
  Infinite = 99
  Key = {1, 2, 3}
  HeadNode = 0
  TailNode = 4
  Capacity = 2
  Rank = 2
  Letter = {1, 2}
  MaxLetters = 2
  Node = {1, 2, 3, 4}
  Animal = {1, 2, 3}
  Expansion = 2
  ChunkSize = 4
  SizeT = 16
INVARIANT MaxValueIsGreatest
CHECK_DEADLOCK FALSE
