SPECIFICATION SpecAll
CONSTANTS
  Kinds = {"lru", "lru1", "mockHeap", "simulateHeap", "minStack", "minStack2", "cqueue", "maxQueue", "kthLargest", "trie", "stringStat", "unionSet", "blocks", "unionFind", "foodChain", "memoryPool", "bytePool"}
  MaxOps = 6
  Repeats = FALSE
  Val = {1, 2, 3}
  Infinite = 99
  Key = {1, 2, 3}
  HeadNode = 0
  TailNode = 4
  Capacity = 2
  Rank = 2
  Letter = {1, 2}
  MaxLetters = 2
  Node = {1, 2, 3, 4}
  Animal = {1, 2, 3}
  Expansion = 2
  ChunkSize = 4
  SizeT = 16
INVARIANTS
  AnswersAgree
  PartsConsistent
  ScansAndSortsRight
  TablesRight
  FindsWhatIsThere
CHECK_DEADLOCK FALSE
