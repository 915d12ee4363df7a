SPECIFICATION CallerLiveSpec
CONSTANTS
  N = 2
  Task <- Blocks
  NoTask = NoTask
  Parent <- Unnested
  Joining = {}
  Throwing = {2}
  SpawnCanFail = FALSE
  Lengths = {0, 1, 2, 3, 4, 5}
  BlockSize = 2
  Item <- Powers
  InitialSum = 100
INVARIANTS
  CallerTypeOK
  SumCorrect
  DrainedBeforeDestroy
PROPERTY
  ExitsOrUnwinds
CHECK_DEADLOCK FALSE
