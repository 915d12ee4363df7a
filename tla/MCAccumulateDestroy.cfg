SPECIFICATION CallerSpec
CONSTANTS
  N = 2
  Task <- Blocks
  NoTask = NoTask
  Parent <- Unnested
  Joining = {}
  Throwing = {}
  SpawnCanFail = FALSE
  Lengths = {3}
  BlockSize = 2
  Item <- Powers
  InitialSum = 100
INVARIANT
  QueuesOutliveWorkers
CHECK_DEADLOCK FALSE
