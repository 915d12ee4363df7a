SPECIFICATION CallerLiveSpec
CONSTANTS
  N = 1
  Task <- Blocks
  NoTask = NoTask
  Parent <- Unnested
  Joining = {}
  Throwing = {}
  SpawnCanFail = TRUE
  Lengths = {3}
  BlockSize = 2
  Item <- Powers
  InitialSum = 100
PROPERTY
  FunctionExits
CHECK_DEADLOCK FALSE
