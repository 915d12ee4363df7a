SPECIFICATION LiveSpec
CONSTANTS
  N = 2
  Task = {"a", "b", "r"}
  NoTask = NoTask
  Parent <- NestedB
  Joining = {"a"}
  Throwing = {"b"}
  SpawnCanFail = TRUE
INVARIANTS
  TypeOK
  NothingTwice
  NothingLost
  OwnDequeFirst
  ScanInBounds
  NobodyLeftBehind
PROPERTIES
  ImplementsExecutor
  ServedUnlessStopped
  WorkersStop
CHECK_DEADLOCK FALSE
