SPECIFICATION LiveSpec
CONSTANTS
  N = 2
  Task = {"a", "b", "r"}
  NoTask = NoTask
  Parent <- NestedB
  Joining = {"a"}
  Throwing = {"b"}
INVARIANTS
  QTypeOK
  NothingForgotten
  NestedStaysHome
PROPERTIES
  ImplementsExecutor
  ServedUnlessBlocked
CHECK_DEADLOCK FALSE
