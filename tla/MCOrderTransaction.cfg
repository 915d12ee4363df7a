SPECIFICATION Spec
CONSTANTS
  Orders = 2
  Runs = 2
  Again = 1
  MaxChecks = 1
INVARIANTS
  TypeOK
  NoPhantomOrder
PROPERTIES
  OrderArrives
  EverythingSettles
CHECK_DEADLOCK FALSE
