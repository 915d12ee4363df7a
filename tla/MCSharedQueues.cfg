SPECIFICATION Spec
CONSTANTS
  Bound = 4
  MaxConsumer = 3
INVARIANTS
  TypeOK
  InOrder
  TokensAndWakeups
PROPERTY
  EverythingConsumed
CHECK_DEADLOCK FALSE
