SPECIFICATION Spec
CONSTANTS
  Client = {c1, c2, c3}
  NoClient = NoClient
  Slots = 2
  Times = 2
INVARIANTS
  TypeOK
  ServerSound
PROPERTIES
  EveryoneGreeted
  NewestServed
CHECK_DEADLOCK FALSE
