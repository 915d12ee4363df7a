SPECIFICATION LiveSpec
CONSTANTS
  Transfer = {"pay", "lost", "back", "ghost"}
  From <- FromOf
  To <- ToOf
  Amount <- AmountOf
  Opening <- OpeningOf
  IntMax = 15
INVARIANTS
  TypeOK
  NeverOverdrawn
  Ledger
  NothingVanishes
PROPERTY
  CallsComplete
CHECK_DEADLOCK FALSE
