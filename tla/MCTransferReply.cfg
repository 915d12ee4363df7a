SPECIFICATION Spec
CONSTANTS
  Transfer = {"pay"}
  From <- FromOf
  To <- ToOf
  Amount <- AmountOf
  Opening <- OpeningOf
  IntMax = 15
INVARIANT
  ReplyTellsOutcome
CHECK_DEADLOCK FALSE
