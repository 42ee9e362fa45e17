SPECIFICATION Spec
CONSTANTS
  MaxDraws = 2
  MaxFlips = 0
  MaxAsks = 0
  MaxAway = 0
INVARIANTS
  FlashOnlyAfterDeadline
CHECK_DEADLOCK FALSE
