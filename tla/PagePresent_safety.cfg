SPECIFICATION Spec
CONSTANTS
  MaxDraws = 2
  MaxFlips = 1
  MaxAsks = 0
  MaxAway = 0
INVARIANTS
  PlacementFollowsPage
  FlipIsQueued
PROPERTIES
  NoOldPictureComesBack
CHECK_DEADLOCK FALSE
