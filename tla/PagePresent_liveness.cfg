SPECIFICATION FairSpec
CONSTANTS
  MaxDraws = 1
  MaxFlips = 1
  MaxAsks = 1
  MaxAway = 1
PROPERTIES
  FramesLand
  FlipsLand
  PlacementLands
CHECK_DEADLOCK FALSE
