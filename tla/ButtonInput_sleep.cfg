SPECIFICATION FairSpec
CONSTANTS
  P = P  C = C  S = S
  Buttons = {P, C}
  Power = P
  Confirm = C
  Arrows = {}
  SleepKey = S
  Keys = {P}
  PadButtons = {P}
  TapButtons = {P}
  FieldShapes = {}
  Repolls = TRUE
  MaxEvents = 1
  MaxTaps = 1
INVARIANTS TypeOK WakesAreCalledFor LevelsHaveAHand PressesAreAsked
PROPERTIES PressesReachTheFirmware CallsWake
CHECK_DEADLOCK FALSE
