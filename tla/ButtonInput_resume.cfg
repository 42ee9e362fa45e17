SPECIFICATION Spec
CONSTANTS
  P = P  C = C  S = S
  Buttons = {P, C}
  Power = P
  Confirm = C
  Arrows = {}
  SleepKey = S
  Keys = {}
  PadButtons = {}
  TapButtons = {}
  FieldShapes = {}
  Repolls = TRUE
  MaxEvents = 2
  MaxTaps = 0
INVARIANTS ReturnIsSeen
CHECK_DEADLOCK FALSE
