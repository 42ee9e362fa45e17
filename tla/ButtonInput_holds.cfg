SPECIFICATION Spec
CONSTANTS
  P = P  C = C  S = S
  Buttons = {P, C}
  Power = P
  Confirm = C
  Arrows = {}
  SleepKey = S
  Keys = {P}
  PadButtons = {}
  TapButtons = {}
  FieldShapes = {"Single", "Multi"}
  Repolls = FALSE
  MaxEvents = 2
  MaxTaps = 0
INVARIANTS HoldsAreCurrent
CHECK_DEADLOCK FALSE
