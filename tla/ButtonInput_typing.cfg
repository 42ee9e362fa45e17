SPECIFICATION Spec
CONSTANTS
  P = P  C = C  S = S  B = B
  Buttons = {P, C, B}
  Power = P
  Confirm = C
  Arrows = {B}
  SleepKey = S
  Keys = {C, S}
  PadButtons = {}
  TapButtons = {}
  FieldShapes = {"Single", "Multi"}
  Repolls = FALSE
  MaxEvents = 2
  MaxTaps = 0
INVARIANTS TextStaysInItsField ClaimIsHeld
PROPERTIES ReturnKeepsItsRoute
CHECK_DEADLOCK FALSE
