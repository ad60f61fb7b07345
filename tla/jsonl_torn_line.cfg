SPECIFICATION Spec
CONSTANTS
  None = None
  Writers = {w1, w2}
  Long = {w1}
  MayCancel = TRUE
  MayFail = FALSE
  MayCrash = FALSE
INVARIANTS
  OneObjectPerLine
CHECK_DEADLOCK FALSE
