SPECIFICATION Spec
CONSTANTS
  None = None
  Writers = {w1, w2, w3}
  Long = {w1}
  MayCancel = TRUE
  MayFail = TRUE
  MayCrash = TRUE
INVARIANTS
  FileInCallOrder
  OnlyTroubleTearsLines
PROPERTIES
  EveryWriteEnds
  ImplementsContract
CHECK_DEADLOCK FALSE
