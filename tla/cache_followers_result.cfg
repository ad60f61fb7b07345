SPECIFICATION Spec
CONSTANTS
  None = None
  Keys = {alice}
  Tasks = {t1, t2, t3}
  TTL = 1
  MaxEntries = 1
  MaxTime = 1
  InnerCancels = FALSE
INVARIANTS
  FollowersReceiveTheResult
CHECK_DEADLOCK FALSE
