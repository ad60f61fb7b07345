SPECIFICATION Spec
CONSTANTS
  None = None
  Keys = {alice, bob}
  Tasks = {t1, t2, t3}
  TTL = 2
  MaxEntries = 1
  MaxTime = 2
  InnerCancels = FALSE
INVARIANTS
  TypeOK
  OneLoadPerKey
  TroubleStaysInTheFlight
  CacheWellFormed
  ValuesAreFresh
PROPERTIES
  ImplementsSharedLoads
  EveryCallEnds
CHECK_DEADLOCK FALSE
