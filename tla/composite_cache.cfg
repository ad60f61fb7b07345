SPECIFICATION Spec
CONSTANTS
  None = None
  c1 = c1  c2 = c2  alice = alice
  tier = tier  null = null  stub = stub  remote = remote  cached = cached
  export = export  share = share
  Calls = {c1, c2}
  Composites <- MCComposites
  Shared = cached
  Library = {tier, null, stub}
  Stubs = {stub}
  Tiers = {tier}
  Remotes = {remote}
  Features = {export, share}
  Holds <- MCHolds
  Grants <- MCGrants
  Keys = {alice}
  TTL = 1
  MaxEntries = 1
  MaxTime = 1
  InnerCancels = FALSE
INVARIANTS
  TypeOK
  UnionsAreGranted
  CancellationHasACause
PROPERTIES
  EveryCallEnds
CHECK_DEADLOCK FALSE
