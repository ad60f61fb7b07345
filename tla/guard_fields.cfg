SPECIFICATION Spec
CONSTANTS
  None = None
  x = x  y = y  z = z  alice = alice  bob = bob
  session = session  token = token
  article = article  draft = draft  a1 = a1  d1 = d1  owner = owner  host = host  f1 = f1  f2 = f2
  AppReasons = {"not_owner"}
  Calls = {f1, f2}
  Requests <- MCRequests
  Guards <- MCGuards
  Handlers = {host}
  Contexts = {x, y, z}
  Cacheable = {x, y}
  Loaders = {session, token}
  Immediate = {token}
  Users = {alice, bob}
  Actions = {"read"}
  Types = {article, draft}
  Subjects = {a1, d1}
  TypeOf <- MCTypeOf
  Policies = {owner}
  Rule <- MCRule
  Tables <- MCTables
  MaxReplacements = 1
SYMMETRY Interchangeable
INVARIANTS
  TypeOK
  PrincipalsAreOwn
  RepeatedLoadsOverlap
  NothingRunsUnauthorised
  ValuesAreGranted
  DeniedLooksAbsent
CHECK_DEADLOCK FALSE
