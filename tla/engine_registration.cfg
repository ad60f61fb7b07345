SPECIFICATION Spec
CONSTANTS
  None = None
  resource = resource  doc = doc  note = note  alien = alien  d1 = d1  n1 = n1
  alice = alice  bot = bot  r1 = r1  r2 = r2  c1 = c1  c2 = c2
  grant = grant  refuse = refuse  faulty = faulty
  AppReasons = {"not_owner", "policy_error"}
  Arguments <- AuditEverything
  Actions = {"read"}
  Types = {doc, note, alien}
  Subjects = {d1, n1}
  TypeOf <- MCTypeOf
  Principals = {alice}
  Policies = {grant, faulty}
  Rule <- MCRule
  Classes = {resource, doc, note, alien}
  Others = {"alien"}
  Above <- MCAbove
  Bases <- MCBases
  Anonymous = {}
  Opaque = {n1}
  CallerMetadata = {"valid", "malformed"}
  Registrars = {r1, r2}
  Owns <- MCOwns
  Calls = {c1}
  HotReplacement = TRUE
  MaxRegistrations = 3
INVARIANTS
  TablesWellFormed
  TrailAgreesWithAnswers
PROPERTIES
  NothingIsOverwritten
  RegistrationOnlyAdds
  EveryCallEnds
CHECK_DEADLOCK FALSE
