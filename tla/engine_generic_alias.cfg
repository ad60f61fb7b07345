SPECIFICATION Spec
CONSTANTS
  None = None
  resource = resource  doc = doc  note = note  alien = alien  d1 = d1  n1 = n1
  alice = alice  bot = bot  r1 = r1  r2 = r2  c1 = c1  c2 = c2
  grant = grant  refuse = refuse  faulty = faulty
  AppReasons = {"not_owner", "policy_error"}
  Arguments <- AuditEverything
  Actions = {"read"}
  Types = {doc, note}
  Subjects = {d1, n1}
  TypeOf <- MCTypeOf
  Principals = {alice, bot}
  Policies = {grant}
  Rule <- MCRule
  Classes = {resource, doc, note, alien}
  Others = {"alien"}
  Above <- MCAbove
  Bases <- GenericAlias
  Anonymous = {bot}
  Opaque = {n1}
  CallerMetadata = {"valid"}
  Registrars = {r1, r2}
  Owns <- MCOwns
  Calls = {c1}
  HotReplacement = FALSE
  MaxRegistrations = 1
INVARIANTS
  GenericAliasesAreRefused
CHECK_DEADLOCK FALSE
