SPECIFICATION Spec
CONSTANTS
  None = None
  plain = plain  mapped = mapped  article = article  draft = draft
  a1 = a1  d1 = d1  alice = alice  bob = bob  owner = owner  q1 = q1  q2 = q2
  AppReasons = {"not_owner"}
  Calls = {q1, q2}
  Routes <- MCRoutes
  Actions = {"read"}
  Types = {article, draft}
  Subjects = {a1, d1}
  TypeOf <- MCTypeOf
  Principals = {alice, bob}
  Policies = {owner}
  Rule <- MCRule
  Mapper <- MCMapper
  Statuses = {403, 404, 503}
  Details = {"hidden", "later"}
  MaxBindings = 3
SYMMETRY Interchangeable
INVARIANTS
  TypeOK
  MapperAtHand
  DeniedLooksAbsent
  ResponsesFollowTheBinding
CHECK_DEADLOCK FALSE
