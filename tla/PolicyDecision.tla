--------------------------- MODULE PolicyDecision ---------------------------
(***************************************************************************)
(* The value types every part of pyrmit exchanges: the two-state decision  *)
(* of core/decision.py, the denial surface a binding carries, and the      *)
(* audit outcome a decision is filed under.                                *)
(*                                                                         *)
(* A reason string is a member of a small set.  AppReasons are the strings *)
(* the application's own policies put in deny(...): the library reserves   *)
(* nothing, so AppReasons may overlap EngineReasons.                       *)
(***************************************************************************)
CONSTANT AppReasons

NoReason == "none"

EngineReasons == {"policy_not_registered", "policy_error", "audit_unavailable"}

Reasons == AppReasons \cup EngineReasons

Surfaces == {"forbidden", "null", "not_found"}

(* Decision.__post_init__ refuses every other combination of the fields.   *)
Decisions ==
  {d \in [allowed : BOOLEAN, reason : Reasons \cup {NoReason}] :
      d.allowed <=> d.reason = NoReason}

ALLOW == [allowed |-> TRUE, reason |-> NoReason]

Deny(reason) == [allowed |-> FALSE, reason |-> reason]

Outcomes == {"allowed", "denied", "error"}

OutcomeFor(decision) ==
  IF decision.allowed THEN "allowed"
  ELSE IF decision.reason = "policy_error" THEN "error" ELSE "denied"

ASSUME ReasonsAssumption == NoReason \notin AppReasons
=============================================================================
