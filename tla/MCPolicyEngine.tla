--------------------------- MODULE MCPolicyEngine ---------------------------
(***************************************************************************)
(* Small instances of PolicyEngine.  Two resource types, one subject each, *)
(* and a type under neither's base for the run about registration, where   *)
(* two threads register, both of them for the documents; a person and a    *)
(* principal the identity callables and one of the policies do not expect. *)
(***************************************************************************)
EXTENDS PolicyEngine

CONSTANTS resource, doc, note, alien, d1, n1, alice, bot, r1, r2, c1, c2,
          grant, refuse, faulty

MCTypeOf == d1 :> doc @@ n1 :> note

MCOwns == r1 :> {doc, alien} \cap Types @@ r2 :> {doc, note}

(* One policy allows, one denies with a reason the engine also gives, one  *)
(* raises on the principal that is not a person.                           *)
MCRule ==
  [policy \in Policies |->
     [q \in Principals \X Subjects |->
        CASE policy = grant -> ALLOW
          [] policy = refuse -> Deny("policy_error")
          [] policy = faulty -> IF q[1] = bot THEN Raises ELSE Deny("not_owner")]]

(* The documents and the notes are resources; the alien is not.            *)
MCAbove ==
  [c \in Classes |-> {c} \cup IF c \in {doc, note} THEN {resource} ELSE {}]

Written(shape, members) == [shape |-> shape, members |-> members]

Unguarded == {Written("absent", <<>>)}

MarkerClass == {Written("class", <<resource>>)}

MarkerAlias == {Written("alias", <<resource>>)}

(* The other forms of subject_base, well formed and not.                   *)
MCBases ==
  Unguarded \cup
  {Written("class", <<resource>>),
   Written("tuple", <<alien, doc>>),
   Written("tuple", <<doc, "alien">>),
   Written("tuple", <<>>),
   Written("alias", <<"alien">>),
   Written("union alias", <<note, doc>>),
   Written("union alias", <<note, "alien">>),
   Written("unsupported", <<>>)}

GenericAlias == {Written("generic alias", <<doc>>)}

EveryOutcome(mode, base) ==
  [mode |-> mode, base |-> base, store |-> TRUE, outcomes |-> Outcomes]

(* The guarded engine is one with deny-on-audit-failure.                   *)
AuditEverything ==
  {EveryOutcome(IF base.shape = "union alias" THEN "deny" ELSE "log", base) :
     base \in Bases}
=============================================================================
