------------------------- MODULE MCFastAPIDependency -------------------------
(***************************************************************************)
(* A small instance of FastAPIDependency: two routes to articles, one with *)
(* a null_mapper and one without, loaders that may also return a draft,    *)
(* and a policy that lets alice have the article and nothing else.         *)
(***************************************************************************)
EXTENDS FastAPIDependency, TLC

CONSTANTS plain, mapped, article, draft, a1, d1, alice, bob, owner, q1, q2

MCRoutes ==
  {[id |-> plain, action |-> "read", type |-> article, mapper |-> FALSE],
   [id |-> mapped, action |-> "read", type |-> article, mapper |-> TRUE]}

MCTypeOf == a1 :> article @@ d1 :> draft

MCRule ==
  [policy \in Policies |->
     [q \in Principals \X Subjects |->
        IF q = <<alice, a1>> THEN ALLOW ELSE Deny("not_owner")]]

(* A missing policy is told by the decision's reason, the rest by a detail *)
(* or a reason of the mapper's own.                                        *)
MCMapper ==
  [d \in {d \in Decisions : ~d.allowed} |->
     [status_code |-> CASE d.reason = "audit_unavailable" -> 503
                        [] d.reason = "not_owner" -> 404
                        [] OTHER -> 403,
      reason |-> IF d.reason = "not_owner" THEN "hidden" ELSE None,
      detail |-> IF d.reason = "audit_unavailable" THEN "later" ELSE None]]

Interchangeable == Permutations({q1, q2})
=============================================================================
