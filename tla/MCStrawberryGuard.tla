-------------------------- MODULE MCStrawberryGuard --------------------------
(***************************************************************************)
(* A small instance of StrawberryGuard: a context of alice's own, one that *)
(* two users share, one they share that cannot be remembered; guards of    *)
(* each kind, from two factories with a loader and a deny handler each.    *)
(***************************************************************************)
EXTENDS StrawberryGuard, TLC

CONSTANTS x, y, z, alice, bob, session, token, article, draft, a1, d1, owner, host, f1, f2

MCTypeOf == [s \in Subjects |-> IF s = a1 THEN article ELSE draft]

MCRequests ==
  {[context |-> x, user |-> alice, operation |-> "subscription"],
   [context |-> y, user |-> alice, operation |-> "mutation"],
   [context |-> y, user |-> bob, operation |-> "query"],
   [context |-> z, user |-> alice, operation |-> "query"],
   [context |-> z, user |-> bob, operation |-> "mutation"]}

(* The policy allows alice the article, and nothing else.                  *)
MCRule ==
  [policy \in Policies |->
     [q \in Principals \X Subjects |->
        IF q[1].user = alice /\ q[2] = a1 THEN ALLOW ELSE Deny("not_owner")]]

Session == [loader |-> session, lazy |-> FALSE, handler |-> None]
Token == [loader |-> token, lazy |-> TRUE, handler |-> host]
Article == <<"read", article>>

(* What the fields of the schema ask for; the last is refused.             *)
MCGuards ==
  {FactoryGuard(Session, Article, {"load_subject_from_source"}, host, None),
   FactoryGuard(Token, Article, {"load_subject"}, None, "null"),
   FactoryGuard(Session, Article, {"load_subject_after"}, None, None),
   FactoryPostResolutionGuard(Token, Article, None, FALSE, None),
   FactoryGuard(Session, Article, {"load_subject", "load_subject_after"}, None, None)}
  \ {None}

(* The article under each surface; the draft unbound, or concealed with    *)
(* the article.                                                            *)
Bound(surf) == [policy |-> owner, surface |-> surf]

MCTables ==
  {[pair \in Pairs |->
      IF pair[2] = article \/ surf = "not_found" THEN Bound(surf) ELSE None] :
        surf \in Surfaces}

Interchangeable == Permutations({f1, f2})
=============================================================================
