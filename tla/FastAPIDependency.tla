-------------------------- MODULE FastAPIDependency --------------------------
(***************************************************************************)
(* adapters/fastapi/dependency.py: the routes require_policy guards, the   *)
(* requests served through them on one event loop, and the bindings of the *)
(* engine they consult, which may be registered or replaced before and     *)
(* after a route is built.                                                 *)
(*                                                                         *)
(* A task is one call of _dep.  Code between two awaits is one step; the   *)
(* engine is present by what it shows an adapter: bindings, and a decision *)
(* that a failed audit write may turn into "audit_unavailable".            *)
(***************************************************************************)
EXTENDS PolicyDecision, Naturals

CONSTANTS
  Calls,                         \* request tasks
  Routes,                        \* [id, action, type, mapper]
  Actions, Types, Subjects, TypeOf, Principals,
  Policies, Rule,                \* Rule[policy][<<principal, subject>>]
  Mapper,                        \* the null_mapper: a denial -> an HttpDenial
  Statuses, Details,             \* what HttpDenials are made of
  MaxBindings,                   \* bound on policy() and replace_policy()
  None

Pairs == Actions \X Types
Bindings == [policy : Policies, surface : Surfaces]
PairOf(r) == <<r.action, r.type>>

HttpDenials ==
  [status_code : Statuses, reason : Details \cup {None}, detail : Details \cup {None}]

(* A response by its status and what its body tells beyond that.           *)
Response(status, body) == [status |-> status, body |-> body]
Pass == Response(200, None)
NotFound == Response(404, "NOT_FOUND")
Raised == Response(500, None)
AssertionFailed == Response(500, "assertion")

Responses ==
  {Pass, NotFound, Raised, AssertionFailed}
    \cup [status : {403}, body : Reasons]
    \cup [status : Statuses, body : Details \cup Reasons]

ASSUME DependencyAssumption ==
  /\ \A r \in Routes : PairOf(r) \in Pairs /\ r.mapper \in BOOLEAN
  /\ TypeOf \in [Subjects -> Types]
  /\ Rule \in [Policies -> [Principals \X Subjects -> Decisions]]
  /\ Mapper \in [{d \in Decisions : ~d.allowed} -> HttpDenials]
  /\ MaxBindings \in Nat
  /\ "assertion" \notin Details \cup Reasons \cup {None}
  /\ None \notin Bindings \cup Surfaces \cup Principals \cup Subjects
              \cup Decisions \cup Routes \cup Details \cup Reasons \cup Responses

VARIABLES
  bindings,   \* the engine's table: pair -> binding, or None
  bound,      \* registrations and replacements so far
  surface,    \* per route: what require_policy captured, "refused", or None
  touched,    \* the built routes whose pair was bound or replaced since
  pc,         \* per task: the await it is suspended at
  route, principal, subject,
  decision,   \* per task: what the policy decided
  response    \* per task: what the client receives, or None

engine == <<bindings, bound, touched>>
vars == <<engine, surface, pc, route, principal, subject, decision, response>>

Init ==
  /\ bindings = [pair \in Pairs |-> None]
  /\ bound = 0
  /\ surface = [r \in Routes |-> None]
  /\ touched = {}
  /\ pc = [t \in Calls |-> "idle"]
  /\ route = [t \in Calls |-> None]
  /\ principal = [t \in Calls |-> None]
  /\ subject = [t \in Calls |-> None]
  /\ decision = [t \in Calls |-> None]
  /\ response = [t \in Calls |-> None]

(* policy(), or replace_policy() at any time.                              *)
Bind(pair, binding) ==
  /\ bound < MaxBindings
  /\ bound' = bound + 1
  /\ bindings' = [bindings EXCEPT ![pair] = binding]
  /\ touched' = touched \cup {r \in Routes : surface[r] # None /\ PairOf(r) = pair}
  /\ UNCHANGED <<surface, pc, route, principal, subject, decision, response>>

BindingFor(action, type) == bindings[<<action, type>>]

(* Slip: a pair nobody registered conceals its subjects.                   *)
BindingDenialSurfaceConcealing(r) ==
  LET binding == BindingFor(r.action, r.type)
  IN IF binding = None THEN "not_found" ELSE binding.surface

BindingDenialSurface(r) ==
  LET binding == BindingFor(r.action, r.type)
  IN IF binding = None THEN "forbidden" ELSE binding.surface

(* require_policy: NULL without a null_mapper is a ConfigurationError, and *)
(* there is no dependency.                                                 *)
RequirePolicy(r) ==
  /\ surface[r] = None
  /\ surface' = [surface EXCEPT ![r] =
       IF BindingDenialSurface(r) = "null" /\ ~r.mapper THEN "refused"
       ELSE BindingDenialSurface(r)]
  /\ UNCHANGED <<engine, pc, route, principal, subject, decision, response>>

-----------------------------------------------------------------------------
(* _dep.                                                                   *)

Suspend(t, where) ==
  /\ pc' = [pc EXCEPT ![t] = where]
  /\ UNCHANGED response

End(t, what) ==
  /\ pc' = [pc EXCEPT ![t] = "ended"]
  /\ response' = [response EXCEPT ![t] = what]

Receive(t, r) ==
  /\ pc[t] = "idle"
  /\ surface[r] \in Surfaces
  /\ route' = [route EXCEPT ![t] = r]
  /\ Suspend(t, "authenticating")
  /\ UNCHANGED <<engine, surface, principal, subject, decision>>

PrincipalLoaded(t, p) ==
  /\ pc[t] = "authenticating"
  /\ principal' = [principal EXCEPT ![t] = p]
  /\ Suspend(t, "fetching")
  /\ UNCHANGED <<engine, surface, route, subject, decision>>

SubjectAbsent(t) ==
  /\ pc[t] = "fetching"
  /\ End(t, NotFound)
  /\ UNCHANGED <<engine, surface, route, principal, subject, decision>>

Verdict(binding, p, s) ==
  IF binding = None THEN Deny("policy_not_registered")
  ELSE Rule[binding.policy][<<p, s>>]

(* adecide looks the binding up now, by the type the subject really has.   *)
SubjectFetched(t, s) ==
  /\ pc[t] = "fetching"
  /\ subject' = [subject EXCEPT ![t] = s]
  /\ decision' = [decision EXCEPT ![t] =
       Verdict(bindings[<<route[t].action, TypeOf[s]>>], principal[t], s)]
  /\ Suspend(t, "deciding")
  /\ UNCHANGED <<engine, surface, route, principal>>

Allowed(t) ==
  /\ pc[t] = "deciding"
  /\ decision[t].allowed
  /\ End(t, Pass)
  /\ UNCHANGED <<engine, surface, route, principal, subject, decision>>

(* Slip: the reason of the decision never stands in for a missing detail.  *)
DetailOfDenialOnly(denial, reason) ==
  IF denial.detail # None THEN denial.detail ELSE denial.reason

DetailOf(denial, reason) ==
  IF denial.detail # None THEN denial.detail
  ELSE IF denial.reason # None THEN denial.reason
  ELSE reason

(* Slip: the surface is asked for when it is needed.                       *)
SurfaceReadLate(r) == BindingDenialSurface(r)

SurfaceOf(r) == surface[r]

(* Slip: the 404 of a denial tells its reason.                             *)
DenialTellingReason(captured, r, reason) ==
  CASE captured = "forbidden" -> Response(403, reason)
    [] captured = "not_found" -> Response(404, reason)
    [] captured = "null" -> IF r.mapper THEN NotFound ELSE AssertionFailed

Denial(captured, r, reason) ==
  CASE captured = "forbidden" -> Response(403, reason)
    [] captured = "not_found" -> NotFound
    [] captured = "null" ->
         IF ~r.mapper THEN AssertionFailed
         ELSE LET denial == Mapper[Deny(reason)]
              IN Response(denial.status_code, DetailOf(denial, reason))

Denied(t) ==
  /\ pc[t] = "deciding"
  /\ \E reason \in {decision[t].reason, "audit_unavailable"} \ {NoReason} :
       End(t, Denial(SurfaceOf(route[t]), route[t], reason))
  /\ UNCHANGED <<engine, surface, route, principal, subject, decision>>

(* Whatever a task awaits may raise, CancelledError among others.          *)
Abandon(t) ==
  /\ pc[t] \in {"authenticating", "fetching", "deciding"}
  /\ End(t, Raised)
  /\ UNCHANGED <<engine, surface, route, principal, subject, decision>>

-----------------------------------------------------------------------------
Next ==
  \/ \E pair \in Pairs, binding \in Bindings : Bind(pair, binding)
  \/ \E r \in Routes : RequirePolicy(r)
  \/ \E t \in Calls :
       \/ \E r \in Routes : Receive(t, r)
       \/ \E p \in Principals : PrincipalLoaded(t, p)
       \/ SubjectAbsent(t)
       \/ \E s \in Subjects : SubjectFetched(t, s)
       \/ Allowed(t)
       \/ Denied(t)
       \/ Abandon(t)

Spec == Init /\ [][Next]_vars

-----------------------------------------------------------------------------
(* What the dependency promises.                                           *)

(* Types; in particular every 403 and every mapped denial has a body.      *)
TypeOK ==
  /\ bindings \in [Pairs -> Bindings \cup {None}]
  /\ bound \in 0 .. MaxBindings
  /\ surface \in [Routes -> Surfaces \cup {"refused", None}]
  /\ touched \subseteq Routes
  /\ pc \in [Calls -> {"idle", "authenticating", "fetching", "deciding", "ended"}]
  /\ route \in [Calls -> Routes \cup {None}]
  /\ principal \in [Calls -> Principals \cup {None}]
  /\ subject \in [Calls -> Subjects \cup {None}]
  /\ decision \in [Calls -> Decisions \cup {None}]
  /\ response \in [Calls -> Responses \cup {None}]

(* The assertion in _dep, "narrow: validated at startup", never fails:     *)
(* whatever is bound after the route was built, a denial that needs the    *)
(* mapper finds one.                                                       *)
MapperAtHand == \A t \in Calls : response[t] # AssertionFailed

(* On a route that conceals, a denied subject and a missing one are the    *)
(* same response to the client, whoever asks and whatever the policies of  *)
(* the two requests say.                                                   *)
DeniedLooksAbsent ==
  \A t, u \in Calls :
    /\ response[t] \notin {None, Raised, Pass}
    /\ response[u] \notin {None, Raised}
    /\ surface[route[t]] = "not_found"
    /\ subject[t] # None
    /\ principal[u] # None
    /\ subject[u] = None
    => response[t] = response[u]

(* dependency.py:3-5, for routes built after their policy: as long as the  *)
(* binding of a route is the one the route was built with, a request for a *)
(* subject of the route's type passes only if that binding's policy allows *)
(* it, and is refused the way that binding's surface says.                 *)
ResponsesFollowTheBinding ==
  \A t \in Calls :
    /\ response[t] \notin {None, Raised}
    /\ route[t] \notin touched
    /\ subject[t] # None
    /\ TypeOf[subject[t]] = route[t].type
    => LET binding == bindings[PairOf(route[t])]
           verdict == Verdict(binding, principal[t], subject[t])
           told == {verdict.reason, "audit_unavailable"} \ {NoReason}
       IN \/ verdict = ALLOW /\ response[t] = Pass
          \/ /\ IF binding = None THEN TRUE ELSE binding.surface = "forbidden"
             /\ response[t].status = 403
             /\ response[t].body \in told
          \/ /\ binding # None
             /\ binding.surface = "not_found"
             /\ response[t].status = 404
          \/ /\ binding # None
             /\ binding.surface = "null"
             /\ \E reason \in told :
                  response[t].status = Mapper[Deny(reason)].status_code

-----------------------------------------------------------------------------
(* The inductive invariant the theorems rest on.                           *)

(* A route that serves has a mapper if it may need one, and as long as its *)
(* binding stands its surface is the binding's.                            *)
RoutesAreReady ==
  \A r \in Routes : surface[r] \in Surfaces =>
    /\ surface[r] = "null" => r.mapper
    /\ r \notin touched => surface[r] = BindingDenialSurface(r)

(* What a request has at each await.                                       *)
CallsInOrder ==
  \A t \in Calls :
    /\ pc[t] # "idle" => route[t] \in Routes /\ surface[route[t]] \in Surfaces
    /\ pc[t] # "ended" => response[t] = None
    /\ pc[t] \in {"fetching", "deciding"} => principal[t] \in Principals
    /\ pc[t] \in {"idle", "authenticating"} => principal[t] = None
    /\ pc[t] \in {"idle", "authenticating", "fetching"} => subject[t] = None
    /\ pc[t] = "deciding" => subject[t] \in Subjects
    /\ subject[t] # None => principal[t] \in Principals /\ decision[t] \in Decisions

(* While the binding stands, the decision is what its policy says.         *)
DecisionsFollowTheBinding ==
  \A t \in Calls :
    /\ subject[t] # None
    /\ route[t] \notin touched
    /\ TypeOf[subject[t]] = route[t].type
    => decision[t] = Verdict(bindings[PairOf(route[t])], principal[t], subject[t])

(* A response passes the decision on, or a failure of the audit.           *)
ResponsesTellTheDecision ==
  \A t \in Calls :
    response[t] \notin {None, Raised} =>
      IF subject[t] = None THEN response[t] = NotFound
      ELSE \/ decision[t].allowed /\ response[t] = Pass
           \/ \E reason \in {decision[t].reason, "audit_unavailable"} \ {NoReason} :
                response[t] = Denial(surface[route[t]], route[t], reason)

Inv ==
  /\ TypeOK
  /\ RoutesAreReady
  /\ CallsInOrder
  /\ DecisionsFollowTheBinding
  /\ ResponsesTellTheDecision
=============================================================================
