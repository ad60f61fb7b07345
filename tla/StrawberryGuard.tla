--------------------------- MODULE StrawberryGuard ---------------------------
(***************************************************************************)
(* adapters/strawberry/guard.py and factory.py: the guards attached to     *)
(* GraphQL fields, the guarded fields of requests on one event loop, the   *)
(* module-level cache of principals they share, and the bindings of the    *)
(* engine they consult.                                                    *)
(*                                                                         *)
(* A task is one call of resolve_async.  Code between two awaits is one    *)
(* step; only the await of adecide is kept apart although it may not       *)
(* suspend, because nothing the tasks share is read after it.  The engine  *)
(* is present by what it shows an adapter: bindings, and a decision that   *)
(* a failed audit write may turn into "audit_unavailable".                 *)
(*                                                                         *)
(* Contexts that compare equal are one context.                            *)
(***************************************************************************)
EXTENDS PolicyDecision, Naturals, FiniteSets

CONSTANTS
  Calls,                             \* tasks, each of which resolves a field
  Requests,                          \* [context, user, operation]
  Guards,                            \* the guards attached to fields
  Handlers,                          \* deny handlers of the host's own
  Contexts,
  Cacheable,                         \* contexts that can be a weak, hashed key
  Loaders,                           \* principal loaders
  Immediate,                         \* the loaders that do not suspend
  Users, Actions, Types, Subjects, TypeOf,
  Policies, Rule,                    \* Rule[policy][<<principal, subject>>]
  Tables,                            \* the engine's bindings after startup
  MaxReplacements,                   \* bound on replace_policy while serving
  None

Operations == {"query", "mutation", "subscription"}
Principals == [loader : Loaders, user : Users]
Pairs == Actions \X Types
Bindings == [policy : Policies, surface : Surfaces]

(* What guards are built from, in a factory or without one.  lazy: the     *)
(* engine is a Lazy, whose resolver may suspend and may raise.             *)
Factories == [loader : Loaders, lazy : BOOLEAN, handler : Handlers \cup {None}]

(* A guard once it is built: handler None is default_deny_handler.         *)
GuardRecords ==
  [loader : Loaders, lazy : BOOLEAN, handler : Handlers \cup {None},
   action : Actions, type : Types, override : Surfaces \cup {None},
   phase : {"before", "after"}, readOnly : BOOLEAN]

(* A denial or an absence as the client sees it.                           *)
Errors ==
  [kind : {"PermissionDenied", "ResourceNotFound"} \cup Handlers,
   message : Reasons \cup {"not_found", "operation_blocked"}]
Result == [kind |-> "value", message |-> None]
Null == [kind |-> "null", message |-> None]
Raised == [kind |-> "raised", message |-> None]
Outcome == Errors \cup {Result, Null, Raised}

ASSUME GuardAssumption ==
  /\ Requests \subseteq [context : Contexts, user : Users, operation : Operations]
  /\ Guards \subseteq GuardRecords
  /\ Cacheable \subseteq Contexts
  /\ Immediate \subseteq Loaders
  /\ TypeOf \in [Subjects -> Types]
  /\ Rule \in [Policies -> [Principals \X Subjects -> Decisions]]
  /\ Tables \subseteq [Pairs -> Bindings \cup {None}]
  /\ MaxReplacements \in Nat
  /\ None \notin Principals \cup Bindings \cup Subjects \cup Surfaces
              \cup Requests \cup Guards \cup Decisions \cup Outcome
  /\ None \notin Handlers \cup Reasons \cup {"not_found", "operation_blocked"}

VARIABLES
  bindings,      \* the engine's table: pair -> binding, or None
  replacements,  \* bindings replaced since requests are served
  cache,         \* _principal_cache: context -> loader -> principal, or None
  pc,            \* per task: the await it is suspended at
  request, guard,
  principal,     \* per task: what _resolve_principal returned
  surface,       \* per task: what _binding_denial_surface returned
  subject,       \* per task: what the subject loader returned
  decision,      \* per task: what the engine decided
  loaded,        \* the tasks that called their principal loader
  before,        \* per task: those whose principal was there when it started
  ran,           \* the tasks whose resolver was started
  outcome        \* per task: what the field became

engine == <<bindings, replacements>>
call == <<request, guard, before>>
vars == <<engine, cache, pc, call, principal, surface, subject, decision,
          loaded, ran, outcome>>

Init ==
  /\ bindings \in Tables
  /\ replacements = 0
  /\ cache = [c \in Contexts |-> [l \in Loaders |-> None]]
  /\ pc = [t \in Calls |-> "idle"]
  /\ request = [t \in Calls |-> None]
  /\ guard = [t \in Calls |-> None]
  /\ principal = [t \in Calls |-> None]
  /\ surface = [t \in Calls |-> None]
  /\ subject = [t \in Calls |-> None]
  /\ decision = [t \in Calls |-> None]
  /\ loaded = {}
  /\ before = [t \in Calls |-> {}]
  /\ ran = {}
  /\ outcome = [t \in Calls |-> None]

(* replace_policy on an engine that is serving.                            *)
Replace(pair, binding) ==
  /\ replacements < MaxReplacements
  /\ replacements' = replacements + 1
  /\ bindings' = [bindings EXCEPT ![pair] = binding]
  /\ UNCHANGED <<cache, pc, call, principal, surface, subject, decision,
                 loaded, ran, outcome>>

Suspend(t, where) ==
  /\ pc' = [pc EXCEPT ![t] = where]
  /\ UNCHANGED outcome

End(t, how) ==
  /\ pc' = [pc EXCEPT ![t] = "ended"]
  /\ outcome' = [outcome EXCEPT ![t] = how]

-----------------------------------------------------------------------------
(* Attaching a guard, while the schema is built.                           *)

Attached(factory, pair, override, phase, readOnly) ==
  [loader |-> factory.loader, lazy |-> factory.lazy, handler |-> factory.handler,
   action |-> pair[1], type |-> pair[2], override |-> override,
   phase |-> phase, readOnly |-> readOnly]

(* policy_guard takes exactly one subject loader; any other number of them *)
(* is a ConfigurationError, and no field is guarded: None.                 *)
PolicyGuard(factory, pair, loaders, override) ==
  IF Cardinality(loaders) # 1 THEN None
  ELSE IF loaders = {"load_subject_after"}
       THEN Attached(factory, pair, override, "after", TRUE)
       ELSE Attached(factory, pair, override, "before", FALSE)

PostResolutionPolicyGuard(factory, pair, readOnly, override) ==
  Attached(factory, pair, override, "after", readOnly)

(* A factory's methods: the factory with its handler, or with the one of   *)
(* this attachment.                                                        *)
HandledBy(factory, handler) ==
  IF handler = None THEN factory ELSE [factory EXCEPT !.handler = handler]

FactoryGuard(factory, pair, loaders, handler, override) ==
  PolicyGuard(HandledBy(factory, handler), pair, loaders, override)

FactoryPostResolutionGuard(factory, pair, handler, readOnly, override) ==
  PostResolutionPolicyGuard(HandledBy(factory, handler), pair, readOnly, override)

-----------------------------------------------------------------------------
(* From the engine to the first await after it.                            *)

BindingFor(action, type) == bindings[<<action, type>>]

DenialSurface(g) ==
  LET binding == BindingFor(g.action, g.type)
  IN IF g.override # None THEN g.override
     ELSE IF binding = None THEN "forbidden" ELSE binding.surface

(* Slip: read_only=False opts out of both refusals.                        *)
RefusedUnlessOptedOut(g, op) ==
  g.phase = "after" /\ g.readOnly /\ op \in {"mutation", "subscription"}

Refused(g, op) ==
  /\ g.phase = "after"
  /\ op = "subscription" \/ (g.readOnly /\ op = "mutation")

Enter(t, g, op) ==
  /\ surface' = [surface EXCEPT ![t] = DenialSurface(g)]
  /\ \/ /\ Refused(g, op)
        /\ End(t, [kind |-> "PermissionDenied", message |-> "operation_blocked"])
        /\ UNCHANGED ran
     \/ /\ g.phase = "after" /\ ~Refused(g, op)
        /\ Suspend(t, "resolving")
        /\ ran' = ran \cup {t}
     \/ /\ g.phase = "before"
        /\ Suspend(t, "fetching")
        /\ UNCHANGED ran

ResolveEngine(t, g, op) ==
  \/ /\ ~g.lazy
     /\ Enter(t, g, op)
  \/ /\ g.lazy
     /\ Suspend(t, "connecting")
     /\ UNCHANGED <<surface, ran>>

EngineResolved(t) ==
  /\ pc[t] = "connecting"
  /\ Enter(t, guard[t], request[t].operation)
  /\ UNCHANGED <<engine, cache, call, principal, subject, decision, loaded>>

-----------------------------------------------------------------------------
(* _resolve_principal.                                                     *)

(* Slip: one principal per context, whatever loader made it.               *)
CachedForAnyLoader(q, g) ==
  IF \E l \in Loaders : cache[q.context][l] # None
  THEN CHOOSE p \in Principals : \E l \in Loaders : cache[q.context][l] = p
  ELSE None

Cached(q, g) == cache[q.context][g.loader]

(* Slip: the principal is not kept.                                        *)
RememberNothing(q, g, p) == UNCHANGED cache

(* A context that cannot be a weak key is not remembered.                  *)
Remember(q, g, p) ==
  cache' = [cache EXCEPT ![q.context][g.loader] =
              IF q.context \in Cacheable THEN p ELSE @]

Start(t, q, g) ==
  /\ pc[t] = "idle"
  /\ request' = [request EXCEPT ![t] = q]
  /\ guard' = [guard EXCEPT ![t] = g]
  /\ before' = [before EXCEPT ![t] = {u \in Calls : principal[u] # None}]
  /\ UNCHANGED <<engine, subject, decision>>

Reuse(t, q, g) ==
  /\ Start(t, q, g)
  /\ Cached(q, g) # None
  /\ principal' = [principal EXCEPT ![t] = Cached(q, g)]
  /\ ResolveEngine(t, g, q.operation)
  /\ UNCHANGED <<cache, loaded>>

Load(t, q, g) ==
  /\ Start(t, q, g)
  /\ Cached(q, g) = None
  /\ loaded' = loaded \cup {t}

LoadAtOnce(t, q, g) ==
  /\ g.loader \in Immediate
  /\ Load(t, q, g)
  /\ LET p == [loader |-> g.loader, user |-> q.user]
     IN /\ principal' = [principal EXCEPT ![t] = p]
        /\ Remember(q, g, p)
  /\ ResolveEngine(t, g, q.operation)

LoadLater(t, q, g) ==
  /\ g.loader \notin Immediate
  /\ Load(t, q, g)
  /\ Suspend(t, "loading")
  /\ UNCHANGED <<cache, principal, surface, ran>>

(* The loader raises before it suspends.                                   *)
LoadRaises(t, q, g) ==
  /\ Load(t, q, g)
  /\ End(t, Raised)
  /\ UNCHANGED <<cache, principal, surface, ran>>

PrincipalLoaded(t) ==
  /\ pc[t] = "loading"
  /\ LET p == [loader |-> guard[t].loader, user |-> request[t].user]
     IN /\ principal' = [principal EXCEPT ![t] = p]
        /\ Remember(request[t], guard[t], p)
  /\ ResolveEngine(t, guard[t], request[t].operation)
  /\ UNCHANGED <<engine, call, subject, decision, loaded>>

-----------------------------------------------------------------------------
(* The subject, the decision and its enforcement.                          *)

(* Slip: the error under NOT_FOUND carries the reason, like any other.     *)
HandlerTellsReason(h, reason, where) ==
  [kind |-> IF h # None THEN h
            ELSE IF where = "not_found" THEN "ResourceNotFound" ELSE "PermissionDenied",
   message |-> reason]

(* The error a denial raises, or an absence, which is always NOT_FOUND.    *)
(* A host's handler is held to the contract of DenyHandler: what it tells  *)
(* under NOT_FOUND does not depend on the reason.                          *)
Handler(h, reason, where) ==
  [kind |-> IF h # None THEN h
            ELSE IF where = "not_found" THEN "ResourceNotFound" ELSE "PermissionDenied",
   message |-> IF where = "not_found" THEN "not_found" ELSE reason]

ResolverReturns(t) ==
  /\ pc[t] = "resolving"
  /\ \/ /\ guard[t].phase = "after"
        /\ Suspend(t, "fetching")
     \/ /\ guard[t].phase = "before"
        /\ End(t, Result)
  /\ UNCHANGED <<engine, cache, call, principal, surface, subject, decision,
                 loaded, ran>>

SubjectAbsent(t) ==
  /\ pc[t] = "fetching"
  /\ End(t, Handler(guard[t].handler,
                    IF guard[t].phase = "after" THEN "subject_post_resolution_missing"
                    ELSE "subject_not_found", "not_found"))
  /\ UNCHANGED <<engine, cache, call, principal, surface, subject, decision,
                 loaded, ran>>

Verdict(binding, p, s) ==
  IF binding = None THEN Deny("policy_not_registered")
  ELSE Rule[binding.policy][<<p, s>>]

(* adecide looks the binding up by the type the subject really has.        *)
SubjectFetched(t, s) ==
  /\ pc[t] = "fetching"
  /\ subject' = [subject EXCEPT ![t] = s]
  /\ decision' = [decision EXCEPT ![t] =
       Verdict(bindings[<<guard[t].action, TypeOf[s]>>], principal[t], s)]
  /\ Suspend(t, "deciding")
  /\ UNCHANGED <<engine, cache, call, principal, surface, loaded, ran>>

(* Allowed: the resolver's result is ready, or the resolver is started; it *)
(* may return a value or a stream at once.                                 *)
Allowed(t) ==
  /\ pc[t] = "deciding"
  /\ decision[t].allowed
  /\ \/ /\ guard[t].phase = "after"
        /\ End(t, Result)
        /\ UNCHANGED ran
     \/ /\ guard[t].phase = "before"
        /\ ran' = ran \cup {t}
        /\ Suspend(t, "resolving") \/ End(t, Result)
  /\ UNCHANGED <<engine, cache, call, principal, surface, subject, decision,
                 loaded>>

(* Slip: NULL lets the value through that the resolver returned.           *)
DenialShowingValue(t, reason) ==
  IF surface[t] = "null" THEN Result ELSE Handler(guard[t].handler, reason, surface[t])

(* A stream cannot be redacted: NULL falls back to FORBIDDEN there.        *)
Denial(t, reason) ==
  IF surface[t] # "null" THEN Handler(guard[t].handler, reason, surface[t])
  ELSE IF guard[t].phase = "before" /\ request[t].operation = "subscription"
       THEN Handler(guard[t].handler, reason, "forbidden")
       ELSE Null

Denied(t) ==
  /\ pc[t] = "deciding"
  /\ \E reason \in {decision[t].reason, "audit_unavailable"} \ {NoReason} :
       End(t, Denial(t, reason))
  /\ UNCHANGED <<engine, cache, call, principal, surface, subject, decision,
                 loaded, ran>>

(* Whatever a task awaits may raise, CancelledError among others.          *)
Abandon(t) ==
  /\ pc[t] \notin {"idle", "ended"}
  /\ End(t, Raised)
  /\ UNCHANGED <<engine, cache, call, principal, surface, subject, decision,
                 loaded, ran>>

-----------------------------------------------------------------------------
Begins(t) ==
  \E q \in Requests, g \in Guards :
    Reuse(t, q, g) \/ LoadAtOnce(t, q, g) \/ LoadLater(t, q, g) \/ LoadRaises(t, q, g)

Continues(t) ==
  \/ PrincipalLoaded(t)
  \/ EngineResolved(t)
  \/ ResolverReturns(t)
  \/ SubjectAbsent(t)
  \/ \E s \in Subjects : SubjectFetched(t, s)
  \/ Allowed(t)
  \/ Denied(t)

Next ==
  \/ \E pair \in Pairs, binding \in Bindings : Replace(pair, binding)
  \/ \E t \in Calls : Begins(t) \/ Continues(t) \/ Abandon(t)

Spec == Init /\ [][Next]_vars

-----------------------------------------------------------------------------
(* What the guard promises.                                                *)

TypeOK ==
  /\ bindings \in [Pairs -> Bindings \cup {None}]
  /\ replacements \in 0 .. MaxReplacements
  /\ cache \in [Contexts -> [Loaders -> Principals \cup {None}]]
  /\ pc \in [Calls -> {"idle", "loading", "connecting", "fetching", "deciding",
                       "resolving", "ended"}]
  /\ request \in [Calls -> Requests \cup {None}]
  /\ guard \in [Calls -> Guards \cup {None}]
  /\ principal \in [Calls -> Principals \cup {None}]
  /\ surface \in [Calls -> Surfaces \cup {None}]
  /\ subject \in [Calls -> Subjects \cup {None}]
  /\ decision \in [Calls -> Decisions \cup {None}]
  /\ loaded \subseteq Calls
  /\ before \in [Calls -> SUBSET Calls]
  /\ ran \subseteq Calls
  /\ outcome \in [Calls -> Outcome \cup {None}]

(* All requests on this context are those of one user.                     *)
OneUser(c) ==
  \A q, r \in Requests : q.context = c /\ r.context = c => q.user = r.user

(* A field decides for a principal its own guard's loader made, though     *)
(* every guard keeps its principals in one cache; and for the principal of *)
(* its own user, though other users' fields run in between, wherever the   *)
(* host gives users contexts of their own or ones nothing is kept for.     *)
PrincipalsAreOwn ==
  \A t \in Calls :
    principal[t] # None =>
      /\ principal[t].loader = guard[t].loader
      /\ OneUser(request[t].context) \/ request[t].context \notin Cacheable
           => principal[t].user = request[t].user

(* The fields of a request share the principal: the loader is called again *)
(* only by a field that overlaps the first call, or where nothing can be   *)
(* remembered.                                                             *)
RepeatedLoadsOverlap ==
  \A t, u \in loaded :
    /\ u \in before[t]
    /\ guard[t].loader = guard[u].loader
    /\ request[t].context = request[u].context
    => request[t].context \notin Cacheable

Grants(t) ==
  /\ subject[t] # None
  /\ \E policy \in Policies : Rule[policy][<<principal[t], subject[t]>>] = ALLOW

(* A resolver is started only after a policy allowed this principal this   *)
(* subject; a post-resolution guard, which starts it first, never does so  *)
(* for a subscription, and for a mutation only when it was opted in.       *)
NothingRunsUnauthorised ==
  \A t \in ran :
    \/ guard[t].phase = "before" /\ Grants(t)
    \/ /\ guard[t].phase = "after"
       /\ request[t].operation # "subscription"
       /\ request[t].operation = "mutation" => ~guard[t].readOnly

(* A client sees the value of a guarded field only when a policy allowed   *)
(* it, and in an engine nobody touched that is the policy bound to the     *)
(* action and the subject's own type.                                      *)
ValuesAreGranted ==
  \A t \in Calls :
    outcome[t] = Result =>
      /\ Grants(t)
      /\ replacements = 0 =>
           LET binding == bindings[<<guard[t].action, TypeOf[subject[t]]>>]
           IN /\ binding # None
              /\ Rule[binding.policy][<<principal[t], subject[t]>>] = ALLOW

(* A denial under NOT_FOUND and an absence look the same to the client,    *)
(* whichever policies denied and whichever guards were asked, as long as   *)
(* their denials go through one handler.                                   *)
DeniedLooksAbsent ==
  \A t, u \in Calls :
    /\ surface[t] = "not_found"
    /\ subject[t] # None
    /\ outcome[t] \notin {None, Result, Raised}
    /\ surface[u] # None
    /\ subject[u] = None
    /\ outcome[u] \notin {None, Raised}
    /\ ~Refused(guard[u], request[u].operation)
    /\ guard[t].handler = guard[u].handler
    => outcome[t] = outcome[u]

-----------------------------------------------------------------------------
(* A statement of the repository that the code does not keep.              *)

(* guard.py:41-43: "a singleton or shared context will defeat caching but  *)
(* cannot leak one user's principal to another user's request".  A shared  *)
(* context that can be a weak key does not defeat caching: the principal   *)
(* loaded for one user is what the next one's field finds (guard.py:145).  *)
PrincipalsAreTheUsers ==
  \A t \in Calls : principal[t] # None => principal[t].user = request[t].user
=============================================================================
