------------------------ MODULE StrawberryGuardProofs ------------------------
(***************************************************************************)
(* The guards keep their promises for every set of requests, guards,       *)
(* loaders, handlers and policies, every number of fields, and bindings    *)
(* replaced at any time.                                                   *)
(***************************************************************************)
EXTENDS StrawberryGuard, TLAPS

-----------------------------------------------------------------------------
(* The inductive invariant.                                                *)

(* What a field has and has not, at each of its awaits.                    *)
InOrder(t) ==
  /\ pc[t] = "idle" =>
       /\ principal[t] = None /\ surface[t] = None /\ subject[t] = None
       /\ t \notin loaded \cup ran
  /\ pc[t] # "idle" => request[t] \in Requests /\ guard[t] \in Guards
  /\ pc[t] = "loading" => principal[t] = None /\ t \in loaded
  /\ pc[t] \in {"loading", "connecting"} => t \notin ran
  /\ pc[t] \in {"connecting", "fetching", "deciding", "resolving"} =>
       principal[t] \in Principals
  /\ pc[t] \in {"fetching", "deciding", "resolving"} => surface[t] \in Surfaces
  /\ pc[t] \in {"loading", "connecting", "fetching"} => subject[t] = None
  /\ pc[t] = "deciding" => subject[t] \in Subjects
  /\ pc[t] = "resolving" =>
       IF guard[t].phase = "after" THEN subject[t] = None
       ELSE subject[t] # None /\ decision[t].allowed
  /\ pc[t] # "ended" => outcome[t] = None

(* A decision is a policy's, and the bound policy's while nobody replaces  *)
(* bindings.                                                               *)
DecidedByRule(t) ==
  subject[t] # None =>
    /\ principal[t] \in Principals
    /\ surface[t] \in Surfaces
    /\ decision[t] \in Decisions
    /\ decision[t].allowed => Grants(t)
    /\ replacements = 0 =>
         decision[t] = Verdict(bindings[<<guard[t].action, TypeOf[subject[t]]>>],
                               principal[t], subject[t])

(* What a field became tells how far it came: refused, without a subject,  *)
(* allowed or denied.                                                      *)
OutcomeTells(t) ==
  outcome[t] \notin {None, Raised} =>
    IF subject[t] = None
    THEN \/ /\ Refused(guard[t], request[t].operation)
            /\ outcome[t].kind = "PermissionDenied"
            /\ outcome[t].message = "operation_blocked"
         \/ outcome[t] = Handler(guard[t].handler, NoReason, "not_found")
    ELSE \/ decision[t].allowed /\ outcome[t] = Result
         \/ \E reason \in Reasons : outcome[t] = Denial(t, reason)

(* A resolver that was started was authorised, one field at a time.        *)
RanAuthorised(t) ==
  t \in ran =>
    \/ guard[t].phase = "before" /\ Grants(t)
    \/ /\ guard[t].phase = "after"
       /\ request[t].operation # "subscription"
       /\ request[t].operation = "mutation" => ~guard[t].readOnly

FieldInv == \A t \in Calls :
  InOrder(t) /\ DecidedByRule(t) /\ OutcomeTells(t) /\ RanAuthorised(t)

(* The cache holds, per context and loader, what that loader made for a    *)
(* field of that context.                                                  *)
CacheIsOwn ==
  \A c \in Contexts, l \in Loaders :
    cache[c][l] # None =>
      /\ c \in Cacheable
      /\ \E u \in loaded :
           /\ request[u].context = c
           /\ guard[u].loader = l
           /\ cache[c][l] = [loader |-> l, user |-> request[u].user]

(* A load that ended is remembered where it can be, and earlier fields are *)
(* those whose principal was there.                                        *)
LoadsAreRemembered ==
  /\ \A u \in loaded :
       principal[u] # None /\ request[u].context \in Cacheable =>
         cache[request[u].context][guard[u].loader] # None
  /\ \A t, u \in Calls : u \in before[t] => principal[u] # None

(* A principal was loaded by its field's own loader, in its field's own    *)
(* context, and for another field only where the context remembers it.     *)
PrincipalsWereLoaded ==
  \A t \in Calls :
    principal[t] # None =>
      /\ principal[t].loader = guard[t].loader
      /\ \E u \in loaded :
           /\ request[u].user = principal[t].user
           /\ guard[u].loader = guard[t].loader
           /\ request[u].context = request[t].context
           /\ u # t => request[t].context \in Cacheable

SharingInv ==
  /\ CacheIsOwn
  /\ LoadsAreRemembered
  /\ PrincipalsWereLoaded
  /\ RepeatedLoadsOverlap

Inv == TypeOK /\ FieldInv /\ SharingInv

-----------------------------------------------------------------------------
(* Facts about the constants and the operators.                            *)

LEMMA NoneIsNew ==
  /\ None \notin Bindings
  /\ None \notin Surfaces
  /\ None \notin Principals
  /\ None \notin Subjects
  /\ None \notin Requests
  /\ None \notin Guards
  /\ None \notin Decisions
  /\ None \notin Outcome
  /\ None \notin Reasons
BY GuardAssumption

LEMMA RequestFields ==
  ASSUME NEW q \in Requests
  PROVE  q.context \in Contexts /\ q.user \in Users /\ q.operation \in Operations
BY GuardAssumption

LEMMA GuardFields ==
  ASSUME NEW g \in Guards
  PROVE  /\ g.loader \in Loaders
         /\ g.lazy \in BOOLEAN
         /\ g.handler \in Handlers \cup {None}
         /\ <<g.action, g.type>> \in Pairs
         /\ g.action \in Actions
         /\ g.override \in Surfaces \cup {None}
         /\ g.phase \in {"before", "after"}
         /\ g.readOnly \in BOOLEAN
BY GuardAssumption DEF GuardRecords, Pairs

LEMMA DenyType ==
  ASSUME NEW reason \in Reasons
  PROVE  Deny(reason) \in Decisions /\ ~Deny(reason).allowed
<1>1. reason # NoReason
  BY ReasonsAssumption DEF Reasons, EngineReasons, NoReason
<1> QED BY <1>1 DEF Deny, Decisions

(* An allow is ALLOW: it has no reason.                                    *)
LEMMA AllowIsOne ==
  ASSUME NEW d \in Decisions, d.allowed
  PROVE  d = ALLOW
BY DEF Decisions, ALLOW

LEMMA VerdictType ==
  ASSUME NEW binding \in Bindings \cup {None}, NEW p \in Principals, NEW s \in Subjects
  PROVE  /\ Verdict(binding, p, s) \in Decisions
         /\ Verdict(binding, p, s).allowed =>
              /\ binding # None
              /\ binding.policy \in Policies
              /\ Rule[binding.policy][<<p, s>>] = ALLOW
<1>1. CASE binding = None
  BY <1>1, DenyType DEF Verdict, Reasons, EngineReasons
<1>2. CASE binding # None
  <2>1. binding.policy \in Policies /\ <<p, s>> \in Principals \X Subjects
    BY <1>2 DEF Bindings
  <2>2. Rule[binding.policy][<<p, s>>] \in Decisions
    BY <2>1, GuardAssumption
  <2> QED BY <1>2, <2>1, <2>2, AllowIsOne DEF Verdict
<1> QED BY <1>1, <1>2

LEMMA SurfaceType ==
  ASSUME TypeOK, NEW g \in Guards
  PROVE  DenialSurface(g) \in Surfaces
<1>1. bindings[<<g.action, g.type>>] \in Bindings \cup {None}
  BY GuardFields DEF TypeOK
<1> QED BY <1>1, GuardFields DEF DenialSurface, BindingFor, Bindings, Surfaces

(* An error of either handler is an error the client can see, and is no    *)
(* result.                                                                 *)
LEMMA HandlerType ==
  ASSUME NEW h \in Handlers \cup {None}, NEW reason, NEW where \in Surfaces,
         where = "not_found" \/ reason \in Reasons
  PROVE  Handler(h, reason, where) \in Errors
<1> DEFINE error == Handler(h, reason, where)
<1>1. error = [kind |-> error.kind, message |-> error.message]
  BY DEF Handler
<1>2. error.kind \in {"PermissionDenied", "ResourceNotFound"} \cup Handlers
  BY DEF Handler
<1>3. error.message \in Reasons \cup {"not_found", "operation_blocked"}
  BY DEF Handler
<1> HIDE DEF error
<1> QED BY <1>1, <1>2, <1>3 DEF Errors, error

LEMMA ErrorsAreNoResult ==
  ASSUME NEW error \in Errors
  PROVE  error \in Outcome /\ error # Result
<1>1. error.message # None
  BY GuardAssumption DEF Errors
<1> QED BY <1>1 DEF Outcome, Result

LEMMA ResultType ==
  /\ Result \in Outcome
  /\ Null \in Outcome
  /\ Raised \in Outcome
  /\ Result # Null
  /\ Result # Raised
BY DEF Outcome, Result, Null, Raised

LEMMA DenialType ==
  ASSUME NEW t \in Calls, guard[t] \in Guards, surface[t] \in Surfaces,
         NEW reason \in Reasons
  PROVE  Denial(t, reason) \in Outcome /\ Denial(t, reason) # Result
<1>1. \A where \in Surfaces :
        /\ Handler(guard[t].handler, reason, where) \in Outcome
        /\ Handler(guard[t].handler, reason, where) # Result
  BY GuardFields, HandlerType, ErrorsAreNoResult
<1> QED BY <1>1, ResultType DEF Denial, Surfaces

-----------------------------------------------------------------------------
(* One field at a time: a step of one task leaves the others alone.        *)

OnlyField(t) ==
  /\ UNCHANGED engine
  /\ \A u \in Calls \ {t} :
       /\ pc'[u] = pc[u] /\ request'[u] = request[u] /\ guard'[u] = guard[u]
       /\ principal'[u] = principal[u] /\ surface'[u] = surface[u]
       /\ subject'[u] = subject[u] /\ decision'[u] = decision[u]
       /\ outcome'[u] = outcome[u] /\ before'[u] = before[u]
       /\ u \in loaded' <=> u \in loaded
       /\ u \in ran' <=> u \in ran

LEMMA OtherField ==
  ASSUME NEW u \in Calls,
         InOrder(u), DecidedByRule(u), OutcomeTells(u), RanAuthorised(u),
         UNCHANGED <<bindings, replacements>>,
         pc'[u] = pc[u], request'[u] = request[u], guard'[u] = guard[u],
         principal'[u] = principal[u], surface'[u] = surface[u],
         subject'[u] = subject[u], decision'[u] = decision[u],
         outcome'[u] = outcome[u],
         u \in loaded' <=> u \in loaded,
         u \in ran' <=> u \in ran
  PROVE  InOrder(u)' /\ DecidedByRule(u)' /\ OutcomeTells(u)' /\ RanAuthorised(u)'
<1>1. InOrder(u)'
  BY DEF InOrder
<1>2. DecidedByRule(u)'
  BY DEF DecidedByRule, Grants
<1>3. OutcomeTells(u)'
  BY DEF OutcomeTells, Denial
<1>4. RanAuthorised(u)'
  BY DEF RanAuthorised, Grants
<1> QED BY <1>1, <1>2, <1>3, <1>4

LEMMA OneFieldStep ==
  ASSUME FieldInv, NEW t \in Calls, OnlyField(t),
         InOrder(t)', DecidedByRule(t)', OutcomeTells(t)', RanAuthorised(t)'
  PROVE  FieldInv'
<1>1. ASSUME NEW u \in Calls, u # t
      PROVE  InOrder(u)' /\ DecidedByRule(u)' /\ OutcomeTells(u)' /\ RanAuthorised(u)'
  <2>1. InOrder(u) /\ DecidedByRule(u) /\ OutcomeTells(u) /\ RanAuthorised(u)
    BY DEF FieldInv
  <2> QED BY <1>1, <2>1, OtherField DEF OnlyField, engine
<1> QED BY <1>1 DEF FieldInv

(* Steps after the principal is there neither load nor remember.           *)
LEMMA SharingStays ==
  ASSUME SharingInv, UNCHANGED <<cache, call, principal, loaded>>
  PROVE  SharingInv'
BY DEF SharingInv, CacheIsOwn, LoadsAreRemembered, PrincipalsWereLoaded,
       RepeatedLoadsOverlap, call

LEMMA ReplaceStep ==
  ASSUME Inv, NEW pair \in Pairs, NEW binding \in Bindings, Replace(pair, binding)
  PROVE  Inv'
<1>1. TypeOK'
  BY GuardAssumption DEF Inv, TypeOK, Replace, call
<1>2. replacements' # 0
  BY GuardAssumption DEF Inv, TypeOK, Replace
<1>3. FieldInv'
  <2> SUFFICES ASSUME NEW t \in Calls
               PROVE  InOrder(t)' /\ DecidedByRule(t)' /\ OutcomeTells(t)' /\ RanAuthorised(t)'
    BY DEF FieldInv
  <2>1. UNCHANGED <<pc, request, guard, principal, surface, subject, decision,
                    loaded, ran, outcome>>
    BY DEF Replace, call
  <2>2. InOrder(t) /\ DecidedByRule(t) /\ OutcomeTells(t) /\ RanAuthorised(t)
    BY DEF Inv, FieldInv
  <2>3. InOrder(t)'
    BY <2>1, <2>2 DEF InOrder
  <2>4. DecidedByRule(t)'
    BY <1>2, <2>1, <2>2 DEF DecidedByRule, Grants
  <2>5. OutcomeTells(t)'
    BY <2>1, <2>2 DEF OutcomeTells, Denial
  <2>6. RanAuthorised(t)'
    BY <2>1, <2>2 DEF RanAuthorised, Grants
  <2> QED BY <2>3, <2>4, <2>5, <2>6
<1>4. SharingInv'
  BY SharingStays DEF Inv, Replace
<1> QED BY <1>1, <1>3, <1>4 DEF Inv

-----------------------------------------------------------------------------
(* From the engine to the next await: what Enter and ResolveEngine leave.  *)

(* A field that has its principal and no subject yet.                      *)
HasPrincipal(t, g, q) ==
  /\ g \in Guards /\ q \in Requests
  /\ guard'[t] = g /\ request'[t] = q
  /\ principal'[t] \in Principals
  /\ subject'[t] = None
  /\ outcome[t] = None
  /\ t \notin ran

LEMMA EnterField ==
  ASSUME Inv, NEW t \in Calls, NEW g, NEW q, HasPrincipal(t, g, q),
         Enter(t, g, q.operation)
  PROVE  /\ InOrder(t)' /\ DecidedByRule(t)' /\ OutcomeTells(t)' /\ RanAuthorised(t)'
         /\ surface' \in [Calls -> Surfaces \cup {None}]
         /\ pc' \in [Calls -> {"idle", "loading", "connecting", "fetching", "deciding",
                               "resolving", "ended"}]
         /\ outcome' \in [Calls -> Outcome \cup {None}]
         /\ ran' \subseteq Calls
         /\ \A u \in Calls \ {t} :
              /\ pc'[u] = pc[u] /\ surface'[u] = surface[u] /\ outcome'[u] = outcome[u]
              /\ u \in ran' <=> u \in ran
<1> DEFINE blocked == [kind |-> "PermissionDenied", message |-> "operation_blocked"]
<1>1. /\ g \in Guards /\ q \in Requests /\ guard'[t] = g /\ request'[t] = q
      /\ principal'[t] \in Principals /\ principal'[t] # None
      /\ subject'[t] = None /\ outcome[t] = None /\ t \notin ran
  BY NoneIsNew DEF HasPrincipal
<1>2. g.phase \in {"before", "after"} /\ q.operation \in Operations
  BY <1>1, GuardFields, RequestFields
<1>3. DenialSurface(g) \in Surfaces
  BY <1>1, SurfaceType DEF Inv
<1>4. surface' = [surface EXCEPT ![t] = DenialSurface(g)]
  BY DEF Enter
<1>5. surface'[t] \in Surfaces /\ surface' \in [Calls -> Surfaces \cup {None}]
  BY <1>3, <1>4 DEF Inv, TypeOK
<1>6. blocked \in Errors
  BY DEF Errors
<1>7. blocked \in Outcome
  BY <1>6, ErrorsAreNoResult
<1> HIDE DEF DenialSurface
<1>8. CASE /\ Refused(g, q.operation)
           /\ End(t, blocked)
           /\ UNCHANGED ran
  <2>1. /\ pc' = [pc EXCEPT ![t] = "ended"] /\ outcome' = [outcome EXCEPT ![t] = blocked]
        /\ ran' = ran
    BY <1>8 DEF End
  <2>2. pc'[t] = "ended" /\ outcome'[t] = blocked
    BY <2>1 DEF Inv, TypeOK
  <2>3. InOrder(t)'
    BY <1>1, <2>2 DEF InOrder
  <2>4. OutcomeTells(t)'
    BY <1>1, <1>8, <2>2 DEF OutcomeTells, Refused
  <2>5. DecidedByRule(t)' /\ RanAuthorised(t)'
    BY <1>1, <2>1 DEF DecidedByRule, RanAuthorised
  <2>6. /\ pc' \in [Calls -> {"idle", "loading", "connecting", "fetching", "deciding",
                              "resolving", "ended"}]
        /\ outcome' \in [Calls -> Outcome \cup {None}]
    BY <1>7, <2>1 DEF Inv, TypeOK
  <2> QED BY <1>4, <1>5, <2>1, <2>3, <2>4, <2>5, <2>6 DEF Inv, TypeOK
<1>9. CASE /\ g.phase = "after" /\ ~Refused(g, q.operation)
           /\ Suspend(t, "resolving")
           /\ ran' = ran \cup {t}
  <2>1. /\ pc' = [pc EXCEPT ![t] = "resolving"] /\ outcome' = outcome
        /\ ran' = ran \cup {t}
    BY <1>9 DEF Suspend
  <2>2. pc'[t] = "resolving" /\ outcome'[t] = None
    BY <1>1, <2>1 DEF Inv, TypeOK
  <2>3. InOrder(t)'
    BY <1>1, <1>5, <1>9, <2>2 DEF InOrder
  <2>4. OutcomeTells(t)' /\ DecidedByRule(t)'
    BY <1>1, <2>2 DEF OutcomeTells, DecidedByRule
  <2>5. RanAuthorised(t)'
    BY <1>1, <1>9 DEF RanAuthorised, Refused
  <2>6. pc' \in [Calls -> {"idle", "loading", "connecting", "fetching", "deciding",
                           "resolving", "ended"}]
    BY <2>1 DEF Inv, TypeOK
  <2> QED BY <1>4, <1>5, <2>1, <2>3, <2>4, <2>5, <2>6 DEF Inv, TypeOK
<1>10. CASE /\ g.phase = "before"
            /\ Suspend(t, "fetching")
            /\ UNCHANGED ran
  <2>1. pc' = [pc EXCEPT ![t] = "fetching"] /\ outcome' = outcome /\ ran' = ran
    BY <1>10 DEF Suspend
  <2>2. pc'[t] = "fetching" /\ outcome'[t] = None
    BY <1>1, <2>1 DEF Inv, TypeOK
  <2>3. InOrder(t)'
    BY <1>1, <1>5, <2>2 DEF InOrder
  <2>4. OutcomeTells(t)' /\ DecidedByRule(t)' /\ RanAuthorised(t)'
    BY <1>1, <2>1, <2>2 DEF OutcomeTells, DecidedByRule, RanAuthorised
  <2>5. pc' \in [Calls -> {"idle", "loading", "connecting", "fetching", "deciding",
                           "resolving", "ended"}]
    BY <2>1 DEF Inv, TypeOK
  <2> QED BY <1>4, <1>5, <2>1, <2>3, <2>4, <2>5 DEF Inv, TypeOK
<1> QED BY <1>8, <1>9, <1>10 DEF Enter

LEMMA ResolveEngineField ==
  ASSUME Inv, NEW t \in Calls, NEW g, NEW q, HasPrincipal(t, g, q),
         ResolveEngine(t, g, q.operation)
  PROVE  /\ InOrder(t)' /\ DecidedByRule(t)' /\ OutcomeTells(t)' /\ RanAuthorised(t)'
         /\ surface' \in [Calls -> Surfaces \cup {None}]
         /\ pc' \in [Calls -> {"idle", "loading", "connecting", "fetching", "deciding",
                               "resolving", "ended"}]
         /\ outcome' \in [Calls -> Outcome \cup {None}]
         /\ ran' \subseteq Calls
         /\ \A u \in Calls \ {t} :
              /\ pc'[u] = pc[u] /\ surface'[u] = surface[u] /\ outcome'[u] = outcome[u]
              /\ u \in ran' <=> u \in ran
<1>1. CASE Enter(t, g, q.operation)
  BY <1>1, EnterField
<1>2. CASE Suspend(t, "connecting") /\ UNCHANGED <<surface, ran>>
  <2>1. pc' = [pc EXCEPT ![t] = "connecting"] /\ UNCHANGED <<outcome, surface, ran>>
    BY <1>2 DEF Suspend
  <2>2. pc'[t] = "connecting"
    BY <2>1 DEF Inv, TypeOK
  <2>3. InOrder(t)'
    BY <2>1, <2>2, NoneIsNew DEF InOrder, HasPrincipal
  <2>4. OutcomeTells(t)' /\ DecidedByRule(t)' /\ RanAuthorised(t)'
    BY <2>1 DEF OutcomeTells, DecidedByRule, RanAuthorised, HasPrincipal
  <2>5. pc' \in [Calls -> {"idle", "loading", "connecting", "fetching", "deciding",
                           "resolving", "ended"}]
    BY <2>1 DEF Inv, TypeOK
  <2> QED BY <2>1, <2>3, <2>4, <2>5 DEF Inv, TypeOK
<1> QED BY <1>1, <1>2 DEF ResolveEngine

-----------------------------------------------------------------------------
(* Beginning a field.                                                      *)

LEMMA StartFacts ==
  ASSUME Inv, NEW t \in Calls, NEW q \in Requests, NEW g \in Guards, Start(t, q, g)
  PROVE  /\ pc[t] = "idle" /\ t \notin loaded /\ t \notin ran
         /\ principal[t] = None /\ surface[t] = None /\ subject[t] = None
         /\ outcome[t] = None
         /\ UNCHANGED <<engine, subject, decision>>
         /\ request' \in [Calls -> Requests \cup {None}]
         /\ guard' \in [Calls -> Guards \cup {None}]
         /\ before' \in [Calls -> SUBSET Calls]
         /\ request'[t] = q /\ guard'[t] = g
         /\ before'[t] = {u \in Calls : principal[u] # None}
         /\ \A u \in Calls \ {t} :
              request'[u] = request[u] /\ guard'[u] = guard[u] /\ before'[u] = before[u]
BY DEF Inv, TypeOK, FieldInv, InOrder, Start

(* What is remembered: one place of the cache, where that can be.          *)
LEMMA RememberFacts ==
  ASSUME Inv, NEW q \in Requests, NEW g \in Guards, NEW p \in Principals,
         Remember(q, g, p)
  PROVE  /\ cache' \in [Contexts -> [Loaders -> Principals \cup {None}]]
         /\ q.context \in Cacheable => cache'[q.context][g.loader] = p
         /\ \A c \in Contexts, l \in Loaders :
              cache'[c][l] = cache[c][l]
                \/ (c = q.context /\ l = g.loader /\ c \in Cacheable /\ cache'[c][l] = p)
<1>1. q.context \in Contexts /\ g.loader \in Loaders
  BY RequestFields, GuardFields
<1>2. cache \in [Contexts -> [Loaders -> Principals \cup {None}]]
  BY DEF Inv, TypeOK
<1>3. cache' = [cache EXCEPT ![q.context] =
                  [cache[q.context] EXCEPT ![g.loader] =
                     IF q.context \in Cacheable THEN p ELSE cache[q.context][g.loader]]]
  BY <1>1, <1>2 DEF Remember
<1> DEFINE row == [cache[q.context] EXCEPT ![g.loader] =
                     IF q.context \in Cacheable THEN p ELSE cache[q.context][g.loader]]
<1>4. cache[q.context] \in [Loaders -> Principals \cup {None}]
  BY <1>1, <1>2
<1>5. /\ row \in [Loaders -> Principals \cup {None}]
      /\ q.context \in Cacheable => row[g.loader] = p
      /\ q.context \notin Cacheable => row[g.loader] = cache[q.context][g.loader]
      /\ \A l \in Loaders : l # g.loader => row[l] = cache[q.context][l]
  <2>1. (IF q.context \in Cacheable THEN p ELSE cache[q.context][g.loader])
          \in Principals \cup {None}
    BY <1>1, <1>4
  <2> QED BY <1>1, <1>4, <2>1
<1> HIDE DEF row
<1>6. /\ cache' \in [Contexts -> [Loaders -> Principals \cup {None}]]
      /\ cache'[q.context] = row
      /\ \A c \in Contexts : c # q.context => cache'[c] = cache[c]
  <2>1. cache' = [cache EXCEPT ![q.context] = row]
    BY <1>3 DEF row
  <2> QED BY <1>1, <1>2, <1>5, <2>1
<1>7. ASSUME NEW c \in Contexts, NEW l \in Loaders
      PROVE  cache'[c][l] = cache[c][l]
               \/ (c = q.context /\ l = g.loader /\ c \in Cacheable /\ cache'[c][l] = p)
  BY <1>5, <1>6
<1>8. q.context \in Cacheable => cache'[q.context][g.loader] = p
  BY <1>5, <1>6
<1> QED BY <1>6, <1>7, <1>8

(* What the cache holds was made by its loader for a field of its context. *)
LEMMA CachedPrincipal ==
  ASSUME CacheIsOwn, NEW c \in Contexts, NEW l \in Loaders, cache[c][l] # None
  PROVE  \E u \in loaded :
           /\ c \in Cacheable
           /\ request[u].context = c
           /\ guard[u].loader = l
           /\ cache[c][l] = [loader |-> l, user |-> request[u].user]
BY DEF CacheIsOwn

(* A field that begins leaves the principals of the others as they were.   *)
LEMMA BeginSharing ==
  ASSUME Inv, NEW t \in Calls, NEW q \in Requests, NEW g \in Guards, Start(t, q, g),
         loaded' = loaded \/ loaded' = loaded \cup {t},
         cache' \in [Contexts -> [Loaders -> Principals \cup {None}]],
         \A u \in Calls \ {t} : principal'[u] = principal[u],
         \* the cache, and what it gained
         \A c \in Contexts, l \in Loaders :
           \/ cache'[c][l] = cache[c][l]
           \/ /\ c = q.context /\ l = g.loader /\ c \in Cacheable
              /\ cache'[c][l] = [loader |-> g.loader, user |-> q.user]
              /\ t \in loaded',
         \* the principal of t, if it has one
         principal'[t] # None =>
           \/ /\ t \notin loaded'
              /\ principal'[t] = cache[q.context][g.loader]
           \/ /\ t \in loaded'
              /\ principal'[t] = [loader |-> g.loader, user |-> q.user]
              /\ q.context \in Cacheable => cache'[q.context][g.loader] = principal'[t],
         \* a load, only where nothing is remembered
         t \in loaded' => cache[q.context][g.loader] = None
  PROVE  SharingInv'
<1> DEFINE place(u) == cache[request[u].context][guard[u].loader]
<1>1. q.context \in Contexts /\ g.loader \in Loaders
  BY RequestFields, GuardFields
<1>2. /\ t \notin loaded
      /\ principal[t] = None
      /\ request'[t] = q /\ guard'[t] = g
      /\ before'[t] = {u \in Calls : principal[u] # None}
      /\ \A u \in Calls \ {t} :
           request'[u] = request[u] /\ guard'[u] = guard[u] /\ before'[u] = before[u]
  BY StartFacts
<1>3. loaded \subseteq Calls \ {t}
  BY <1>2 DEF Inv, TypeOK
<1>4. \A u \in loaded : /\ request'[u] = request[u] /\ guard'[u] = guard[u]
                        /\ before'[u] = before[u] /\ principal'[u] = principal[u]
                        /\ u \in loaded'
  BY <1>2, <1>3
<1>5. \A u \in loaded : request[u].context \in Contexts /\ guard[u].loader \in Loaders
  BY <1>2, <1>3, RequestFields, GuardFields DEF Inv, FieldInv, InOrder
<1>6. \A c \in Contexts, l \in Loaders : cache[c][l] # None => cache'[c][l] # None
  BY NoneIsNew DEF Principals, Inv, SharingInv, CacheIsOwn
<1>7. CacheIsOwn'
  <2> SUFFICES ASSUME NEW c \in Contexts, NEW l \in Loaders, cache'[c][l] # None
               PROVE  /\ c \in Cacheable
                      /\ \E u \in loaded' :
                           /\ request'[u].context = c
                           /\ guard'[u].loader = l
                           /\ cache'[c][l] = [loader |-> l, user |-> request'[u].user]
    BY DEF CacheIsOwn
  <2>1. CASE cache'[c][l] = cache[c][l]
    <3>1. /\ c \in Cacheable
          /\ \E u \in loaded : /\ request[u].context = c
                               /\ guard[u].loader = l
                               /\ cache[c][l] = [loader |-> l, user |-> request[u].user]
      BY <2>1 DEF Inv, SharingInv, CacheIsOwn
    <3> QED BY <1>4, <2>1, <3>1
  <2>2. CASE cache'[c][l] # cache[c][l]
    BY <1>2, <2>2
  <2> QED BY <2>1, <2>2
<1>8. LoadsAreRemembered'
  <2>1. ASSUME NEW u \in loaded', principal'[u] # None, request'[u].context \in Cacheable
        PROVE  cache'[request'[u].context][guard'[u].loader] # None
    <3>1. CASE u \in loaded
      <4>1. place(u) # None
        BY <1>4, <2>1, <3>1 DEF Inv, SharingInv, LoadsAreRemembered
      <4> QED BY <1>4, <1>5, <1>6, <3>1, <4>1
    <3>2. CASE u \notin loaded
      BY <1>2, <2>1, <3>2
    <3> QED BY <3>1, <3>2
  <2>2. ASSUME NEW v \in Calls, NEW u \in Calls, u \in before'[v]
        PROVE  principal'[u] # None
    <3>1. principal[u] # None
      BY <1>2, <2>2 DEF Inv, SharingInv, LoadsAreRemembered
    <3> QED BY <1>2, <3>1
  <2> QED BY <2>1, <2>2 DEF LoadsAreRemembered
<1>9. PrincipalsWereLoaded'
  <2> SUFFICES ASSUME NEW v \in Calls, principal'[v] # None
               PROVE  /\ principal'[v].loader = guard'[v].loader
                      /\ \E u \in loaded' :
                           /\ request'[u].user = principal'[v].user
                           /\ guard'[u].loader = guard'[v].loader
                           /\ request'[u].context = request'[v].context
                           /\ u # v => request'[v].context \in Cacheable
    BY DEF PrincipalsWereLoaded
  <2>1. CASE v # t
    <3>1. principal'[v] = principal[v] /\ guard'[v] = guard[v] /\ request'[v] = request[v]
      BY <1>2, <2>1
    <3>2. /\ principal[v].loader = guard[v].loader
          /\ \E u \in loaded :
               /\ request[u].user = principal[v].user
               /\ guard[u].loader = guard[v].loader
               /\ request[u].context = request[v].context
               /\ u # v => request[v].context \in Cacheable
      BY <3>1 DEF Inv, SharingInv, PrincipalsWereLoaded
    <3> QED BY <1>4, <3>1, <3>2
  <2>2. CASE v = t /\ t \notin loaded'
    <3>1. principal'[t] = cache[q.context][g.loader]
      BY <2>2
    <3>2. cache[q.context][g.loader] # None
      BY <2>2, <3>1
    <3>3. PICK u \in loaded :
             /\ q.context \in Cacheable
             /\ request[u].context = q.context
             /\ guard[u].loader = g.loader
             /\ cache[q.context][g.loader] = [loader |-> g.loader, user |-> request[u].user]
      <4>1. CacheIsOwn
        BY DEF Inv, SharingInv
      <4> QED BY <1>1, <3>2, <4>1, CachedPrincipal
    <3> QED BY <1>2, <1>4, <2>2, <3>1, <3>3
  <2>3. CASE v = t /\ t \in loaded'
    BY <1>2, <2>3
  <2> QED BY <2>1, <2>2, <2>3
<1>10. RepeatedLoadsOverlap'
  <2> SUFFICES ASSUME NEW v \in loaded', NEW u \in loaded', u \in before'[v],
                      guard'[v].loader = guard'[u].loader,
                      request'[v].context = request'[u].context,
                      request'[v].context \in Cacheable
               PROVE  FALSE
    BY DEF RepeatedLoadsOverlap
  <2>1. v \in Calls /\ u \in Calls
    BY <1>3
  <2>2. principal[u] # None
    BY <1>2, <2>1 DEF Inv, SharingInv, LoadsAreRemembered
  <2>3. u \in loaded
    BY <1>2, <2>2
  <2>4. CASE v = t
    <3>1. place(u) # None
      BY <1>4, <2>2, <2>3 DEF Inv, SharingInv, LoadsAreRemembered
    <3> QED BY <1>2, <1>4, <2>3, <2>4, <3>1
  <2>5. CASE v # t
    BY <1>4, <2>3, <2>5 DEF Inv, SharingInv, RepeatedLoadsOverlap
  <2> QED BY <2>4, <2>5
<1> QED BY <1>7, <1>8, <1>9, <1>10 DEF SharingInv

LEMMA ReuseStep ==
  ASSUME Inv, NEW t \in Calls, NEW q \in Requests, NEW g \in Guards, Reuse(t, q, g)
  PROVE  Inv'
<1>1. /\ Start(t, q, g)
      /\ cache[q.context][g.loader] # None
      /\ principal' = [principal EXCEPT ![t] = cache[q.context][g.loader]]
      /\ ResolveEngine(t, g, q.operation)
      /\ cache' = cache /\ loaded' = loaded
  BY DEF Reuse, Cached
<1>2. q.context \in Contexts /\ g.loader \in Loaders
  BY RequestFields, GuardFields
<1>3. cache[q.context][g.loader] \in Principals
  BY <1>1, <1>2 DEF Inv, TypeOK
<1>4. /\ principal' \in [Calls -> Principals \cup {None}]
      /\ principal'[t] = cache[q.context][g.loader]
      /\ \A u \in Calls \ {t} : principal'[u] = principal[u]
  BY <1>1, <1>3 DEF Inv, TypeOK
<1>5. HasPrincipal(t, g, q)
  BY <1>1, <1>3, <1>4, StartFacts DEF HasPrincipal
<1>6. SharingInv'
  <2>1. t \notin loaded'
    BY <1>1, StartFacts
  <2>2. cache' \in [Contexts -> [Loaders -> Principals \cup {None}]]
    BY <1>1 DEF Inv, TypeOK
  <2> QED BY <1>1, <1>4, <2>1, <2>2, BeginSharing
<1>7. FieldInv'
  <2>1. OnlyField(t)
    BY <1>1, <1>4, <1>5, StartFacts, ResolveEngineField DEF OnlyField
  <2> QED BY <1>1, <1>5, <2>1, ResolveEngineField, OneFieldStep DEF Inv
<1>8. TypeOK'
  BY <1>1, <1>4, <1>5, StartFacts, ResolveEngineField DEF Inv, TypeOK, engine
<1> QED BY <1>6, <1>7, <1>8 DEF Inv

LEMMA LoadAtOnceStep ==
  ASSUME Inv, NEW t \in Calls, NEW q \in Requests, NEW g \in Guards, LoadAtOnce(t, q, g)
  PROVE  Inv'
<1> DEFINE p == [loader |-> g.loader, user |-> q.user]
<1>1. /\ Start(t, q, g)
      /\ cache[q.context][g.loader] = None
      /\ loaded' = loaded \cup {t}
      /\ principal' = [principal EXCEPT ![t] = p]
      /\ Remember(q, g, p)
      /\ ResolveEngine(t, g, q.operation)
  BY DEF LoadAtOnce, Load, Cached
<1>2. p \in Principals
  BY RequestFields, GuardFields DEF Principals
<1>3. p.loader = g.loader /\ p.user = q.user
  OBVIOUS
<1>4. /\ principal' \in [Calls -> Principals \cup {None}]
      /\ principal'[t] = p
      /\ \A u \in Calls \ {t} : principal'[u] = principal[u]
  BY <1>1, <1>2 DEF Inv, TypeOK
<1>5. HasPrincipal(t, g, q)
  BY <1>1, <1>2, <1>4, StartFacts DEF HasPrincipal
<1>6. /\ cache' \in [Contexts -> [Loaders -> Principals \cup {None}]]
      /\ q.context \in Cacheable => cache'[q.context][g.loader] = p
      /\ \A c \in Contexts, l \in Loaders :
           cache'[c][l] = cache[c][l]
             \/ (c = q.context /\ l = g.loader /\ c \in Cacheable /\ cache'[c][l] = p)
  <2> HIDE DEF p
  <2> QED BY <1>1, <1>2, RememberFacts
<1>7. SharingInv'
  <2>1. t \in loaded'
    BY <1>1
  <2> QED BY <1>1, <1>4, <1>6, <2>1, BeginSharing
<1>8. FieldInv'
  <2>1. OnlyField(t)
    BY <1>1, <1>4, <1>5, StartFacts, ResolveEngineField DEF OnlyField
  <2> QED BY <1>1, <1>5, <2>1, ResolveEngineField, OneFieldStep DEF Inv
<1>9. TypeOK'
  BY <1>1, <1>4, <1>5, <1>6, StartFacts, ResolveEngineField DEF Inv, TypeOK, engine
<1> QED BY <1>7, <1>8, <1>9 DEF Inv

LEMMA LoadLaterStep ==
  ASSUME Inv, NEW t \in Calls, NEW q \in Requests, NEW g \in Guards,
         LoadLater(t, q, g) \/ LoadRaises(t, q, g)
  PROVE  Inv'
<1>1. /\ Start(t, q, g)
      /\ cache[q.context][g.loader] = None
      /\ loaded' = loaded \cup {t}
      /\ UNCHANGED <<cache, principal, surface, ran>>
      /\ Suspend(t, "loading") \/ End(t, Raised)
  BY DEF LoadLater, LoadRaises, Load, Cached
<1>2. \/ pc' = [pc EXCEPT ![t] = "loading"] /\ outcome' = outcome
      \/ pc' = [pc EXCEPT ![t] = "ended"] /\ outcome' = [outcome EXCEPT ![t] = Raised]
  BY <1>1 DEF Suspend, End
<1>3. TypeOK'
  <2>1. /\ pc' \in [Calls -> {"idle", "loading", "connecting", "fetching", "deciding",
                              "resolving", "ended"}]
        /\ outcome' \in [Calls -> Outcome \cup {None}]
    BY <1>2, ResultType DEF Inv, TypeOK
  <2> QED BY <1>1, <2>1, StartFacts DEF Inv, TypeOK, engine
<1>4. SharingInv'
  <2>1. principal'[t] = None /\ t \in loaded'
    BY <1>1, StartFacts
  <2>2. cache' \in [Contexts -> [Loaders -> Principals \cup {None}]]
    BY <1>3 DEF TypeOK
  <2> QED BY <1>1, <2>1, <2>2, BeginSharing
<1>5. FieldInv'
  <2>1. OnlyField(t)
    BY <1>1, <1>2, StartFacts DEF OnlyField, Inv, TypeOK
  <2>2. \/ pc'[t] = "loading" /\ outcome'[t] = None
        \/ pc'[t] = "ended" /\ outcome'[t] = Raised
    BY <1>1, <1>2, StartFacts DEF Inv, TypeOK
  <2>3. InOrder(t)'
    BY <1>1, <2>2, StartFacts DEF InOrder
  <2>4. OutcomeTells(t)' /\ DecidedByRule(t)' /\ RanAuthorised(t)'
    BY <1>1, <2>2, StartFacts DEF OutcomeTells, DecidedByRule, RanAuthorised
  <2> QED BY <2>1, <2>3, <2>4, OneFieldStep DEF Inv
<1> QED BY <1>3, <1>4, <1>5 DEF Inv

-----------------------------------------------------------------------------
(* Continuing a field.                                                     *)

LEMMA PrincipalLoadedStep ==
  ASSUME Inv, NEW t \in Calls, PrincipalLoaded(t)
  PROVE  Inv'
<1> DEFINE q == request[t]
           g == guard[t]
           p == [loader |-> g.loader, user |-> q.user]
<1>1. /\ pc[t] = "loading"
      /\ principal' = [principal EXCEPT ![t] = p]
      /\ Remember(q, g, p)
      /\ ResolveEngine(t, g, q.operation)
      /\ UNCHANGED <<engine, request, guard, before, subject, decision, loaded>>
  BY DEF PrincipalLoaded, call
<1>2. /\ q \in Requests /\ g \in Guards
      /\ principal[t] = None /\ subject[t] = None /\ outcome[t] = None
      /\ t \in loaded /\ t \notin ran
  BY <1>1 DEF Inv, FieldInv, InOrder
<1>3. p \in Principals /\ p.loader = g.loader /\ p.user = q.user
  BY <1>2, RequestFields, GuardFields DEF Principals
<1>4. /\ principal' \in [Calls -> Principals \cup {None}]
      /\ principal'[t] = p
      /\ \A u \in Calls \ {t} : principal'[u] = principal[u]
  BY <1>1, <1>3 DEF Inv, TypeOK
<1>5. /\ cache' \in [Contexts -> [Loaders -> Principals \cup {None}]]
      /\ q.context \in Cacheable => cache'[q.context][g.loader] = p
      /\ \A c \in Contexts, l \in Loaders :
           cache'[c][l] = cache[c][l]
             \/ (c = q.context /\ l = g.loader /\ c \in Cacheable /\ cache'[c][l] = p)
  <2> HIDE DEF p, q, g
  <2> QED BY <1>1, <1>2, <1>3, RememberFacts
<1>6. HasPrincipal(t, g, q)
  BY <1>1, <1>2, <1>3, <1>4 DEF HasPrincipal
<1>7. FieldInv'
  <2>1. OnlyField(t)
    BY <1>1, <1>4, <1>6, ResolveEngineField DEF OnlyField
  <2> QED BY <1>1, <1>6, <2>1, ResolveEngineField, OneFieldStep DEF Inv
<1>8. TypeOK'
  BY <1>1, <1>4, <1>5, <1>6, ResolveEngineField DEF Inv, TypeOK, engine
<1> HIDE DEF p, q, g
<1>9. SharingInv'
  <2>1. loaded \subseteq Calls
    BY DEF Inv, TypeOK
  <2>2. \A u \in loaded : request[u].context \in Contexts /\ guard[u].loader \in Loaders
    BY <2>1, RequestFields, GuardFields DEF Inv, FieldInv, InOrder
  <2>3. request' = request /\ guard' = guard /\ before' = before /\ loaded' = loaded
    BY <1>1
  <2>4. CacheIsOwn'
    <3>1. CacheIsOwn
      BY DEF Inv, SharingInv
    <3>2. request[t].context = q.context /\ guard[t].loader = g.loader /\ request[t].user = q.user
      BY DEF q, g
    <3>3. p = [loader |-> g.loader, user |-> q.user]
      BY DEF p
    <3> QED BY <1>2, <1>5, <2>3, <3>1, <3>2, <3>3 DEF CacheIsOwn
  <2>5. p # None
    BY <1>3, NoneIsNew
  <2>6. LoadsAreRemembered'
    <3>1. LoadsAreRemembered
      BY DEF Inv, SharingInv
    <3>2. ASSUME NEW u \in loaded, principal'[u] # None, request[u].context \in Cacheable
          PROVE  cache'[request[u].context][guard[u].loader] # None
      <4>1. CASE u = t
        BY <1>5, <2>5, <3>2, <4>1 DEF q, g
      <4>2. CASE u # t
        <5>1. cache[request[u].context][guard[u].loader] # None
          BY <1>4, <2>1, <3>1, <3>2, <4>2 DEF LoadsAreRemembered
        <5> QED BY <1>5, <2>2, <2>5, <5>1
      <4> QED BY <4>1, <4>2
    <3>3. \A v, u \in Calls : u \in before[v] => principal'[u] # None
      BY <1>4, <2>5, <3>1 DEF LoadsAreRemembered
    <3> QED BY <2>3, <3>2, <3>3 DEF LoadsAreRemembered
  <2>7. PrincipalsWereLoaded'
    <3>1. PrincipalsWereLoaded
      BY DEF Inv, SharingInv
    <3>2. request[t].user = p.user /\ guard[t].loader = p.loader
      BY <1>3 DEF q, g
    <3> QED BY <1>2, <1>4, <2>3, <3>1, <3>2 DEF PrincipalsWereLoaded
  <2>8. RepeatedLoadsOverlap'
    BY <2>3 DEF Inv, SharingInv, RepeatedLoadsOverlap
  <2> QED BY <2>4, <2>6, <2>7, <2>8 DEF SharingInv
<1> QED BY <1>7, <1>8, <1>9 DEF Inv

LEMMA EngineResolvedStep ==
  ASSUME Inv, NEW t \in Calls, EngineResolved(t)
  PROVE  Inv'
<1>1. /\ pc[t] = "connecting"
      /\ Enter(t, guard[t], request[t].operation)
      /\ UNCHANGED <<engine, cache, request, guard, before, principal, subject,
                     decision, loaded>>
  BY DEF EngineResolved, call
<1>2. HasPrincipal(t, guard[t], request[t])
  BY <1>1 DEF Inv, FieldInv, InOrder, HasPrincipal
<1>3. FieldInv'
  <2>1. OnlyField(t)
    BY <1>1, <1>2, EnterField DEF OnlyField
  <2> QED BY <1>1, <1>2, <2>1, EnterField, OneFieldStep DEF Inv
<1>4. TypeOK'
  BY <1>1, <1>2, EnterField DEF Inv, TypeOK, engine
<1>5. SharingInv'
  BY <1>1, SharingStays DEF Inv, call
<1> QED BY <1>3, <1>4, <1>5 DEF Inv

(* A step that ends the field, or suspends it again, and changes nothing   *)
(* else about it: what is to show is its place and its outcome.            *)
LEMMA ProgressStep ==
  ASSUME Inv, NEW t \in Calls,
         UNCHANGED <<engine, cache, call, principal, surface, subject, decision, loaded>>,
         NEW where \in {"fetching", "resolving", "ended"}, NEW how \in Outcome \cup {None},
         pc' = [pc EXCEPT ![t] = where],
         outcome' = [outcome EXCEPT ![t] = how],
         ran' = ran \/ ran' = ran \cup {t},
         pc[t] # "idle",
         where # "ended" => pc[t] \in {"deciding", "resolving"} /\ how = None,
         where = "fetching" => subject[t] = None,
         where = "resolving" =>
           guard[t].phase = "before" /\ subject[t] # None /\ decision[t].allowed,
         OutcomeTells(t)', RanAuthorised(t)'
  PROVE  Inv'
<1>1. TypeOK'
  BY DEF Inv, TypeOK, engine, call
<1>2. InOrder(t) /\ DecidedByRule(t)
  BY DEF Inv, FieldInv
<1>3. pc'[t] = where /\ outcome'[t] = how
  BY DEF Inv, TypeOK
<1>4. InOrder(t)'
  BY <1>2, <1>3 DEF InOrder, call
<1>5. DecidedByRule(t)'
  BY <1>2 DEF DecidedByRule, Grants, Verdict, engine, call
<1>6. OnlyField(t)
  BY DEF OnlyField, Inv, TypeOK, call
<1>7. FieldInv'
  BY <1>4, <1>5, <1>6, OneFieldStep DEF Inv
<1>8. SharingInv'
  BY SharingStays DEF Inv
<1> QED BY <1>1, <1>7, <1>8 DEF Inv

LEMMA ResolverReturnsStep ==
  ASSUME Inv, NEW t \in Calls, ResolverReturns(t)
  PROVE  Inv'
<1>1. /\ pc[t] = "resolving"
      /\ UNCHANGED <<engine, cache, call, principal, surface, subject, decision, loaded>>
      /\ ran' = ran
  BY DEF ResolverReturns
<1>2. /\ InOrder(t) /\ OutcomeTells(t) /\ RanAuthorised(t)
      /\ guard[t] \in Guards /\ outcome[t] = None
  BY <1>1 DEF Inv, FieldInv, InOrder
<1>3. RanAuthorised(t)'
  BY <1>1, <1>2 DEF RanAuthorised, Grants, call
<1>4. CASE guard[t].phase = "after" /\ Suspend(t, "fetching")
  <2>1. pc' = [pc EXCEPT ![t] = "fetching"] /\ outcome' = outcome
    BY <1>4 DEF Suspend
  <2>2. outcome' = [outcome EXCEPT ![t] = None] /\ outcome'[t] = None
    BY <1>2, <2>1 DEF Inv, TypeOK
  <2>3. subject[t] = None
    BY <1>1, <1>2, <1>4 DEF InOrder
  <2>4. OutcomeTells(t)'
    BY <2>2 DEF OutcomeTells
  <2> QED BY <1>1, <1>3, <2>1, <2>2, <2>3, <2>4, ProgressStep
<1>5. CASE guard[t].phase = "before" /\ End(t, Result)
  <2>1. /\ pc' = [pc EXCEPT ![t] = "ended"] /\ outcome' = [outcome EXCEPT ![t] = Result]
        /\ outcome'[t] = Result
    BY <1>5 DEF End, Inv, TypeOK
  <2>2. subject[t] # None /\ decision[t].allowed
    BY <1>1, <1>2, <1>5 DEF InOrder
  <2>3. OutcomeTells(t)'
    BY <1>1, <2>1, <2>2 DEF OutcomeTells
  <2> QED BY <1>1, <1>3, <2>1, <2>3, ResultType, ProgressStep
<1> QED BY <1>4, <1>5 DEF ResolverReturns

LEMMA SubjectAbsentStep ==
  ASSUME Inv, NEW t \in Calls, SubjectAbsent(t)
  PROVE  Inv'
<1> DEFINE absence == Handler(guard[t].handler, NoReason, "not_found")
<1>1. /\ pc[t] = "fetching"
      /\ End(t, absence)
      /\ UNCHANGED <<engine, cache, call, principal, surface, subject, decision, loaded>>
      /\ ran' = ran
  BY DEF SubjectAbsent, Handler
<1>2. /\ RanAuthorised(t)
      /\ guard[t] \in Guards /\ subject[t] = None
  BY <1>1 DEF Inv, FieldInv, InOrder
<1>3. absence \in Outcome
  <2>1. guard[t].handler \in Handlers \cup {None}
    BY <1>2, GuardFields
  <2>2. "not_found" \in Surfaces
    BY DEF Surfaces
  <2> QED BY <2>1, <2>2, HandlerType, ErrorsAreNoResult
<1>4. /\ pc' = [pc EXCEPT ![t] = "ended"] /\ outcome' = [outcome EXCEPT ![t] = absence]
      /\ outcome'[t] = absence
  BY <1>1 DEF End, Inv, TypeOK
<1>5. RanAuthorised(t)'
  BY <1>1, <1>2 DEF RanAuthorised, Grants, call
<1>6. OutcomeTells(t)'
  <2>1. outcome'[t] = Handler(guard'[t].handler, NoReason, "not_found") /\ subject'[t] = None
    BY <1>1, <1>2, <1>4 DEF call
  <2> QED BY <2>1 DEF OutcomeTells, Handler
<1> HIDE DEF absence
<1> QED BY <1>1, <1>3, <1>4, <1>5, <1>6, ProgressStep

LEMMA SubjectFetchedStep ==
  ASSUME Inv, NEW t \in Calls, NEW s \in Subjects, SubjectFetched(t, s)
  PROVE  Inv'
<1> DEFINE binding == bindings[<<guard[t].action, TypeOf[s]>>]
           verdict == Verdict(binding, principal[t], s)
<1>1. /\ pc[t] = "fetching"
      /\ subject' = [subject EXCEPT ![t] = s]
      /\ decision' = [decision EXCEPT ![t] = verdict]
      /\ pc' = [pc EXCEPT ![t] = "deciding"] /\ outcome' = outcome
      /\ UNCHANGED <<engine, cache, call, principal, surface, loaded, ran>>
  BY DEF SubjectFetched, Suspend
<1>2. /\ guard[t] \in Guards /\ request[t] \in Requests
      /\ principal[t] \in Principals
      /\ surface[t] \in Surfaces
      /\ subject[t] = None /\ outcome[t] = None
      /\ RanAuthorised(t)
  BY <1>1 DEF Inv, FieldInv, InOrder
<1>3. <<guard[t].action, TypeOf[s]>> \in Pairs
  BY <1>2, GuardFields, GuardAssumption DEF Pairs
<1>4. binding \in Bindings \cup {None}
  BY <1>3 DEF Inv, TypeOK
<1>5. /\ verdict \in Decisions
      /\ verdict.allowed =>
           \E policy \in Policies : Rule[policy][<<principal[t], s>>] = ALLOW
  <2> HIDE DEF binding
  <2> QED BY <1>2, <1>4, VerdictType
<1> HIDE DEF verdict
<1>6. /\ pc'[t] = "deciding" /\ subject'[t] = s /\ decision'[t] = verdict
      /\ outcome'[t] = None
  BY <1>1, <1>2 DEF Inv, TypeOK
<1>7. TypeOK'
  BY <1>1, <1>5 DEF Inv, TypeOK, engine, call
<1>8. FieldInv'
  <2>1. InOrder(t)'
    BY <1>1, <1>2, <1>6 DEF InOrder, call
  <2>2. DecidedByRule(t)'
    <3>1. verdict = Verdict(bindings'[<<guard'[t].action, TypeOf[s]>>], principal'[t], s)
      BY <1>1 DEF verdict, Verdict, engine, call
    <3> QED BY <1>1, <1>2, <1>5, <1>6, <3>1, NoneIsNew DEF DecidedByRule, Grants
  <2>3. OutcomeTells(t)'
    BY <1>6 DEF OutcomeTells
  <2>4. RanAuthorised(t)'
    BY <1>1, <1>2 DEF RanAuthorised, Grants, call
  <2>5. OnlyField(t)
    BY <1>1 DEF OnlyField, Inv, TypeOK, call
  <2> QED BY <2>1, <2>2, <2>3, <2>4, <2>5, OneFieldStep DEF Inv
<1>9. SharingInv'
  BY <1>1, SharingStays DEF Inv
<1> QED BY <1>7, <1>8, <1>9 DEF Inv

LEMMA AllowedStep ==
  ASSUME Inv, NEW t \in Calls, Allowed(t)
  PROVE  Inv'
<1>1. /\ pc[t] = "deciding"
      /\ decision[t].allowed
      /\ UNCHANGED <<engine, cache, call, principal, surface, subject, decision, loaded>>
  BY DEF Allowed
<1>2. /\ RanAuthorised(t) /\ DecidedByRule(t)
      /\ guard[t] \in Guards /\ subject[t] # None /\ outcome[t] = None
  BY <1>1, NoneIsNew DEF Inv, FieldInv, InOrder
<1>3. Grants(t) /\ Grants(t)'
  BY <1>1, <1>2 DEF DecidedByRule, Grants, call
<1>4. ASSUME ran' = ran \/ (guard[t].phase = "before" /\ ran' = ran \cup {t})
      PROVE  RanAuthorised(t)'
  BY <1>1, <1>2, <1>3, <1>4 DEF RanAuthorised, Grants, call
<1>5. \/ ran' = ran
      \/ guard[t].phase = "before" /\ ran' = ran \cup {t}
  BY DEF Allowed
<1>6. RanAuthorised(t)'
  BY <1>4, <1>5
<1>7. CASE End(t, Result)
  <2>1. /\ pc' = [pc EXCEPT ![t] = "ended"] /\ outcome' = [outcome EXCEPT ![t] = Result]
        /\ outcome'[t] = Result
    BY <1>7 DEF End, Inv, TypeOK
  <2>2. OutcomeTells(t)'
    BY <1>1, <1>2, <2>1 DEF OutcomeTells
  <2> QED BY <1>1, <1>5, <1>6, <2>1, <2>2, ResultType, ProgressStep
<1>8. CASE guard[t].phase = "before" /\ Suspend(t, "resolving")
  <2>1. pc' = [pc EXCEPT ![t] = "resolving"] /\ outcome' = outcome
    BY <1>8 DEF Suspend
  <2>2. outcome' = [outcome EXCEPT ![t] = None] /\ outcome'[t] = None
    BY <1>2, <2>1 DEF Inv, TypeOK
  <2>3. OutcomeTells(t)'
    BY <2>2 DEF OutcomeTells
  <2> QED BY <1>1, <1>2, <1>5, <1>6, <1>8, <2>1, <2>2, <2>3, ProgressStep
<1> QED BY <1>7, <1>8 DEF Allowed

LEMMA DeniedStep ==
  ASSUME Inv, NEW t \in Calls, Denied(t)
  PROVE  Inv'
<1>1. /\ pc[t] = "deciding"
      /\ UNCHANGED <<engine, cache, call, principal, surface, subject, decision, loaded>>
      /\ ran' = ran
  BY DEF Denied
<1>2. PICK reason \in {decision[t].reason, "audit_unavailable"} \ {NoReason} :
        End(t, Denial(t, reason))
  BY DEF Denied
<1>3. /\ RanAuthorised(t)
      /\ guard[t] \in Guards /\ surface[t] \in Surfaces /\ subject[t] # None
      /\ decision[t] \in Decisions
  BY <1>1, NoneIsNew DEF Inv, FieldInv, InOrder, DecidedByRule
<1>4. reason \in Reasons
  BY <1>3 DEF Decisions, Reasons, EngineReasons
<1>5. Denial(t, reason) \in Outcome
  BY <1>3, <1>4, DenialType
<1>6. Denial(t, reason)' = Denial(t, reason)
  BY <1>1 DEF Denial, call
<1> DEFINE denial == Denial(t, reason)
<1>7. /\ pc' = [pc EXCEPT ![t] = "ended"] /\ outcome' = [outcome EXCEPT ![t] = denial]
      /\ outcome'[t] = denial
  BY <1>2 DEF End, Inv, TypeOK
<1>8. RanAuthorised(t)'
  BY <1>1, <1>3 DEF RanAuthorised, Grants, call
<1>9. OutcomeTells(t)'
  <2> HIDE DEF denial
  <2>1. outcome'[t] = Denial(t, reason)' /\ subject'[t] # None
    BY <1>1, <1>3, <1>6, <1>7 DEF denial
  <2> QED BY <1>4, <2>1 DEF OutcomeTells
<1> HIDE DEF denial
<1>10. denial \in Outcome
  BY <1>5 DEF denial
<1> QED BY <1>1, <1>7, <1>8, <1>9, <1>10, ProgressStep

LEMMA AbandonStep ==
  ASSUME Inv, NEW t \in Calls, Abandon(t)
  PROVE  Inv'
<1>1. /\ pc[t] # "idle"
      /\ UNCHANGED <<engine, cache, call, principal, surface, subject, decision, loaded>>
      /\ ran' = ran
      /\ pc' = [pc EXCEPT ![t] = "ended"] /\ outcome' = [outcome EXCEPT ![t] = Raised]
  BY DEF Abandon, End
<1>2. outcome'[t] = Raised
  BY <1>1 DEF Inv, TypeOK
<1>3. OutcomeTells(t)'
  BY <1>2 DEF OutcomeTells
<1>4. RanAuthorised(t)'
  BY <1>1 DEF RanAuthorised, Grants, call, Inv, FieldInv
<1> QED BY <1>1, <1>3, <1>4, ResultType, ProgressStep

-----------------------------------------------------------------------------
(* The theorems.                                                           *)

LEMMA InitInv == Init => Inv
<1> SUFFICES ASSUME Init PROVE Inv
  OBVIOUS
<1>1. TypeOK
  BY GuardAssumption DEF Init, TypeOK
<1>2. FieldInv
  BY DEF Init, FieldInv, InOrder, DecidedByRule, OutcomeTells, RanAuthorised
<1>3. SharingInv
  BY DEF Init, SharingInv, CacheIsOwn, LoadsAreRemembered, PrincipalsWereLoaded,
         RepeatedLoadsOverlap
<1> QED BY <1>1, <1>2, <1>3 DEF Inv

LEMMA NextInv == Inv /\ [Next]_vars => Inv'
<1> SUFFICES ASSUME Inv, [Next]_vars PROVE Inv'
  OBVIOUS
<1>1. CASE \E pair \in Pairs, binding \in Bindings : Replace(pair, binding)
  BY <1>1, ReplaceStep
<1>2. CASE \E t \in Calls : Begins(t)
  BY <1>2, ReuseStep, LoadAtOnceStep, LoadLaterStep DEF Begins
<1>3. CASE \E t \in Calls : Continues(t)
  BY <1>3, PrincipalLoadedStep, EngineResolvedStep, ResolverReturnsStep,
     SubjectAbsentStep, SubjectFetchedStep, AllowedStep, DeniedStep DEF Continues
<1>4. CASE \E t \in Calls : Abandon(t)
  BY <1>4, AbandonStep
<1>5. CASE UNCHANGED vars
  <2>1. TypeOK'
    BY <1>5 DEF vars, engine, call, Inv, TypeOK
  <2>2. FieldInv'
    BY <1>5 DEF vars, engine, call, Inv, FieldInv, InOrder, DecidedByRule, Grants,
                Verdict, OutcomeTells, Denial, RanAuthorised
  <2>3. SharingInv'
    BY <1>5, SharingStays DEF vars, Inv
  <2> QED BY <2>1, <2>2, <2>3 DEF Inv
<1> QED BY <1>1, <1>2, <1>3, <1>4, <1>5 DEF Next

(* The inductive invariant holds of every reachable state                  *)
(* (adapters/strawberry/guard.py:94-322).                                 *)
THEOREM Invariance == Spec => []Inv
<1> QED BY InitInv, NextInv, PTL DEF Spec

(* Whatever a field becomes is a value, None or an error of the handlers'  *)
(* own kinds, and every await has what the code after it reads.            *)
THEOREM TypeCorrectness == Spec => []TypeOK
<1>1. Inv => TypeOK
  BY DEF Inv
<1> QED BY <1>1, Invariance, PTL

(* No field decides for a principal of another loader, nor for that of     *)
(* another user where its context is one user's or remembers nothing,      *)
(* however fields interleave (_resolve_principal, guard.py:131-161): the   *)
(* principal was loaded in the field's own context, and by the field       *)
(* itself where the context keeps nothing.                                 *)
THEOREM NoBorrowedPrincipals == Spec => []PrincipalsAreOwn
<1>1. ASSUME Inv, NEW t \in Calls, principal[t] # None
      PROVE  /\ principal[t].loader = guard[t].loader
             /\ OneUser(request[t].context) \/ request[t].context \notin Cacheable
                  => principal[t].user = request[t].user
  <2>1. /\ principal[t].loader = guard[t].loader
        /\ \E u \in loaded :
             /\ request[u].user = principal[t].user
             /\ request[u].context = request[t].context
             /\ u # t => request[t].context \in Cacheable
    BY <1>1 DEF Inv, SharingInv, PrincipalsWereLoaded
  <2>2. PICK u \in loaded :
           /\ request[u].user = principal[t].user
           /\ request[u].context = request[t].context
           /\ u # t => request[t].context \in Cacheable
    BY <2>1
  <2>3. CASE request[t].context \notin Cacheable
    BY <2>1, <2>2, <2>3
  <2>4. CASE OneUser(request[t].context)
    <3>1. request[u] \in Requests /\ request[t] \in Requests
      BY <1>1, <2>1, <2>2 DEF Inv, TypeOK, FieldInv, InOrder
    <3> QED BY <2>1, <2>2, <2>4, <3>1 DEF OneUser
  <2> QED BY <2>1, <2>3, <2>4
<1>2. Inv => PrincipalsAreOwn
  BY <1>1 DEF PrincipalsAreOwn
<1> QED BY <1>2, Invariance, PTL

(* A loader is called twice for a context only by fields that overlap, or  *)
(* where the context cannot be remembered (guard.py:131-161).              *)
THEOREM LoadsAreShared == Spec => []RepeatedLoadsOverlap
<1>1. Inv => RepeatedLoadsOverlap
  BY DEF Inv, SharingInv
<1> QED BY <1>1, Invariance, PTL

(* No resolver is started without an allow, but that of a post-resolution  *)
(* guard that may (guard.py:249-322).                                      *)
THEOREM ResolversAreAuthorised == Spec => []NothingRunsUnauthorised
<1>1. Inv => NothingRunsUnauthorised
  BY DEF Inv, TypeOK, FieldInv, RanAuthorised, NothingRunsUnauthorised
<1> QED BY <1>1, Invariance, PTL

(* No value is shown without a policy's allow for the field's principal    *)
(* and subject, and while nobody replaces bindings that policy is the one  *)
(* bound to the subject's own type (guard.py:249-322).                     *)
THEOREM OnlyGrantedValues == Spec => []ValuesAreGranted
<1>1. ASSUME Inv, NEW t \in Calls, outcome[t] = Result
      PROVE  /\ Grants(t)
             /\ replacements = 0 =>
                  LET binding == bindings[<<guard[t].action, TypeOf[subject[t]]>>]
                  IN /\ binding # None
                     /\ Rule[binding.policy][<<principal[t], subject[t]>>] = ALLOW
  <2>1. InOrder(t) /\ DecidedByRule(t) /\ OutcomeTells(t)
    BY <1>1 DEF Inv, FieldInv
  <2>2. outcome[t] \notin {None, Raised}
    BY <1>1, ResultType, NoneIsNew
  <2>3. guard[t] \in Guards
    BY <2>1, <2>2 DEF InOrder
  <2>4. subject[t] # None
    <3>1. guard[t].handler \in Handlers \cup {None} /\ "not_found" \in Surfaces
      BY <2>3, GuardFields DEF Surfaces
    <3>2. Handler(guard[t].handler, NoReason, "not_found") # Result
      BY <3>1, HandlerType, ErrorsAreNoResult
    <3>3. Result.kind # "PermissionDenied"
      BY DEF Result
    <3> QED BY <1>1, <2>1, <2>2, <3>2, <3>3 DEF OutcomeTells
  <2>5. surface[t] \in Surfaces /\ principal[t] \in Principals /\ subject[t] \in Subjects
    BY <1>1, <2>1, <2>4 DEF DecidedByRule, Inv, TypeOK
  <2>6. decision[t].allowed
    <3>1. \A reason \in Reasons : Denial(t, reason) # Result
      BY <2>3, <2>5, DenialType
    <3> QED BY <1>1, <2>1, <2>2, <2>4, <3>1 DEF OutcomeTells
  <2>7. Grants(t)
    BY <2>1, <2>4, <2>6 DEF DecidedByRule
  <2>8. ASSUME replacements = 0
        PROVE  LET binding == bindings[<<guard[t].action, TypeOf[subject[t]]>>]
               IN /\ binding # None
                  /\ Rule[binding.policy][<<principal[t], subject[t]>>] = ALLOW
    <3> DEFINE binding == bindings[<<guard[t].action, TypeOf[subject[t]]>>]
    <3>1. <<guard[t].action, TypeOf[subject[t]]>> \in Pairs
      BY <2>3, <2>5, GuardFields, GuardAssumption DEF Pairs
    <3>2. binding \in Bindings \cup {None}
      BY <1>1, <3>1 DEF Inv, TypeOK
    <3>3. Verdict(binding, principal[t], subject[t]).allowed
      BY <2>1, <2>4, <2>6, <2>8 DEF DecidedByRule
    <3> HIDE DEF binding
    <3>4. binding # None /\ Rule[binding.policy][<<principal[t], subject[t]>>] = ALLOW
      BY <2>5, <3>2, <3>3, VerdictType
    <3> QED BY <3>4 DEF binding
  <2> QED BY <2>7, <2>8
<1>2. Inv => ValuesAreGranted
  BY <1>1 DEF ValuesAreGranted
<1> QED BY <1>2, Invariance, PTL

(* Under NOT_FOUND a denial and an absence are one answer to the client,   *)
(* whichever policy denied (guard.py:74-91, 187-198).                    *)
THEOREM DenialsConceal == Spec => []DeniedLooksAbsent
<1>1. ASSUME Inv, NEW t \in Calls, NEW u \in Calls,
             surface[t] = "not_found",
             subject[t] # None,
             outcome[t] \notin {None, Result, Raised},
             surface[u] # None,
             subject[u] = None,
             outcome[u] \notin {None, Raised},
             ~Refused(guard[u], request[u].operation),
             guard[t].handler = guard[u].handler
      PROVE  outcome[t] = outcome[u]
  <2>1. OutcomeTells(t) /\ OutcomeTells(u)
    BY <1>1 DEF Inv, FieldInv
  <2>2. PICK reason \in Reasons : outcome[t] = Denial(t, reason)
    BY <1>1, <2>1 DEF OutcomeTells
  <2>3. outcome[t] = Handler(guard[t].handler, reason, "not_found")
    BY <1>1, <2>2 DEF Denial
  <2>4. outcome[u] = Handler(guard[u].handler, NoReason, "not_found")
    BY <1>1, <2>1 DEF OutcomeTells
  <2> QED BY <1>1, <2>3, <2>4 DEF Handler
<1>2. Inv => DeniedLooksAbsent
  BY <1>1 DEF DeniedLooksAbsent
<1> QED BY <1>2, Invariance, PTL
=============================================================================
