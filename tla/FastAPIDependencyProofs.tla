---------------------- MODULE FastAPIDependencyProofs ----------------------
(***************************************************************************)
(* require_policy keeps its promises for every set of routes, requests and *)
(* policies, every mapper, and bindings registered and replaced at any     *)
(* time.                                                                   *)
(***************************************************************************)
EXTENDS FastAPIDependency, TLAPS

-----------------------------------------------------------------------------
(* Facts about the constants and the operators.                            *)

LEMMA NoneIsNew ==
  /\ None \notin Bindings
  /\ None \notin Surfaces
  /\ None \notin Principals
  /\ None \notin Subjects
  /\ None \notin Decisions
  /\ None \notin Details
  /\ None \notin Reasons
  /\ None \notin Responses
BY DependencyAssumption

LEMMA DenyType ==
  ASSUME NEW reason \in Reasons
  PROVE  Deny(reason) \in {d \in Decisions : ~d.allowed}
<1>1. reason # NoReason
  BY ReasonsAssumption DEF Reasons, EngineReasons, NoReason
<1> QED BY <1>1 DEF Deny, Decisions

LEMMA VerdictType ==
  ASSUME NEW binding \in Bindings \cup {None},
         NEW p \in Principals, NEW s \in Subjects
  PROVE  Verdict(binding, p, s) \in Decisions
<1>1. CASE binding = None
  BY <1>1, DenyType DEF Verdict, Reasons, EngineReasons
<1>2. CASE binding # None
  <2>1. binding.policy \in Policies /\ <<p, s>> \in Principals \X Subjects
    BY <1>2 DEF Bindings
  <2>2. Rule[binding.policy][<<p, s>>] \in Decisions
    BY <2>1, DependencyAssumption
  <2> QED BY <1>2, <2>2 DEF Verdict
<1> QED BY <1>1, <1>2

LEMMA PairOfType ==
  ASSUME NEW r \in Routes
  PROVE  PairOf(r) \in Pairs /\ PairOf(r) = <<r.action, r.type>>
BY DependencyAssumption DEF PairOf

LEMMA SurfaceType ==
  ASSUME TypeOK, NEW r \in Routes
  PROVE  BindingDenialSurface(r) \in Surfaces
<1>1. bindings[<<r.action, r.type>>] \in Bindings \cup {None}
  BY PairOfType DEF TypeOK
<1> QED BY <1>1 DEF BindingDenialSurface, BindingFor, Bindings, Surfaces

(* What a denial tells on a route that is ready: always one of the         *)
(* responses, and never the failed assertion.                              *)
LEMMA DenialType ==
  ASSUME NEW captured \in Surfaces, NEW r, captured = "null" => r.mapper,
         NEW reason \in Reasons
  PROVE  Denial(captured, r, reason) \in Responses \ {AssertionFailed}
<1>1. CASE captured = "forbidden"
  <2>1. Denial(captured, r, reason) = [status |-> 403, body |-> reason]
    BY <1>1 DEF Denial, Response
  <2>2. [status |-> 403, body |-> reason] \in [status : {403}, body : Reasons]
    OBVIOUS
  <2> QED BY <2>1, <2>2 DEF Responses, AssertionFailed, Response
<1>2. CASE captured = "not_found"
  BY <1>2 DEF Denial, Response, Responses, NotFound, AssertionFailed
<1>3. CASE captured = "null"
  <2> DEFINE denial == Mapper[Deny(reason)]
  <2>1. denial \in HttpDenials
    BY DenyType, DependencyAssumption
  <2>2. /\ denial.status_code \in Statuses
        /\ DetailOf(denial, reason) \in Details \cup Reasons
    BY <2>1 DEF HttpDenials, DetailOf
  <2>3. Denial(captured, r, reason)
          = [status |-> denial.status_code, body |-> DetailOf(denial, reason)]
    BY <1>3 DEF Denial, Response
  <2>4. Denial(captured, r, reason) \in [status : Statuses, body : Details \cup Reasons]
    <3> HIDE DEF denial
    <3> QED BY <2>2, <2>3
  <2>5. Denial(captured, r, reason) # AssertionFailed
    BY <2>4, DependencyAssumption DEF AssertionFailed, Response
  <2> QED BY <2>4, <2>5 DEF Responses
<1> QED BY <1>1, <1>2, <1>3 DEF Surfaces

(* The reasons a denied request may be told.                               *)
LEMMA ToldReasons ==
  ASSUME NEW d \in Decisions
  PROVE  {d.reason, "audit_unavailable"} \ {NoReason} \subseteq Reasons
BY DEF Decisions, Reasons, EngineReasons, NoReason

-----------------------------------------------------------------------------
(* Every step preserves the invariant.                                     *)

LEMMA BindStep ==
  ASSUME Inv, NEW pair \in Pairs, NEW binding \in Bindings, Bind(pair, binding)
  PROVE  Inv'
<1>1. TypeOK'
  BY DependencyAssumption DEF Inv, TypeOK, Bind
<1>2. \A r \in Routes : surface[r] \in Surfaces /\ r \notin touched' =>
        /\ r \notin touched
        /\ bindings'[PairOf(r)] = bindings[PairOf(r)]
  BY NoneIsNew, PairOfType DEF Inv, TypeOK, Bind
<1>3. RoutesAreReady'
  <2> SUFFICES ASSUME NEW r \in Routes, surface[r] \in Surfaces
               PROVE  /\ surface[r] = "null" => r.mapper
                      /\ r \notin touched' => surface[r] = BindingDenialSurface(r)'
    BY DEF RoutesAreReady, Bind
  <2>1. surface[r] = "null" => r.mapper
    BY DEF Inv, RoutesAreReady
  <2>2. ASSUME r \notin touched'
        PROVE  surface[r] = BindingDenialSurface(r)'
    <3>1. surface[r] = BindingDenialSurface(r)
      BY <1>2, <2>2 DEF Inv, RoutesAreReady
    <3>2. bindings'[<<r.action, r.type>>] = bindings[<<r.action, r.type>>]
      BY <1>2, <2>2, PairOfType
    <3> QED BY <3>1, <3>2 DEF BindingDenialSurface, BindingFor
  <2> QED BY <2>1, <2>2
<1>4. CallsInOrder'
  BY DEF Inv, CallsInOrder, Bind
<1>5. DecisionsFollowTheBinding'
  <2> SUFFICES ASSUME NEW t \in Calls, subject[t] # None, route[t] \notin touched',
                      TypeOf[subject[t]] = route[t].type
               PROVE  decision[t] = Verdict(bindings'[PairOf(route[t])], principal[t], subject[t])
    BY DEF DecisionsFollowTheBinding, Bind, Verdict
  <2>1. route[t] \in Routes /\ surface[route[t]] \in Surfaces
    BY DEF Inv, TypeOK, CallsInOrder
  <2> QED BY <1>2, <2>1 DEF Inv, DecisionsFollowTheBinding
<1>6. ResponsesTellTheDecision'
  BY DEF Inv, ResponsesTellTheDecision, Bind
<1> QED BY <1>1, <1>3, <1>4, <1>5, <1>6 DEF Inv

LEMMA RequirePolicyStep ==
  ASSUME Inv, NEW r \in Routes, RequirePolicy(r)
  PROVE  Inv'
<1>1. BindingDenialSurface(r) \in Surfaces
  BY SurfaceType DEF Inv
<1>2. surface[r] \notin Surfaces
  BY NoneIsNew DEF RequirePolicy
<1>3. \A q \in Routes \ {r} : surface'[q] = surface[q]
  BY DEF RequirePolicy, Inv, TypeOK
<1>4. TypeOK'
  BY <1>1 DEF Inv, TypeOK, RequirePolicy, engine
<1>5. RoutesAreReady'
  <2>1. \A q \in Routes : BindingDenialSurface(q)' = BindingDenialSurface(q)
    BY DEF RequirePolicy, engine, BindingDenialSurface, BindingFor
  <2>2. surface'[r] = IF BindingDenialSurface(r) = "null" /\ ~r.mapper THEN "refused"
                      ELSE BindingDenialSurface(r)
    BY DEF RequirePolicy, Inv, TypeOK
  <2> HIDE DEF BindingDenialSurface
  <2>3. surface'[r] \in Surfaces =>
          /\ surface'[r] = "null" => r.mapper
          /\ surface'[r] = BindingDenialSurface(r)
    BY <2>2 DEF Surfaces
  <2>4. touched' = touched
    BY DEF RequirePolicy, engine
  <2> QED BY <1>3, <2>1, <2>3, <2>4 DEF Inv, RoutesAreReady
<1>6. \A t \in Calls : pc[t] # "idle" => route[t] \in Routes \ {r}
  BY <1>2 DEF Inv, CallsInOrder
<1>7. CallsInOrder'
  BY <1>3, <1>6 DEF Inv, CallsInOrder, RequirePolicy, engine
<1>8. DecisionsFollowTheBinding'
  BY DEF Inv, DecisionsFollowTheBinding, RequirePolicy, engine, Verdict
<1>9. ResponsesTellTheDecision'
  <2>1. \A t \in Calls : response[t] # None => surface'[route[t]] = surface[route[t]]
    BY <1>3, <1>6 DEF Inv, CallsInOrder
  <2> QED BY <2>1 DEF Inv, ResponsesTellTheDecision, RequirePolicy
<1> QED BY <1>4, <1>5, <1>7, <1>8, <1>9 DEF Inv

(* A step of one request leaves the engine, the routes and the others      *)
(* alone: what is to show is about that request.                           *)
LEMMA RequestStep ==
  ASSUME Inv, TypeOK', NEW t \in Calls, UNCHANGED <<engine, surface>>,
         \A u \in Calls \ {t} :
           /\ pc'[u] = pc[u] /\ route'[u] = route[u]
           /\ principal'[u] = principal[u] /\ subject'[u] = subject[u]
           /\ decision'[u] = decision[u] /\ response'[u] = response[u],
         pc'[t] # "idle" /\ route'[t] \in Routes /\ surface[route'[t]] \in Surfaces,
         pc'[t] # "ended" => response'[t] = None,
         pc'[t] \in {"fetching", "deciding"} => principal'[t] \in Principals,
         pc'[t] = "authenticating" => principal'[t] = None,
         pc'[t] \in {"authenticating", "fetching"} => subject'[t] = None,
         pc'[t] = "deciding" => subject'[t] \in Subjects,
         subject'[t] # None =>
           /\ principal'[t] \in Principals
           /\ decision'[t] \in Decisions
           /\ route'[t] \notin touched /\ TypeOf[subject'[t]] = route'[t].type =>
                decision'[t] =
                  Verdict(bindings[PairOf(route'[t])], principal'[t], subject'[t]),
         response'[t] \notin {None, Raised} =>
           IF subject'[t] = None THEN response'[t] = NotFound
           ELSE \/ decision'[t].allowed /\ response'[t] = Pass
                \/ \E reason \in {decision'[t].reason, "audit_unavailable"} \ {NoReason} :
                     response'[t] = Denial(surface[route'[t]], route'[t], reason)
  PROVE  Inv'
<1>1. RoutesAreReady'
  BY DEF Inv, RoutesAreReady, engine, BindingDenialSurface, BindingFor
<1>2. CallsInOrder'
  BY DEF Inv, CallsInOrder
<1>3. DecisionsFollowTheBinding'
  BY DEF Inv, DecisionsFollowTheBinding, engine, Verdict
<1>4. ResponsesTellTheDecision'
  BY DEF Inv, ResponsesTellTheDecision
<1> QED BY <1>1, <1>2, <1>3, <1>4 DEF Inv

LEMMA ReceiveStep ==
  ASSUME Inv, NEW t \in Calls, NEW r \in Routes, Receive(t, r)
  PROVE  Inv'
<1>1. TypeOK'
  BY DEF Inv, TypeOK, Receive, Suspend, engine
<1> QED BY <1>1, RequestStep
   DEF Inv, TypeOK, CallsInOrder, Receive, Suspend

LEMMA PrincipalLoadedStep ==
  ASSUME Inv, NEW t \in Calls, NEW p \in Principals, PrincipalLoaded(t, p)
  PROVE  Inv'
<1>1. TypeOK'
  BY DEF Inv, TypeOK, PrincipalLoaded, Suspend, engine
<1> QED BY <1>1, RequestStep
   DEF Inv, TypeOK, CallsInOrder, PrincipalLoaded, Suspend

LEMMA SubjectAbsentStep ==
  ASSUME Inv, NEW t \in Calls, SubjectAbsent(t)
  PROVE  Inv'
<1>1. TypeOK'
  BY DEF Inv, TypeOK, SubjectAbsent, End, engine, Responses
<1> QED BY <1>1, RequestStep
   DEF Inv, TypeOK, CallsInOrder, SubjectAbsent, End

LEMMA SubjectFetchedStep ==
  ASSUME Inv, NEW t \in Calls, NEW s \in Subjects, SubjectFetched(t, s)
  PROVE  Inv'
<1>1. route[t] \in Routes /\ surface[route[t]] \in Surfaces /\ principal[t] \in Principals
  BY DEF Inv, CallsInOrder, SubjectFetched
<1> DEFINE pair == <<route[t].action, TypeOf[s]>>
<1>2. pair \in Pairs
  BY <1>1, PairOfType, DependencyAssumption DEF Pairs
<1>3. bindings[pair] \in Bindings \cup {None}
  BY <1>2 DEF Inv, TypeOK
<1>4. Verdict(bindings[pair], principal[t], s) \in Decisions
  BY <1>1, <1>3, VerdictType
<1>5. TypeOf[s] = route[t].type => pair = PairOf(route[t])
  BY DEF PairOf
<1>6. /\ pc' = [pc EXCEPT ![t] = "deciding"]
      /\ subject' = [subject EXCEPT ![t] = s]
      /\ decision' = [decision EXCEPT ![t] = Verdict(bindings[pair], principal[t], s)]
      /\ pc[t] = "fetching"
      /\ UNCHANGED <<engine, surface, route, principal, response>>
  BY DEF SubjectFetched, Suspend
<1> HIDE DEF pair
<1>7. TypeOK'
  BY <1>4, <1>6 DEF Inv, TypeOK, engine
<1>8. response[t] = None
  BY <1>6 DEF Inv, CallsInOrder
<1> QED BY <1>1, <1>4, <1>5, <1>6, <1>7, <1>8, RequestStep DEF Inv, TypeOK

LEMMA AllowedStep ==
  ASSUME Inv, NEW t \in Calls, Allowed(t)
  PROVE  Inv'
<1>1. TypeOK'
  BY DEF Inv, TypeOK, Allowed, End, engine, Responses
<1>2. /\ subject[t] \in Subjects
      /\ route[t] \in Routes /\ surface[route[t]] \in Surfaces
  BY DEF Inv, CallsInOrder, Allowed
<1> QED BY <1>1, <1>2, NoneIsNew, RequestStep
   DEF Inv, TypeOK, CallsInOrder, DecisionsFollowTheBinding, Allowed, End

LEMMA DeniedStep ==
  ASSUME Inv, NEW t \in Calls, Denied(t)
  PROVE  Inv'
<1>1. PICK reason \in {decision[t].reason, "audit_unavailable"} \ {NoReason} :
        End(t, Denial(surface[route[t]], route[t], reason))
  BY DEF Denied, SurfaceOf
<1>2. /\ pc[t] = "deciding"
      /\ UNCHANGED <<engine, surface, route, principal, subject, decision>>
  BY DEF Denied
<1>3. /\ subject[t] \in Subjects
      /\ principal[t] \in Principals
      /\ decision[t] \in Decisions
      /\ route[t] \in Routes /\ surface[route[t]] \in Surfaces
  BY <1>2, NoneIsNew DEF Inv, CallsInOrder
<1>4. reason \in Reasons
  BY <1>3, ToldReasons
<1>5. Denial(surface[route[t]], route[t], reason) \in Responses
  BY <1>3, <1>4, DenialType DEF Inv, RoutesAreReady
<1>6. TypeOK'
  BY <1>1, <1>2, <1>5 DEF Inv, TypeOK, End, engine
<1> QED BY <1>1, <1>2, <1>3, <1>6, NoneIsNew, RequestStep
   DEF Inv, TypeOK, DecisionsFollowTheBinding, End

LEMMA AbandonStep ==
  ASSUME Inv, NEW t \in Calls, Abandon(t)
  PROVE  Inv'
<1>1. TypeOK'
  BY DEF Inv, TypeOK, Abandon, End, engine, Responses
<1>2. route[t] \in Routes /\ surface[route[t]] \in Surfaces
  BY DEF Inv, CallsInOrder, Abandon
<1> QED BY <1>1, <1>2, RequestStep
   DEF Inv, TypeOK, CallsInOrder, DecisionsFollowTheBinding, Abandon, End

-----------------------------------------------------------------------------
(* The theorems.                                                           *)

LEMMA InitInv == Init => Inv
<1> SUFFICES ASSUME Init PROVE Inv
  OBVIOUS
<1>1. TypeOK
  BY DependencyAssumption DEF Init, TypeOK
<1> QED BY <1>1, NoneIsNew
   DEF Init, Inv, RoutesAreReady, CallsInOrder, DecisionsFollowTheBinding,
       ResponsesTellTheDecision

LEMMA NextInv == Inv /\ [Next]_vars => Inv'
<1> SUFFICES ASSUME Inv, [Next]_vars PROVE Inv'
  OBVIOUS
<1>1. CASE \E pair \in Pairs, binding \in Bindings : Bind(pair, binding)
  BY <1>1, BindStep
<1>2. CASE \E r \in Routes : RequirePolicy(r)
  BY <1>2, RequirePolicyStep
<1>3. CASE \E t \in Calls, r \in Routes : Receive(t, r)
  BY <1>3, ReceiveStep
<1>4. CASE \E t \in Calls, p \in Principals : PrincipalLoaded(t, p)
  BY <1>4, PrincipalLoadedStep
<1>5. CASE \E t \in Calls : SubjectAbsent(t)
  BY <1>5, SubjectAbsentStep
<1>6. CASE \E t \in Calls, s \in Subjects : SubjectFetched(t, s)
  BY <1>6, SubjectFetchedStep
<1>7. CASE \E t \in Calls : Allowed(t) \/ Denied(t) \/ Abandon(t)
  BY <1>7, AllowedStep, DeniedStep, AbandonStep
<1>8. CASE UNCHANGED vars
  <2>1. UNCHANGED <<bindings, bound, touched, surface, pc, route, principal, subject,
                    decision, response>>
    BY <1>8 DEF vars, engine
  <2>2. TypeOK' /\ CallsInOrder'
    BY <2>1 DEF Inv, TypeOK, CallsInOrder
  <2>3. RoutesAreReady'
    BY <2>1 DEF Inv, RoutesAreReady, BindingDenialSurface, BindingFor
  <2>4. DecisionsFollowTheBinding'
    BY <2>1 DEF Inv, DecisionsFollowTheBinding, BindingFor, Verdict
  <2>5. ResponsesTellTheDecision'
    BY <2>1 DEF Inv, ResponsesTellTheDecision
  <2> QED BY <2>2, <2>3, <2>4, <2>5 DEF Inv
<1> QED BY <1>1, <1>2, <1>3, <1>4, <1>5, <1>6, <1>7, <1>8 DEF Next

(* The invariant holds of every reachable state: what a route captured and *)
(* what a request was told, against the bindings as they change            *)
(* (adapters/fastapi/dependency.py:118-160).                               *)
THEOREM Invariance == Spec => []Inv
<1> QED BY InitInv, NextInv, PTL DEF Spec

(* Every response is one the dependency defines; a 403 and a mapped denial *)
(* always have a body (adapters/fastapi/dependency.py:68-76).              *)
THEOREM TypeCorrectness == Spec => []TypeOK
<1>1. Inv => TypeOK
  BY DEF Inv
<1> QED BY <1>1, Invariance, PTL

(* The assertion that narrows null_mapper never fails, whatever is bound   *)
(* after a route was built (adapters/fastapi/dependency.py:157-159).       *)
THEOREM MapperIsThere == Spec => []MapperAtHand
<1>1. ASSUME Inv, NEW t \in Calls
      PROVE  response[t] # AssertionFailed
  <2>1. CASE response[t] \in {None, Raised, NotFound, Pass}
    BY <2>1, NoneIsNew, DependencyAssumption DEF Responses, Raised, NotFound, Pass, AssertionFailed, Response
  <2>2. CASE response[t] \notin {None, Raised, NotFound, Pass}
    <3>1. PICK reason \in {decision[t].reason, "audit_unavailable"} \ {NoReason} :
            response[t] = Denial(surface[route[t]], route[t], reason)
      BY <1>1, <2>2 DEF Inv, ResponsesTellTheDecision
    <3>2. subject[t] # None
      BY <1>1, <2>2 DEF Inv, ResponsesTellTheDecision
    <3>3. decision[t] \in Decisions /\ pc[t] # "idle"
      BY <1>1, <3>2 DEF Inv, CallsInOrder
    <3>4. route[t] \in Routes /\ surface[route[t]] \in Surfaces
      BY <1>1, <3>3 DEF Inv, CallsInOrder
    <3>5. reason \in Reasons
      BY <3>3, ToldReasons
    <3> QED BY <1>1, <3>1, <3>4, <3>5, DenialType DEF Inv, RoutesAreReady
  <2> QED BY <2>1, <2>2
<1>2. Inv => MapperAtHand
  BY <1>1 DEF MapperAtHand
<1> QED BY <1>2, Invariance, PTL

(* On a route that conceals, denied is told exactly as absent is, between  *)
(* any two requests (adapters/fastapi/dependency.py:134-136 and 152-156).  *)
THEOREM DenialsConceal == Spec => []DeniedLooksAbsent
<1>1. ASSUME Inv, NEW t \in Calls, NEW u \in Calls,
             response[t] \notin {None, Raised, Pass},
             response[u] \notin {None, Raised},
             surface[route[t]] = "not_found",
             subject[t] # None,
             subject[u] = None
      PROVE  response[t] = response[u]
  <2>1. response[u] = NotFound
    BY <1>1 DEF Inv, ResponsesTellTheDecision
  <2>2. PICK reason \in {decision[t].reason, "audit_unavailable"} \ {NoReason} :
          response[t] = Denial(surface[route[t]], route[t], reason)
    BY <1>1 DEF Inv, ResponsesTellTheDecision
  <2>3. Denial(surface[route[t]], route[t], reason) = NotFound
    BY <1>1 DEF Denial
  <2> QED BY <2>1, <2>2, <2>3
<1>2. Inv => DeniedLooksAbsent
  BY <1>1 DEF DeniedLooksAbsent
<1> QED BY <1>2, Invariance, PTL

(* As long as the binding of a route stands, a request passes only if its  *)
(* policy allows, and is refused the way its surface says                  *)
(* (adapters/fastapi/dependency.py:3-5).                                   *)
THEOREM RoutesFollowTheirBinding == Spec => []ResponsesFollowTheBinding
<1> DEFINE Told(d) == {d.reason, "audit_unavailable"} \ {NoReason}
<1>1. ASSUME Inv, NEW t \in Calls, response[t] \notin {None, Raised},
             route[t] \notin touched, subject[t] # None,
             TypeOf[subject[t]] = route[t].type
      PROVE  LET binding == bindings[PairOf(route[t])]
                 verdict == Verdict(binding, principal[t], subject[t])
             IN \/ verdict = ALLOW /\ response[t] = Pass
                \/ /\ IF binding = None THEN TRUE ELSE binding.surface = "forbidden"
                   /\ response[t].status = 403
                   /\ response[t].body \in Told(verdict)
                \/ /\ binding # None
                   /\ binding.surface = "not_found"
                   /\ response[t].status = 404
                \/ /\ binding # None
                   /\ binding.surface = "null"
                   /\ \E reason \in Told(verdict) :
                        response[t].status = Mapper[Deny(reason)].status_code
  <2> DEFINE r == route[t]
             binding == bindings[PairOf(r)]
             verdict == Verdict(binding, principal[t], subject[t])
  <2>1. decision[t] = verdict /\ decision[t] \in Decisions
    BY <1>1 DEF Inv, DecisionsFollowTheBinding, CallsInOrder
  <2>2. r \in Routes /\ surface[r] \in Surfaces
    BY <1>1 DEF Inv, CallsInOrder
  <2>3. /\ surface[r] = IF binding = None THEN "forbidden" ELSE binding.surface
        /\ surface[r] = "null" => r.mapper
    BY <1>1, <2>2, PairOfType DEF Inv, RoutesAreReady, BindingDenialSurface, BindingFor
  <2> HIDE DEF binding, verdict
  <2>4. CASE decision[t].allowed /\ response[t] = Pass
    <3>1. verdict = ALLOW
      BY <2>1, <2>4 DEF Decisions, ALLOW
    <3> QED BY <2>4, <3>1 DEF binding, verdict
  <2>5. CASE \E reason \in Told(verdict) : response[t] = Denial(surface[r], r, reason)
    <3>1. PICK reason \in Told(verdict) : response[t] = Denial(surface[r], r, reason)
      BY <2>5
    <3>2. CASE surface[r] = "forbidden"
      <4>1. response[t].status = 403 /\ response[t].body = reason
        BY <3>1, <3>2 DEF Denial, Response
      <4>2. IF binding = None THEN TRUE ELSE binding.surface = "forbidden"
        BY <2>3, <3>2
      <4> QED BY <3>1, <4>1, <4>2 DEF binding, verdict
    <3>3. CASE surface[r] = "not_found"
      <4>1. response[t].status = 404
        BY <3>1, <3>3 DEF Denial, NotFound, Response
      <4>2. binding # None /\ binding.surface = "not_found"
        BY <2>3, <3>3
      <4> QED BY <4>1, <4>2 DEF binding, verdict
    <3>4. CASE surface[r] = "null"
      <4>1. response[t].status = Mapper[Deny(reason)].status_code
        BY <2>3, <3>1, <3>4 DEF Denial, Response
      <4>2. binding # None /\ binding.surface = "null"
        BY <2>3, <3>4
      <4> QED BY <3>1, <4>1, <4>2 DEF binding, verdict
    <3> QED BY <2>2, <3>2, <3>3, <3>4 DEF Surfaces
  <2> QED BY <1>1, <2>1, <2>4, <2>5 DEF Inv, ResponsesTellTheDecision
<1>2. Inv => ResponsesFollowTheBinding
  BY <1>1 DEF ResponsesFollowTheBinding
<1> QED BY <1>2, Invariance, PTL
=============================================================================
