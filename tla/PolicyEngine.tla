---------------------------- MODULE PolicyEngine ----------------------------
(***************************************************************************)
(* core/engine.py: one PolicyEngine, the threads that register policies    *)
(* and resolvers on it, and the tasks that ask it for decisions.           *)
(*                                                                         *)
(* A registration is two steps where the code tests a table and writes it  *)
(* afterwards, because threads may interleave there.  A decision is one    *)
(* step (a single dict lookup, then pure code); adecide then builds the    *)
(* audit entry, with a second lookup, and awaits the store.                *)
(***************************************************************************)
EXTENDS PolicyDecision, SubjectBase, Naturals, Sequences, SequencesExt

CONSTANTS
  Arguments,           \* the audit arguments engines are constructed with
  Actions, Types, Subjects, TypeOf, Principals,
  Policies, Rule,      \* Rule[policy][<<principal, subject>>]: what its body does
  Anonymous,           \* principals actor_id or request_id_for raises on
  Opaque,              \* subjects the resolver of their type raises on
  CallerMetadata,      \* {"valid"}, or with "malformed" for untyped callers
  Registrars, Owns,    \* Owns[r]: the types whose registration r performs
  Calls,               \* request tasks, each of which makes one call
  HotReplacement,      \* TRUE: registration goes on while requests are served
  MaxRegistrations,    \* bound on the registrations attempted
  None

Raises == Deny("raises")

Pairs == Actions \X Types
Bindings == [policy : Policies, surface : Surfaces]
Requests == [principal : Principals, action : Actions, subject : Subjects,
             via : {"decide", "adecide"}]
Entries == [outcome : Outcomes, reason : Reasons \cup {NoReason},
            surface : Surfaces \cup {None}]
PolicyOps == [kind : {"policy"}, pair : Pairs, binding : Bindings]
ResolverOps == [kind : {"resolver"}, type : Types]

Settings == [store : BOOLEAN, outcomes : SUBSET Outcomes, mode : {"log", "deny"},
             base : Bases]

ASSUME EngineAssumption ==
  /\ Arguments \subseteq Settings
  /\ TypeOf \in [Subjects -> Types]
  /\ Rule \in [Policies -> [Principals \X Subjects -> Decisions \cup {Raises}]]
  /\ Types \subseteq Classes
  /\ Owns \in [Registrars -> SUBSET Types]
  /\ MaxRegistrations \in Nat
  /\ HotReplacement \in BOOLEAN
  /\ CallerMetadata \subseteq {"valid", "malformed"}
  /\ None \notin Bindings \cup Surfaces \cup Entries \cup Decisions
              \cup PolicyOps \cup ResolverOps \cup Requests

(* Slip: no cross-check of the failure mode against the audited outcomes.  *)
AnyCombination(c) == Normalize(c.base) # Refused

(* The constructor's arguments, less those ConfigurationError refuses:     *)
(* deny-on-audit-failure needs allows to be audited.                       *)
Constructible(c) ==
  /\ Normalize(c.base) # Refused
  /\ c.mode = "deny" => "allowed" \in c.outcomes

Configs == {c \in Arguments : Constructible(c)}

VARIABLES
  config,      \* what __init__ was given: audit, outcomes, failure mode, base
  serving,     \* the application has finished starting up
  bindings,    \* _bindings: pair -> binding, or None
  order,       \* the insertion order of _bindings
  resolvers,   \* the types in _subject_id_resolvers
  attempts,    \* registrations attempted so far
  storing,     \* per registrar: the write its passed test is about to make
  pc,          \* per call: where its task stands
  request,     \* per call: what it asked
  decider,     \* per call: the binding decide() found
  decision,    \* per call: what decide() returned
  entry,       \* per call: the audit entry handed to the store
  persisted,   \* the calls whose entry the store holds
  warned,      \* the calls whose failed write was logged
  answer       \* per call: the Decision its caller received

tables == <<bindings, order, resolvers>>
registration == <<tables, attempts, storing>>
calls == <<pc, request, decider, decision, entry, persisted, warned, answer>>
vars == <<config, serving, registration, calls>>

PairOf(req) == <<req.action, TypeOf[req.subject]>>

Ended(t) == pc[t] \in {"returned", "raised", "cancelled"}

Init ==
  /\ config \in Configs
  /\ serving = FALSE
  /\ bindings = [p \in Pairs |-> None]
  /\ order = <<>>
  /\ resolvers = {}
  /\ attempts = 0
  /\ storing = [r \in Registrars |-> None]
  /\ pc = [t \in Calls |-> "idle"]
  /\ request = [t \in Calls |-> None]
  /\ decider = [t \in Calls |-> None]
  /\ decision = [t \in Calls |-> None]
  /\ entry = [t \in Calls |-> None]
  /\ persisted = {}
  /\ warned = {}
  /\ answer = [t \in Calls |-> None]

-----------------------------------------------------------------------------
(* Registration.                                                           *)

(* What _check_subject_base lets through.                                  *)
Admissible == {type \in Types : Admits(Normalize(config.base), type)}

MayRegister(r) ==
  /\ ~serving \/ HotReplacement
  /\ storing[r] = None
  /\ attempts < MaxRegistrations

(* Slip: replacing deletes the key first, which moves it to the end.       *)
StoreMovedToEnd(pair, binding) ==
  /\ bindings' = [bindings EXCEPT ![pair] = binding]
  /\ order' = Append(SelectSeq(order, LAMBDA p : p # pair), pair)

(* dict semantics: a new key goes last, a known key keeps its place.       *)
StoreBinding(pair, binding) ==
  /\ bindings' = [bindings EXCEPT ![pair] = binding]
  /\ order' = IF bindings[pair] = None THEN Append(order, pair) ELSE order

(* Slip: policy() does not test for a binding that is already there.       *)
TestNothing(r, pair, binding) ==
  /\ MayRegister(r)
  /\ pair[2] \in Owns[r]
  /\ attempts' = attempts + 1
  /\ IF pair[2] \in Admissible
     THEN storing' = [storing EXCEPT
            ![r] = [kind |-> "policy", pair |-> pair, binding |-> binding]]
     ELSE UNCHANGED storing
  /\ UNCHANGED <<config, serving, tables, calls>>

(* policy()'s decorator: the duplicate test, then the subject-base guard.  *)
(* When either raises, nothing changes.                                    *)
TestPolicy(r, pair, binding) ==
  /\ MayRegister(r)
  /\ pair[2] \in Owns[r]
  /\ attempts' = attempts + 1
  /\ IF bindings[pair] = None /\ pair[2] \in Admissible
     THEN storing' = [storing EXCEPT
            ![r] = [kind |-> "policy", pair |-> pair, binding |-> binding]]
     ELSE UNCHANGED storing
  /\ UNCHANGED <<config, serving, tables, calls>>

StorePolicy(r) ==
  /\ storing[r] # None
  /\ storing[r].kind = "policy"
  /\ StoreBinding(storing[r].pair, storing[r].binding)
  /\ storing' = [storing EXCEPT ![r] = None]
  /\ UNCHANGED <<config, serving, resolvers, attempts, calls>>

ReplacePolicy(r, pair, binding) ==
  /\ MayRegister(r)
  /\ pair[2] \in Owns[r]
  /\ attempts' = attempts + 1
  /\ IF pair[2] \in Admissible
     THEN StoreBinding(pair, binding)
     ELSE UNCHANGED <<bindings, order>>
  /\ UNCHANGED <<config, serving, resolvers, storing, calls>>

TestResolver(r, type) ==
  /\ MayRegister(r)
  /\ type \in Owns[r]
  /\ attempts' = attempts + 1
  /\ IF type \in Admissible /\ type \notin resolvers
     THEN storing' = [storing EXCEPT ![r] = [kind |-> "resolver", type |-> type]]
     ELSE UNCHANGED storing
  /\ UNCHANGED <<config, serving, tables, calls>>

StoreResolver(r) ==
  /\ storing[r] # None
  /\ storing[r].kind = "resolver"
  /\ resolvers' = resolvers \cup {storing[r].type}
  /\ storing' = [storing EXCEPT ![r] = None]
  /\ UNCHANGED <<config, serving, bindings, order, attempts, calls>>

(* The application joins its registration threads and opens for requests.  *)
StartServing ==
  /\ ~serving
  /\ \A r \in Registrars : storing[r] = None
  /\ serving' = TRUE
  /\ UNCHANGED <<config, registration, calls>>

-----------------------------------------------------------------------------
(* Decisions.                                                              *)

(* Slip: an action nobody registered is allowed.                           *)
VerdictByDefaultAllow(binding, req) ==
  IF binding = None THEN ALLOW
  ELSE LET result == Rule[binding.policy][<<req.principal, req.subject>>]
       IN IF result = Raises THEN Deny("policy_error") ELSE result

(* Slip: the exception of a policy body is not caught.                     *)
VerdictUncaught(binding, req) ==
  IF binding = None THEN Deny("policy_not_registered")
  ELSE Rule[binding.policy][<<req.principal, req.subject>>]

(* decide(): one lookup by the exact type of the subject, then the body.   *)
Verdict(binding, req) ==
  IF binding = None THEN Deny("policy_not_registered")
  ELSE LET result == Rule[binding.policy][<<req.principal, req.subject>>]
       IN IF result = Raises THEN Deny("policy_error") ELSE result

Evaluate(t, req) ==
  /\ pc[t] = "idle"
  /\ serving
  /\ request' = [request EXCEPT ![t] = req]
  /\ decider' = [decider EXCEPT ![t] = bindings[PairOf(req)]]
  /\ decision' = [decision EXCEPT ![t] = Verdict(bindings[PairOf(req)], req)]
  /\ UNCHANGED <<config, serving, registration, entry, persisted, warned>>

Decide(t, req) ==
  /\ req.via = "decide"
  /\ Evaluate(t, req)
  /\ pc' = [pc EXCEPT ![t] = "returned"]
  /\ answer' = [answer EXCEPT ![t] = decision'[t]]

(* Slip: every outcome goes to the store.                                  *)
AuditedAlways(d) == config.store

Audited(d) == config.store /\ OutcomeFor(d) \in config.outcomes

Adecide(t, req) ==
  /\ req.via = "adecide"
  /\ Evaluate(t, req)
  /\ IF Audited(decision'[t])
     THEN /\ pc' = [pc EXCEPT ![t] = "recording"]
          /\ UNCHANGED answer
     ELSE /\ pc' = [pc EXCEPT ![t] = "returned"]
          /\ answer' = [answer EXCEPT ![t] = decision'[t]]

(* The identity callables run unguarded, before the try around the write,  *)
(* and AuditEntry itself refuses metadata that is not str, int or bool.    *)
Unrecordable(t, metadata) ==
  \/ metadata = "malformed"
  \/ request[t].principal \in Anonymous
  \/ /\ TypeOf[request[t].subject] \in resolvers
     /\ request[t].subject \in Opaque

(* Slip: the entry is filed with the verdict of the policy bound by now.   *)
BuildEntryAnew(t, metadata) ==
  /\ pc[t] = "recording"
  /\ ~Unrecordable(t, metadata)
  /\ LET binding == bindings[PairOf(request[t])]
         verdict == Verdict(binding, request[t])
     IN entry' = [entry EXCEPT ![t] =
          [outcome |-> OutcomeFor(verdict),
           reason |-> verdict.reason,
           surface |-> IF binding = None THEN None ELSE binding.surface]]
  /\ pc' = [pc EXCEPT ![t] = "writing"]
  /\ UNCHANGED <<config, serving, registration, request, decider, decision,
                 persisted, warned, answer>>

(* The second lookup, for the denial surface, and the call of the store.   *)
BuildEntry(t, metadata) ==
  /\ pc[t] = "recording"
  /\ ~Unrecordable(t, metadata)
  /\ LET binding == bindings[PairOf(request[t])]
     IN entry' = [entry EXCEPT ![t] =
          [outcome |-> OutcomeFor(decision[t]),
           reason |-> decision[t].reason,
           surface |-> IF binding = None THEN None ELSE binding.surface]]
  /\ pc' = [pc EXCEPT ![t] = "writing"]
  /\ UNCHANGED <<config, serving, registration, request, decider, decision,
                 persisted, warned, answer>>

EntryRaises(t, metadata) ==
  /\ pc[t] = "recording"
  /\ Unrecordable(t, metadata)
  /\ pc' = [pc EXCEPT ![t] = "raised"]
  /\ UNCHANGED <<config, serving, registration, request, decider, decision,
                 entry, persisted, warned, answer>>

(* The store takes the entry.  A write that failed or was cancelled may    *)
(* have got there already, or get there later (a thread still running).    *)
StorePersists(t) ==
  /\ entry[t] # None
  /\ t \notin persisted
  /\ persisted' = persisted \cup {t}
  /\ UNCHANGED <<config, serving, registration, pc, request, decider,
                 decision, entry, warned, answer>>

(* Slip: the write is started, and the answer does not wait for it.        *)
WriteReturnsEarly(t) ==
  /\ pc[t] = "writing"
  /\ pc' = [pc EXCEPT ![t] = "returned"]
  /\ answer' = [answer EXCEPT ![t] = decision[t]]
  /\ UNCHANGED <<config, serving, registration, request, decider, decision,
                 entry, persisted, warned>>

WriteReturns(t) ==
  /\ pc[t] = "writing"
  /\ t \in persisted
  /\ pc' = [pc EXCEPT ![t] = "returned"]
  /\ answer' = [answer EXCEPT ![t] = decision[t]]
  /\ UNCHANGED <<config, serving, registration, request, decider, decision,
                 entry, persisted, warned>>

(* Slip: a failed write denies in either mode.                             *)
WriteRaisesDenies(t) ==
  /\ pc[t] = "writing"
  /\ warned' = warned \cup {t}
  /\ pc' = [pc EXCEPT ![t] = "returned"]
  /\ answer' = [answer EXCEPT ![t] = Deny("audit_unavailable")]
  /\ UNCHANGED <<config, serving, registration, request, decider, decision,
                 entry, persisted>>

(* Slip: a failed write is swallowed without a warning.                    *)
WriteRaisesSilently(t) ==
  /\ pc[t] = "writing"
  /\ pc' = [pc EXCEPT ![t] = "returned"]
  /\ answer' = [answer EXCEPT ![t] =
       IF config.mode = "deny" THEN Deny("audit_unavailable") ELSE decision[t]]
  /\ UNCHANGED <<config, serving, registration, request, decider, decision,
                 entry, persisted, warned>>

(* Slip: in deny mode adecide waits for a store that failed.               *)
WriteRaisesRetried(t) ==
  /\ pc[t] = "writing"
  /\ config.mode = "log"
  /\ warned' = warned \cup {t}
  /\ pc' = [pc EXCEPT ![t] = "returned"]
  /\ answer' = [answer EXCEPT ![t] = decision[t]]
  /\ UNCHANGED <<config, serving, registration, request, decider, decision,
                 entry, persisted>>

WriteRaises(t) ==
  /\ pc[t] = "writing"
  /\ warned' = warned \cup {t}
  /\ pc' = [pc EXCEPT ![t] = "returned"]
  /\ answer' = [answer EXCEPT ![t] =
       IF config.mode = "deny" THEN Deny("audit_unavailable") ELSE decision[t]]
  /\ UNCHANGED <<config, serving, registration, request, decider, decision,
                 entry, persisted>>

(* CancelledError is not an Exception: it leaves adecide without an answer.*)
Cancel(t) ==
  /\ pc[t] = "writing"
  /\ pc' = [pc EXCEPT ![t] = "cancelled"]
  /\ UNCHANGED <<config, serving, registration, request, decider, decision,
                 entry, persisted, warned, answer>>

-----------------------------------------------------------------------------
Register(r) ==
  \/ \E pair \in Pairs, binding \in Bindings :
       TestPolicy(r, pair, binding) \/ ReplacePolicy(r, pair, binding)
  \/ \E type \in Types : TestResolver(r, type)
  \/ StorePolicy(r)
  \/ StoreResolver(r)

Record(t) ==
  \E metadata \in CallerMetadata :
    BuildEntry(t, metadata) \/ EntryRaises(t, metadata)

Answer(t) == WriteReturns(t) \/ WriteRaises(t)

Next ==
  \/ \E r \in Registrars : Register(r)
  \/ StartServing
  \/ \E t \in Calls :
       \/ \E req \in Requests : Decide(t, req) \/ Adecide(t, req)
       \/ Record(t)
       \/ StorePersists(t)
       \/ Answer(t)
       \/ Cancel(t)

(* The event loop runs a ready task, and the store answers what it is      *)
(* given: nobody has to register, to ask or to persist.                    *)
Fairness == \A t \in Calls : WF_vars(Record(t)) /\ WF_vars(Answer(t))

Spec == Init /\ [][Next]_vars /\ Fairness

-----------------------------------------------------------------------------
(* What the engine promises.                                               *)

TypeOK ==
  /\ config \in Configs
  /\ serving \in BOOLEAN
  /\ bindings \in [Pairs -> Bindings \cup {None}]
  /\ order \in Seq(Pairs)
  /\ resolvers \subseteq Types
  /\ attempts \in Nat
  /\ storing \in [Registrars -> PolicyOps \cup ResolverOps \cup {None}]
  /\ pc \in [Calls -> {"idle", "recording", "writing",
                       "returned", "raised", "cancelled"}]
  /\ request \in [Calls -> Requests \cup {None}]
  /\ decider \in [Calls -> Bindings \cup {None}]
  /\ decision \in [Calls -> Decisions \cup {None}]
  /\ entry \in [Calls -> Entries \cup {None}]
  /\ persisted \subseteq Calls
  /\ warned \subseteq Calls
  /\ answer \in [Calls -> Decisions \cup {None}]

(* assert_policy_registered, which goes through registered_bindings().     *)
PolicyRegistered(pair) == \E i \in DOMAIN order : order[i] = pair

(* The types the subject_base argument names, as it was written.           *)
Sanctioned == {type \in Types : Permits(config.base, type)}

(* registered_bindings() lists every bound pair exactly once, so that      *)
(* assert_policy_registered finds what decide() finds; and no type got     *)
(* into a table that the subject_base argument does not name, whatever     *)
(* form it was given in and whichever registration path was taken.         *)
TablesWellFormed ==
  /\ \A i, j \in DOMAIN order : order[i] = order[j] => i = j
  /\ \A p \in Pairs : bindings[p] # None <=> PolicyRegistered(p)
  /\ \A p \in Pairs : bindings[p] # None => p[2] \in Sanctioned
  /\ resolvers \subseteq Sanctioned

(* A type only one thread registers for.                                   *)
Sole(type) ==
  \A r, s \in Registrars : type \in Owns[r] /\ type \in Owns[s] => r = s

(* policy() and the resolver decorator raise on a duplicate (engine.py:194 *)
(* and 242), so that they fill an empty slot and nothing else.  The test   *)
(* is made before the write, and other threads run in between: it still    *)
(* holds when the write is made if nobody else registers for the type,     *)
(* whatever is registered for the others, and however often, meanwhile.    *)
NothingIsOverwritten ==
  [][\A r \in Registrars :
       storing[r] # None /\ storing'[r] = None =>
         IF storing[r].kind = "policy"
         THEN Sole(storing[r].pair[2]) => bindings[storing[r].pair] = None
         ELSE Sole(storing[r].type) => storing[r].type \notin resolvers]_vars

(* Registration only adds: no binding and no resolver disappears, and a    *)
(* replaced binding keeps its place in registered_bindings().              *)
RegistrationOnlyAdds ==
  [][IsPrefix(order, order') /\ resolvers \subseteq resolvers']_vars

(* Fail closed: a caller is told "allowed" only when a policy registered   *)
(* for that action and the exact type of the subject ran and allowed it.   *)
AllowsAreGranted ==
  \A t \in Calls :
    answer[t] # None /\ answer[t].allowed =>
      /\ decider[t] # None
      /\ Rule[decider[t].policy][<<request[t].principal, request[t].subject>>]
           = ALLOW
      /\ ~HotReplacement => bindings[PairOf(request[t])] = decider[t]

(* A read-only engine answers a question one way: two calls of the same    *)
(* principal, action and subject, through decide or adecide and however    *)
(* they interleave, differ only by an audit failure in deny mode.          *)
SameQuestionSameAnswer ==
  \A t, u \in Calls :
    /\ answer[t] # None
    /\ answer[u] # None
    /\ [request[t] EXCEPT !.via = "decide"] = [request[u] EXCEPT !.via = "decide"]
    /\ ~HotReplacement
    => \/ answer[t] = answer[u]
       \/ /\ config.mode = "deny"
          /\ (t \in warned) # (u \in warned)

(* audit_failure_mode = "deny": an allow that adecide let out is in the    *)
(* store, whatever the store did meanwhile.                                *)
DenyModeRecordsAllows ==
  \A t \in Calls :
    /\ config.store
    /\ config.mode = "deny"
    /\ answer[t] # None
    /\ answer[t].allowed
    /\ request[t].via = "adecide"
    => t \in persisted /\ entry[t].outcome = "allowed"

(* In either mode an adecide that returns left a trace of every decision   *)
(* it was asked to audit: the entry, or the warning of the failed write.   *)
AuditedOrWarned ==
  \A t \in Calls :
    /\ answer[t] # None
    /\ request[t].via = "adecide"
    /\ Audited(decision[t])
    => t \in persisted \cup warned

(* The trail does not contradict what callers were told: the entry of a    *)
(* call that returned has the outcome and the reason of its answer, unless *)
(* the answer is the denial that replaced it after a failed write; and     *)
(* only outcomes the configuration asks for are in the trail.              *)
TrailAgreesWithAnswers ==
  \A t \in persisted :
    /\ config.store
    /\ entry[t].outcome \in config.outcomes
    /\ answer[t] # None =>
         \/ /\ entry[t].outcome = OutcomeFor(answer[t])
            /\ entry[t].reason = answer[t].reason
         \/ /\ config.mode = "deny"
            /\ t \in warned
            /\ answer[t] = Deny("audit_unavailable")

(* What the calls of one engine do to their store, and what they rely on   *)
(* it to do, is the AuditStore contract, which JsonLinesAudit implements.  *)
WriteOf(t) ==
  CASE pc[t] = "writing" -> "open"
    [] pc[t] = "cancelled" -> "cancelled"
    [] pc[t] = "returned" /\ t \in warned -> "raised"
    [] pc[t] = "returned" /\ t \notin warned /\ entry[t] # None -> "returned"
    [] OTHER -> "idle"

Store == INSTANCE AuditStoreContract
           WITH Writes <- Calls, state <- [t \in Calls |-> WriteOf(t)]

RespectsStoreContract == Store!Spec

(* Every call ends, with an answer, an exception or a cancellation.        *)
EveryCallEnds == \A t \in Calls : pc[t] # "idle" ~> Ended(t)

-----------------------------------------------------------------------------
(* The inductive invariant the theorems rest on.                           *)

(* The binding or resolver a registrar is about to store is for a type of  *)
(* its own,                                                                *)
StoringIsOwned ==
  \A r \in Registrars :
    /\ storing[r] \in PolicyOps => storing[r].pair[2] \in Owns[r]
    /\ storing[r] \in ResolverOps => storing[r].type \in Owns[r]

(* and for one that passed the guard.                                      *)
StoringIsSanctioned ==
  \A r \in Registrars :
    /\ storing[r] \in PolicyOps => storing[r].pair[2] \in Sanctioned
    /\ storing[r] \in ResolverOps => storing[r].type \in Sanctioned

(* The slot a registrar found empty still is, where it is the only one.    *)
SlotStillEmpty ==
  \A r \in Registrars :
    /\ storing[r] \in PolicyOps /\ Sole(storing[r].pair[2]) =>
         bindings[storing[r].pair] = None
    /\ storing[r] \in ResolverOps /\ Sole(storing[r].type) =>
         storing[r].type \notin resolvers

(* With no hot replacement there is no registrar left once calls begin.    *)
ServingIsQuiet ==
  serving /\ ~HotReplacement => \A r \in Registrars : storing[r] = None

(* What a call has at each point of adecide.                               *)
CallsInOrder ==
  \A t \in Calls :
    /\ pc[t] = "idle" => request[t] = None
    /\ pc[t] # "idle" =>
         /\ serving
         /\ request[t] # None
         /\ decision[t] = Verdict(decider[t], request[t])
         /\ ~HotReplacement => decider[t] = bindings[PairOf(request[t])]
    /\ pc[t] \in {"idle", "recording", "raised"} => entry[t] = None
    /\ pc[t] # "returned" => t \notin warned
    /\ pc[t] # "returned" <=> answer[t] = None
    /\ pc[t] \in {"recording", "writing"} =>
         request[t].via = "adecide" /\ Audited(decision[t])
    /\ pc[t] = "writing" => entry[t] # None

(* An entry says what was decided, and was asked for.                      *)
EntriesRecordDecisions ==
  \A t \in Calls :
    entry[t] # None =>
      /\ request[t] # None
      /\ entry[t].outcome = OutcomeFor(decision[t])
      /\ entry[t].reason = decision[t].reason
      /\ Audited(decision[t])

(* An answer is the decision, or the denial that stands in for it.         *)
AnswersAreDecisions ==
  \A t \in Calls :
    answer[t] # None =>
      \/ /\ answer[t] = decision[t]
         /\ config.mode = "deny" => t \notin warned
         /\ request[t].via = "adecide" /\ Audited(decision[t]) =>
              \/ entry[t] # None /\ t \in persisted
              \/ t \in warned /\ config.mode = "log"
      \/ /\ answer[t] = Deny("audit_unavailable")
         /\ config.mode = "deny"
         /\ t \in warned

PersistedWereWritten == \A t \in persisted : entry[t] # None

RegistrationInv ==
  /\ TypeOK
  /\ TablesWellFormed
  /\ StoringIsSanctioned

Inv ==
  /\ TypeOK
  /\ ServingIsQuiet
  /\ CallsInOrder
  /\ EntriesRecordDecisions
  /\ AnswersAreDecisions
  /\ PersistedWereWritten

-----------------------------------------------------------------------------
(* Statements of the repository the code does not keep.                    *)

(* src/tests/security/test_fail_closed.py:3-4: adecide never raises.  An   *)
(* identity callable or malformed metadata makes it.                       *)
AdecideNeverRaises == \A t \in Calls : pc[t] # "raised"

(* engine.py:374-376: a type alias that resolves to a non-class, such as a *)
(* generic alias, raises ConfigurationError.  In the code get_args takes   *)
(* the arguments of the generic for the members of a union.                *)
GenericAliasesAreRefused == config.base.shape # "generic alias"
=============================================================================
