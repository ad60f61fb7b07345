------------------------- MODULE PolicyEngineProofs -------------------------
(***************************************************************************)
(* PolicyEngine keeps its promises for every set of actions, types,        *)
(* policies, principals, registrars and concurrent calls.                  *)
(***************************************************************************)
EXTENDS PolicyEngine, SubjectBaseProofs, SequenceTheorems, TLAPS

-----------------------------------------------------------------------------
(* Facts about the constants and the operators.                            *)

LEMMA NoneIsNew ==
  /\ None \notin Bindings
  /\ None \notin Surfaces
  /\ None \notin Entries
  /\ None \notin Decisions
  /\ None \notin PolicyOps
  /\ None \notin ResolverOps
  /\ None \notin Requests
BY EngineAssumption

LEMMA DenyType ==
  ASSUME NEW reason \in Reasons
  PROVE  Deny(reason) \in Decisions
<1>1. reason # NoReason
  BY ReasonsAssumption DEF Reasons, EngineReasons, NoReason
<1> QED BY <1>1 DEF Deny, Decisions

(* decide() returns a Decision whatever the policy body does.              *)
LEMMA VerdictType ==
  ASSUME NEW binding \in Bindings \cup {None}, NEW req \in Requests
  PROVE  Verdict(binding, req) \in Decisions
<1>1. /\ Deny("policy_not_registered") \in Decisions
      /\ Deny("policy_error") \in Decisions
  BY DenyType DEF Reasons, EngineReasons
<1>2. CASE binding = None
  BY <1>1, <1>2 DEF Verdict
<1>3. CASE binding # None
  <2>1. <<req.principal, req.subject>> \in Principals \X Subjects
    BY DEF Requests
  <2>2. binding.policy \in Policies
    BY <1>3 DEF Bindings
  <2>3. Rule[binding.policy][<<req.principal, req.subject>>]
          \in Decisions \cup {Raises}
    BY <2>1, <2>2, EngineAssumption
  <2> QED BY <1>1, <1>3, <2>3 DEF Verdict
<1> QED BY <1>2, <1>3

LEMMA PairOfType ==
  ASSUME NEW req \in Requests
  PROVE  PairOf(req) \in Pairs
BY EngineAssumption DEF PairOf, Pairs, Requests

LEMMA EntryType ==
  ASSUME NEW d \in Decisions, NEW binding \in Bindings \cup {None}
  PROVE  [outcome |-> OutcomeFor(d), reason |-> d.reason,
          surface |-> IF binding = None THEN None ELSE binding.surface]
           \in Entries
BY DEF Entries, Decisions, OutcomeFor, Outcomes, Bindings

-----------------------------------------------------------------------------
(* Every step preserves the invariant: one lemma per action, one step per  *)
(* conjunct.                                                               *)

LEMMA DecisionMade ==
  ASSUME Inv, NEW t \in Calls, pc[t] # "idle"
  PROVE  request[t] \in Requests /\ decision[t] \in Decisions
<1>1. request[t] \in Requests
  BY NoneIsNew DEF Inv, TypeOK, CallsInOrder
<1>2. decision[t] = Verdict(decider[t], request[t])
  BY DEF Inv, CallsInOrder
<1>3. decider[t] \in Bindings \cup {None}
  BY DEF Inv, TypeOK
<1> QED BY <1>1, <1>2, <1>3, VerdictType

LEMMA TestPolicyStep ==
  ASSUME Inv, NEW r \in Registrars, NEW pair \in Pairs, NEW binding \in
         Bindings, TestPolicy(r, pair, binding)
  PROVE  Inv'
<1>1. TypeOK'
  BY NoneIsNew
     DEF Inv, TypeOK, TestPolicy, MayRegister, registration, tables, calls,
         PolicyOps, ResolverOps
<1>2. ServingIsQuiet'
  BY NoneIsNew
     DEF Inv, TypeOK, ServingIsQuiet, TestPolicy, MayRegister, registration,
         tables, calls
<1>3. CallsInOrder'
  BY NoneIsNew
     DEF Inv, TypeOK, ServingIsQuiet, CallsInOrder, TestPolicy, MayRegister,
         registration, tables, calls, Audited
<1>4. EntriesRecordDecisions'
  BY NoneIsNew
     DEF Inv, TypeOK, CallsInOrder, EntriesRecordDecisions, TestPolicy,
         MayRegister, registration, tables, calls, Audited
<1>5. AnswersAreDecisions'
  BY NoneIsNew
     DEF Inv, TypeOK, CallsInOrder, AnswersAreDecisions, PersistedWereWritten,
         TestPolicy, MayRegister, registration, tables, calls, Audited
<1>6. PersistedWereWritten'
  BY NoneIsNew
     DEF Inv, TypeOK, CallsInOrder, PersistedWereWritten, TestPolicy,
         MayRegister, registration, tables, calls
<1> QED BY <1>1, <1>2, <1>3, <1>4, <1>5, <1>6 DEF Inv

LEMMA StorePolicyStep ==
  ASSUME Inv, NEW r \in Registrars, StorePolicy(r)
  PROVE  Inv'
<1>1. TypeOK'
  BY NoneIsNew, AppendProperties
     DEF Inv, TypeOK, StorePolicy, StoreBinding, registration, tables, calls,
         PolicyOps, ResolverOps
<1>2. ServingIsQuiet'
  BY NoneIsNew
     DEF Inv, TypeOK, ServingIsQuiet, StorePolicy, StoreBinding, registration,
         tables, calls
<1>3. CallsInOrder'
  BY NoneIsNew, PairOfType
     DEF Inv, TypeOK, ServingIsQuiet, CallsInOrder, StorePolicy, StoreBinding,
         registration, tables, calls, Audited
<1>4. EntriesRecordDecisions'
  BY NoneIsNew
     DEF Inv, TypeOK, CallsInOrder, EntriesRecordDecisions, StorePolicy,
         StoreBinding, registration, tables, calls, Audited
<1>5. AnswersAreDecisions'
  BY NoneIsNew
     DEF Inv, TypeOK, CallsInOrder, AnswersAreDecisions, PersistedWereWritten,
         StorePolicy, StoreBinding, registration, tables, calls, Audited
<1>6. PersistedWereWritten'
  BY NoneIsNew
     DEF Inv, TypeOK, CallsInOrder, PersistedWereWritten, StorePolicy,
         StoreBinding, registration, tables, calls
<1> QED BY <1>1, <1>2, <1>3, <1>4, <1>5, <1>6 DEF Inv

LEMMA ReplacePolicyStep ==
  ASSUME Inv, NEW r \in Registrars, NEW pair \in Pairs, NEW binding \in
         Bindings, ReplacePolicy(r, pair, binding)
  PROVE  Inv'
<1>1. TypeOK'
  <2>1. CASE pair[2] \in Admissible
    <3>1. order' \in Seq(Pairs)
      <4>1. order \in Seq(Pairs)
        BY DEF Inv, TypeOK
      <4>2. Append(order, pair) \in Seq(Pairs)
        BY <4>1, AppendProperties
      <4>3. order' \in {order, Append(order, pair)}
        BY <2>1 DEF ReplacePolicy, StoreBinding
      <4> QED BY <4>1, <4>2, <4>3
    <3>2. bindings' \in [Pairs -> Bindings \cup {None}]
      BY <2>1 DEF Inv, TypeOK, ReplacePolicy, StoreBinding
    <3> QED BY <3>1, <3>2 DEF Inv, TypeOK, ReplacePolicy, calls
  <2>2. CASE pair[2] \notin Admissible
    BY <2>2 DEF Inv, TypeOK, ReplacePolicy, calls
  <2> QED BY <2>1, <2>2
<1>2. ServingIsQuiet'
  BY NoneIsNew
     DEF Inv, TypeOK, ServingIsQuiet, ReplacePolicy, MayRegister, StoreBinding,
         registration, tables, calls
<1>3. CallsInOrder'
  BY NoneIsNew, PairOfType
     DEF Inv, TypeOK, ServingIsQuiet, CallsInOrder, ReplacePolicy, MayRegister,
         StoreBinding, registration, tables, calls, Audited
<1>4. EntriesRecordDecisions'
  BY NoneIsNew
     DEF Inv, TypeOK, CallsInOrder, EntriesRecordDecisions, ReplacePolicy,
         MayRegister, StoreBinding, registration, tables, calls, Audited
<1>5. AnswersAreDecisions'
  BY NoneIsNew
     DEF Inv, TypeOK, CallsInOrder, AnswersAreDecisions, PersistedWereWritten,
         ReplacePolicy, MayRegister, StoreBinding, registration, tables, calls,
         Audited
<1>6. PersistedWereWritten'
  BY NoneIsNew
     DEF Inv, TypeOK, CallsInOrder, PersistedWereWritten, ReplacePolicy,
         MayRegister, StoreBinding, registration, tables, calls
<1> QED BY <1>1, <1>2, <1>3, <1>4, <1>5, <1>6 DEF Inv

LEMMA TestResolverStep ==
  ASSUME Inv, NEW r \in Registrars, NEW type \in Types, TestResolver(r, type)
  PROVE  Inv'
<1>1. TypeOK'
  BY NoneIsNew
     DEF Inv, TypeOK, TestResolver, MayRegister, registration, tables, calls,
         PolicyOps, ResolverOps
<1>2. ServingIsQuiet'
  BY NoneIsNew
     DEF Inv, TypeOK, ServingIsQuiet, TestResolver, MayRegister, registration,
         tables, calls
<1>3. CallsInOrder'
  BY NoneIsNew
     DEF Inv, TypeOK, ServingIsQuiet, CallsInOrder, TestResolver, MayRegister,
         registration, tables, calls, Audited
<1>4. EntriesRecordDecisions'
  BY NoneIsNew
     DEF Inv, TypeOK, CallsInOrder, EntriesRecordDecisions, TestResolver,
         MayRegister, registration, tables, calls, Audited
<1>5. AnswersAreDecisions'
  BY NoneIsNew
     DEF Inv, TypeOK, CallsInOrder, AnswersAreDecisions, PersistedWereWritten,
         TestResolver, MayRegister, registration, tables, calls, Audited
<1>6. PersistedWereWritten'
  BY NoneIsNew
     DEF Inv, TypeOK, CallsInOrder, PersistedWereWritten, TestResolver,
         MayRegister, registration, tables, calls
<1> QED BY <1>1, <1>2, <1>3, <1>4, <1>5, <1>6 DEF Inv

LEMMA StoreResolverStep ==
  ASSUME Inv, NEW r \in Registrars, StoreResolver(r)
  PROVE  Inv'
<1>1. TypeOK'
  BY NoneIsNew
     DEF Inv, TypeOK, StoreResolver, registration, tables, calls, PolicyOps,
         ResolverOps
<1>2. ServingIsQuiet'
  BY NoneIsNew
     DEF Inv, TypeOK, ServingIsQuiet, StoreResolver, registration, tables,
         calls
<1>3. CallsInOrder'
  BY NoneIsNew
     DEF Inv, TypeOK, ServingIsQuiet, CallsInOrder, StoreResolver,
         registration, tables, calls, Audited
<1>4. EntriesRecordDecisions'
  BY NoneIsNew
     DEF Inv, TypeOK, CallsInOrder, EntriesRecordDecisions, StoreResolver,
         registration, tables, calls, Audited
<1>5. AnswersAreDecisions'
  BY NoneIsNew
     DEF Inv, TypeOK, CallsInOrder, AnswersAreDecisions, PersistedWereWritten,
         StoreResolver, registration, tables, calls, Audited
<1>6. PersistedWereWritten'
  BY NoneIsNew
     DEF Inv, TypeOK, CallsInOrder, PersistedWereWritten, StoreResolver,
         registration, tables, calls
<1> QED BY <1>1, <1>2, <1>3, <1>4, <1>5, <1>6 DEF Inv

LEMMA StartServingStep ==
  ASSUME Inv, StartServing
  PROVE  Inv'
<1>1. TypeOK'
  BY NoneIsNew
     DEF Inv, TypeOK, StartServing, registration, tables, calls
<1>2. ServingIsQuiet'
  BY NoneIsNew
     DEF Inv, TypeOK, ServingIsQuiet, StartServing, registration, tables, calls
<1>3. CallsInOrder'
  BY NoneIsNew
     DEF Inv, TypeOK, ServingIsQuiet, CallsInOrder, StartServing, registration,
         tables, calls, Audited
<1>4. EntriesRecordDecisions'
  BY NoneIsNew
     DEF Inv, TypeOK, CallsInOrder, EntriesRecordDecisions, StartServing,
         registration, tables, calls, Audited
<1>5. AnswersAreDecisions'
  BY NoneIsNew
     DEF Inv, TypeOK, CallsInOrder, AnswersAreDecisions, PersistedWereWritten,
         StartServing, registration, tables, calls, Audited
<1>6. PersistedWereWritten'
  BY NoneIsNew
     DEF Inv, TypeOK, CallsInOrder, PersistedWereWritten, StartServing,
         registration, tables, calls
<1> QED BY <1>1, <1>2, <1>3, <1>4, <1>5, <1>6 DEF Inv

LEMMA DecideStep ==
  ASSUME Inv, NEW t \in Calls, NEW req \in Requests, Decide(t, req)
  PROVE  Inv'
<1>1. TypeOK'
  BY NoneIsNew, VerdictType, DenyType, PairOfType
     DEF Inv, TypeOK, Decide, Evaluate, registration, tables, calls
<1>2. ServingIsQuiet'
  BY NoneIsNew, VerdictType, PairOfType
     DEF Inv, TypeOK, ServingIsQuiet, Decide, Evaluate, registration, tables,
         calls
<1>3. CallsInOrder'
  BY NoneIsNew, VerdictType, PairOfType
     DEF Inv, TypeOK, ServingIsQuiet, CallsInOrder, Decide, Evaluate,
         registration, tables, calls, Audited
<1>4. EntriesRecordDecisions'
  BY NoneIsNew, VerdictType, PairOfType
     DEF Inv, TypeOK, CallsInOrder, EntriesRecordDecisions, Decide, Evaluate,
         registration, tables, calls, Audited
<1>5. AnswersAreDecisions'
  BY NoneIsNew, VerdictType, PairOfType
     DEF Inv, TypeOK, CallsInOrder, AnswersAreDecisions, PersistedWereWritten,
         Decide, Evaluate, registration, tables, calls, Audited
<1>6. PersistedWereWritten'
  BY NoneIsNew, VerdictType, PairOfType
     DEF Inv, TypeOK, CallsInOrder, PersistedWereWritten, Decide, Evaluate,
         registration, tables, calls
<1> QED BY <1>1, <1>2, <1>3, <1>4, <1>5, <1>6 DEF Inv

LEMMA AdecideStep ==
  ASSUME Inv, NEW t \in Calls, NEW req \in Requests, Adecide(t, req)
  PROVE  Inv'
<1>1. TypeOK'
  BY NoneIsNew, VerdictType, DenyType, PairOfType
     DEF Inv, TypeOK, Adecide, Evaluate, registration, tables, calls
<1>2. ServingIsQuiet'
  BY NoneIsNew, VerdictType, PairOfType
     DEF Inv, TypeOK, ServingIsQuiet, Adecide, Evaluate, registration, tables,
         calls
<1>3. CallsInOrder'
  BY NoneIsNew, VerdictType, PairOfType
     DEF Inv, TypeOK, ServingIsQuiet, CallsInOrder, Adecide, Evaluate,
         registration, tables, calls, Audited
<1>4. EntriesRecordDecisions'
  BY NoneIsNew, VerdictType, PairOfType
     DEF Inv, TypeOK, CallsInOrder, EntriesRecordDecisions, Adecide, Evaluate,
         registration, tables, calls, Audited
<1>5. AnswersAreDecisions'
  BY NoneIsNew, VerdictType, PairOfType
     DEF Inv, TypeOK, CallsInOrder, AnswersAreDecisions, PersistedWereWritten,
         Adecide, Evaluate, registration, tables, calls, Audited
<1>6. PersistedWereWritten'
  BY NoneIsNew, VerdictType, PairOfType
     DEF Inv, TypeOK, CallsInOrder, PersistedWereWritten, Adecide, Evaluate,
         registration, tables, calls
<1> QED BY <1>1, <1>2, <1>3, <1>4, <1>5, <1>6 DEF Inv

LEMMA BuildEntryStep ==
  ASSUME Inv, NEW t \in Calls, NEW metadata \in CallerMetadata, BuildEntry(t,
         metadata)
  PROVE  Inv'
<1>1. TypeOK'
  <2>1. decision[t] \in Decisions /\ PairOf(request[t]) \in Pairs
    BY DecisionMade, PairOfType DEF BuildEntry
  <2>2. bindings[PairOf(request[t])] \in Bindings \cup {None}
    BY <2>1 DEF Inv, TypeOK
  <2>3. entry' \in [Calls -> Entries \cup {None}]
    BY <2>1, <2>2, EntryType DEF Inv, TypeOK, BuildEntry
  <2>4. pc' \in [Calls -> {"idle", "recording", "writing",
                           "returned", "raised", "cancelled"}]
    BY DEF Inv, TypeOK, BuildEntry
  <2> QED BY <2>3, <2>4 DEF Inv, TypeOK, BuildEntry, registration, tables
<1>2. ServingIsQuiet'
  BY NoneIsNew
     DEF Inv, TypeOK, ServingIsQuiet, BuildEntry, registration, tables, calls
<1>3. CallsInOrder'
  <2>1. entry'[t] \in Entries
    <3>1. decision[t] \in Decisions /\ PairOf(request[t]) \in Pairs
      BY DecisionMade, PairOfType DEF BuildEntry
    <3>2. bindings[PairOf(request[t])] \in Bindings \cup {None}
      BY <3>1 DEF Inv, TypeOK
    <3> QED BY <3>1, <3>2, EntryType DEF Inv, TypeOK, BuildEntry
  <2>2. entry'[t] # None
    BY <2>1, NoneIsNew
  <2>3. \A u \in Calls : u # t => entry'[u] = entry[u] /\ pc'[u] = pc[u]
    BY DEF Inv, TypeOK, BuildEntry
  <2>4. pc'[t] = "writing"
    BY DEF Inv, TypeOK, BuildEntry
  <2> QED BY <2>2, <2>3, <2>4
          DEF Inv, CallsInOrder, BuildEntry, Audited, registration, tables
<1>4. EntriesRecordDecisions'
  BY NoneIsNew
     DEF Inv, TypeOK, CallsInOrder, EntriesRecordDecisions, BuildEntry,
         registration, tables, calls, Audited
<1>5. AnswersAreDecisions'
  BY NoneIsNew
     DEF Inv, TypeOK, CallsInOrder, AnswersAreDecisions, PersistedWereWritten,
         BuildEntry, registration, tables, calls, Audited
<1>6. PersistedWereWritten'
  BY NoneIsNew
     DEF Inv, TypeOK, CallsInOrder, PersistedWereWritten, BuildEntry,
         registration, tables, calls
<1> QED BY <1>1, <1>2, <1>3, <1>4, <1>5, <1>6 DEF Inv

LEMMA EntryRaisesStep ==
  ASSUME Inv, NEW t \in Calls, NEW metadata \in CallerMetadata, EntryRaises(t,
         metadata)
  PROVE  Inv'
<1>1. TypeOK'
  BY NoneIsNew
     DEF Inv, TypeOK, EntryRaises, registration, tables, calls
<1>2. ServingIsQuiet'
  BY NoneIsNew
     DEF Inv, TypeOK, ServingIsQuiet, EntryRaises, registration, tables, calls
<1>3. CallsInOrder'
  BY NoneIsNew
     DEF Inv, TypeOK, ServingIsQuiet, CallsInOrder, EntryRaises, registration,
         tables, calls, Audited
<1>4. EntriesRecordDecisions'
  BY NoneIsNew
     DEF Inv, TypeOK, CallsInOrder, EntriesRecordDecisions, EntryRaises,
         registration, tables, calls, Audited
<1>5. AnswersAreDecisions'
  BY NoneIsNew
     DEF Inv, TypeOK, CallsInOrder, AnswersAreDecisions, PersistedWereWritten,
         EntryRaises, registration, tables, calls, Audited
<1>6. PersistedWereWritten'
  BY NoneIsNew
     DEF Inv, TypeOK, CallsInOrder, PersistedWereWritten, EntryRaises,
         registration, tables, calls
<1> QED BY <1>1, <1>2, <1>3, <1>4, <1>5, <1>6 DEF Inv

LEMMA StorePersistsStep ==
  ASSUME Inv, NEW t \in Calls, StorePersists(t)
  PROVE  Inv'
<1>1. TypeOK'
  BY NoneIsNew
     DEF Inv, TypeOK, StorePersists, registration, tables, calls
<1>2. ServingIsQuiet'
  BY NoneIsNew
     DEF Inv, TypeOK, ServingIsQuiet, StorePersists, registration, tables,
         calls
<1>3. CallsInOrder'
  BY NoneIsNew
     DEF Inv, TypeOK, ServingIsQuiet, CallsInOrder, StorePersists,
         registration, tables, calls, Audited
<1>4. EntriesRecordDecisions'
  BY NoneIsNew
     DEF Inv, TypeOK, CallsInOrder, EntriesRecordDecisions, StorePersists,
         registration, tables, calls, Audited
<1>5. AnswersAreDecisions'
  BY NoneIsNew
     DEF Inv, TypeOK, CallsInOrder, AnswersAreDecisions, PersistedWereWritten,
         StorePersists, registration, tables, calls, Audited
<1>6. PersistedWereWritten'
  BY NoneIsNew
     DEF Inv, TypeOK, CallsInOrder, PersistedWereWritten, StorePersists,
         registration, tables, calls
<1> QED BY <1>1, <1>2, <1>3, <1>4, <1>5, <1>6 DEF Inv

LEMMA WriteReturnsStep ==
  ASSUME Inv, NEW t \in Calls, WriteReturns(t)
  PROVE  Inv'
<1>1. TypeOK'
  BY NoneIsNew
     DEF Inv, TypeOK, WriteReturns, registration, tables, calls
<1>2. ServingIsQuiet'
  BY NoneIsNew
     DEF Inv, TypeOK, ServingIsQuiet, WriteReturns, registration, tables, calls
<1>3. CallsInOrder'
  <2>1. decision[t] # None
    BY DecisionMade, NoneIsNew DEF WriteReturns
  <2>2. answer'[t] = decision[t] /\ pc'[t] = "returned"
    BY DEF Inv, TypeOK, WriteReturns
  <2>3. \A u \in Calls : u # t => answer'[u] = answer[u] /\ pc'[u] = pc[u]
    BY DEF Inv, TypeOK, WriteReturns
  <2> QED BY <2>1, <2>2, <2>3
          DEF Inv, CallsInOrder, WriteReturns, Audited, registration, tables
<1>4. EntriesRecordDecisions'
  BY NoneIsNew
     DEF Inv, TypeOK, CallsInOrder, EntriesRecordDecisions, WriteReturns,
         registration, tables, calls, Audited
<1>5. AnswersAreDecisions'
  BY NoneIsNew
     DEF Inv, TypeOK, CallsInOrder, AnswersAreDecisions, PersistedWereWritten,
         WriteReturns, registration, tables, calls, Audited
<1>6. PersistedWereWritten'
  BY NoneIsNew
     DEF Inv, TypeOK, CallsInOrder, PersistedWereWritten, WriteReturns,
         registration, tables, calls
<1> QED BY <1>1, <1>2, <1>3, <1>4, <1>5, <1>6 DEF Inv

LEMMA WriteRaisesStep ==
  ASSUME Inv, NEW t \in Calls, WriteRaises(t)
  PROVE  Inv'
<1>1. TypeOK'
  <2>1. Deny("audit_unavailable") \in Decisions /\ decision[t] \in Decisions
    BY DecisionMade, DenyType DEF WriteRaises, Reasons, EngineReasons
  <2>2. answer' \in [Calls -> Decisions \cup {None}]
    BY <2>1 DEF Inv, TypeOK, WriteRaises
  <2>3. pc' \in [Calls -> {"idle", "recording", "writing",
                           "returned", "raised", "cancelled"}]
    BY DEF Inv, TypeOK, WriteRaises
  <2> QED BY <2>2, <2>3 DEF Inv, TypeOK, WriteRaises, registration, tables
<1>2. ServingIsQuiet'
  BY NoneIsNew
     DEF Inv, TypeOK, ServingIsQuiet, WriteRaises, registration, tables, calls
<1>3. CallsInOrder'
  <2>1. Deny("audit_unavailable") # None /\ decision[t] # None
    BY DecisionMade, DenyType, NoneIsNew
       DEF WriteRaises, Reasons, EngineReasons
  <2>2. answer'[t] # None /\ pc'[t] = "returned"
    BY <2>1 DEF Inv, TypeOK, WriteRaises
  <2>3. \A u \in Calls : u # t => answer'[u] = answer[u] /\ pc'[u] = pc[u]
    BY DEF Inv, TypeOK, WriteRaises
  <2>4. \A u \in Calls : u # t => (u \in warned' <=> u \in warned)
    BY DEF WriteRaises
  <2> QED BY <2>2, <2>3, <2>4
          DEF Inv, CallsInOrder, WriteRaises, Audited, registration, tables
<1>4. EntriesRecordDecisions'
  BY NoneIsNew
     DEF Inv, TypeOK, CallsInOrder, EntriesRecordDecisions, WriteRaises,
         registration, tables, calls, Audited
<1>5. AnswersAreDecisions'
  <2>1. t \in warned'
    BY DEF WriteRaises
  <2>2. config.mode \in {"log", "deny"}
    BY EngineAssumption DEF Inv, TypeOK, Configs, Settings
  <2>3. answer'[t] = IF config.mode = "deny" THEN Deny("audit_unavailable")
                     ELSE decision[t]
    BY DEF Inv, TypeOK, WriteRaises
  <2>4. \A u \in Calls : u # t =>
          answer'[u] = answer[u] /\ (u \in warned' <=> u \in warned)
    BY DEF Inv, TypeOK, WriteRaises
  <2> QED BY <2>1, <2>2, <2>3, <2>4
          DEF Inv, AnswersAreDecisions, WriteRaises, Audited
<1>6. PersistedWereWritten'
  BY NoneIsNew
     DEF Inv, TypeOK, CallsInOrder, PersistedWereWritten, WriteRaises,
         registration, tables, calls
<1> QED BY <1>1, <1>2, <1>3, <1>4, <1>5, <1>6 DEF Inv

LEMMA CancelStep ==
  ASSUME Inv, NEW t \in Calls, Cancel(t)
  PROVE  Inv'
<1>1. TypeOK'
  BY NoneIsNew
     DEF Inv, TypeOK, Cancel, registration, tables, calls
<1>2. ServingIsQuiet'
  BY NoneIsNew
     DEF Inv, TypeOK, ServingIsQuiet, Cancel, registration, tables, calls
<1>3. CallsInOrder'
  BY NoneIsNew
     DEF Inv, TypeOK, ServingIsQuiet, CallsInOrder, Cancel, registration,
         tables, calls, Audited
<1>4. EntriesRecordDecisions'
  BY NoneIsNew
     DEF Inv, TypeOK, CallsInOrder, EntriesRecordDecisions, Cancel,
         registration, tables, calls, Audited
<1>5. AnswersAreDecisions'
  BY NoneIsNew
     DEF Inv, TypeOK, CallsInOrder, AnswersAreDecisions, PersistedWereWritten,
         Cancel, registration, tables, calls, Audited
<1>6. PersistedWereWritten'
  BY NoneIsNew
     DEF Inv, TypeOK, CallsInOrder, PersistedWereWritten, Cancel, registration,
         tables, calls
<1> QED BY <1>1, <1>2, <1>3, <1>4, <1>5, <1>6 DEF Inv


-----------------------------------------------------------------------------
(* The theorems.                                                           *)

LEMMA InitInv == Init => Inv
<1> SUFFICES ASSUME Init PROVE Inv
  OBVIOUS
<1>1. TypeOK
  BY EmptySeq DEF Init, TypeOK
<1> QED BY <1>1 DEF Init, Inv, ServingIsQuiet, CallsInOrder,
           EntriesRecordDecisions, AnswersAreDecisions, PersistedWereWritten

LEMMA NextInv == Inv /\ [Next]_vars => Inv'
<1> SUFFICES ASSUME Inv, [Next]_vars PROVE Inv'
  OBVIOUS
<1>1. CASE \E r \in Registrars : Register(r)
  BY <1>1, TestPolicyStep, StorePolicyStep, ReplacePolicyStep,
     TestResolverStep, StoreResolverStep DEF Register
<1>2. CASE StartServing
  BY <1>2, StartServingStep
<1>3. CASE \E t \in Calls, req \in Requests : Decide(t, req) \/ Adecide(t, req)
  BY <1>3, DecideStep, AdecideStep
<1>4. CASE \E t \in Calls : Record(t)
  BY <1>4, BuildEntryStep, EntryRaisesStep DEF Record
<1>5. CASE \E t \in Calls : StorePersists(t) \/ Answer(t) \/ Cancel(t)
  BY <1>5, StorePersistsStep, WriteReturnsStep, WriteRaisesStep, CancelStep
     DEF Answer
<1>6. CASE UNCHANGED vars
  BY <1>6 DEF vars, registration, tables, calls, Inv, TypeOK, ServingIsQuiet,
              CallsInOrder, Audited, EntriesRecordDecisions,
              AnswersAreDecisions, PersistedWereWritten
<1> QED BY <1>1, <1>2, <1>3, <1>4, <1>5, <1>6 DEF Next

(* The invariant holds of every reachable state, and TypeOK with it.       *)
THEOREM Invariance == Spec => []Inv
<1>1. Init => Inv
  BY InitInv
<1>2. Inv /\ [Next]_vars => Inv'
  BY NextInv
<1> QED BY <1>1, <1>2, PTL DEF Spec

(* Every value the engine keeps and hands out is of its type; in           *)
(* particular nothing but Decisions reaches a caller, though a policy body *)
(* may raise and a binding may be missing (engine.py:517-529).             *)
THEOREM TypeCorrectness == Spec => []TypeOK
<1>1. Inv => TypeOK
  BY DEF Inv
<1> QED BY <1>1, Invariance, PTL

(* With audit_failure_mode = "deny", an allow that adecide lets out is in  *)
(* the store.  The constructor's cross-check is what the proof needs of    *)
(* the configuration: an allow is then an outcome that is audited.         *)
THEOREM DenyModeIsCovered == Spec => []DenyModeRecordsAllows
<1>1. Inv => DenyModeRecordsAllows
  <2> SUFFICES ASSUME Inv, NEW t \in Calls,
                      config.store, config.mode = "deny", answer[t] # None,
                      answer[t].allowed, request[t].via = "adecide"
               PROVE  t \in persisted /\ entry[t].outcome = "allowed"
    BY DEF DenyModeRecordsAllows
  <2>1. answer[t] = decision[t]
    BY DEF Inv, AnswersAreDecisions, Deny
  <2>2. OutcomeFor(decision[t]) = "allowed"
    BY <2>1 DEF OutcomeFor
  <2>3. Audited(decision[t])
    BY <2>2 DEF Audited, Inv, TypeOK, Configs, Constructible
  <2>4. entry[t] # None /\ t \in persisted
    BY <2>1, <2>3 DEF Inv, AnswersAreDecisions, Deny
  <2> QED BY <2>2, <2>4 DEF Inv, EntriesRecordDecisions
<1> QED BY <1>1, Invariance, PTL

(* Fail closed: every allow was given by a registered policy.              *)
THEOREM FailClosed == Spec => []AllowsAreGranted
<1>1. Inv => AllowsAreGranted
  <2> SUFFICES ASSUME Inv, NEW t \in Calls, answer[t] # None, answer[t].allowed
               PROVE  /\ decider[t] # None
                      /\ Rule[decider[t].policy]
                             [<<request[t].principal, request[t].subject>>] = ALLOW
                      /\ ~HotReplacement => bindings[PairOf(request[t])] = decider[t]
    BY DEF AllowsAreGranted
  <2>1. pc[t] = "returned"
    BY DEF Inv, CallsInOrder
  <2>2. answer[t] = decision[t]
    BY DEF Inv, AnswersAreDecisions, Deny
  <2>3. /\ decision[t] = Verdict(decider[t], request[t])
        /\ ~HotReplacement => decider[t] = bindings[PairOf(request[t])]
    BY <2>1 DEF Inv, CallsInOrder
  <2>4. decider[t] # None
    BY <2>2, <2>3 DEF Verdict, Deny
  <2>5. Rule[decider[t].policy][<<request[t].principal, request[t].subject>>]
          = decision[t]
    BY <2>2, <2>3, <2>4 DEF Verdict, Deny
  <2>6. decision[t] = ALLOW
    <3>1. decision[t] \in Decisions
      BY <2>1, DecisionMade
    <3> QED BY <2>2, <3>1 DEF Decisions, ALLOW
  <2> QED BY <2>3, <2>4, <2>5, <2>6
<1> QED BY <1>1, Invariance, PTL

(* Every decision adecide was to audit left its entry or the warning of    *)
(* the write that failed.                                                  *)
THEOREM NothingUnrecorded == Spec => []AuditedOrWarned
<1>1. Inv => AuditedOrWarned
  BY DEF Inv, AnswersAreDecisions, AuditedOrWarned
<1> QED BY <1>1, Invariance, PTL

(* No entry contradicts the answer of its call.                            *)
THEOREM TruthfulTrail == Spec => []TrailAgreesWithAnswers
<1>1. Inv => TrailAgreesWithAnswers
  BY DEF Inv, TypeOK, PersistedWereWritten, EntriesRecordDecisions,
         AnswersAreDecisions, Audited, TrailAgreesWithAnswers
<1> QED BY <1>1, Invariance, PTL

(* A read-only engine answers a question one way.                          *)
THEOREM ConsistentAnswers == Spec => []SameQuestionSameAnswer
<1>1. Inv => SameQuestionSameAnswer
  <2> SUFFICES ASSUME Inv, NEW t \in Calls, NEW u \in Calls,
                      answer[t] # None, answer[u] # None, ~HotReplacement,
                      [request[t] EXCEPT !.via = "decide"]
                        = [request[u] EXCEPT !.via = "decide"]
               PROVE  \/ answer[t] = answer[u]
                      \/ /\ config.mode = "deny"
                         /\ (t \in warned) # (u \in warned)
    BY DEF SameQuestionSameAnswer
  <2>1. pc[t] = "returned" /\ pc[u] = "returned"
    BY DEF Inv, CallsInOrder
  <2>2. request[t] \in Requests /\ request[u] \in Requests
    BY <2>1, DecisionMade
  <2>3. /\ request[t].principal = request[u].principal
        /\ request[t].action = request[u].action
        /\ request[t].subject = request[u].subject
    BY <2>2 DEF Requests
  <2>4. decision[t] = Verdict(bindings[PairOf(request[t])], request[t])
    BY <2>1 DEF Inv, CallsInOrder
  <2>5. decision[u] = Verdict(bindings[PairOf(request[u])], request[u])
    BY <2>1 DEF Inv, CallsInOrder
  <2>6. decision[t] = decision[u]
    BY <2>3, <2>4, <2>5 DEF PairOf, Verdict
  <2> QED BY <2>6 DEF Inv, AnswersAreDecisions
<1> QED BY <1>1, Invariance, PTL

-----------------------------------------------------------------------------
(* What adecide does to its store.                                         *)

LEMMA InitStore == Init => Store!Init
BY DEF Init, Store!Init, WriteOf

(* A step that leaves alone what the contract sees is a stutter of it.     *)
LEMMA StoreStutters ==
  ASSUME UNCHANGED <<pc, entry, warned, persisted>>
  PROVE  UNCHANGED Store!vars
BY DEF Store!vars, WriteOf

(* A step of the calls that concerns t only changes the write of t only.   *)
LEMMA StoreStep ==
  ASSUME Inv, [Next]_vars
  PROVE  [Store!Next]_(Store!vars)
<1> DEFINE state == [t \in Calls |-> WriteOf(t)]
<1>1. CASE UNCHANGED <<pc, entry, warned, persisted>>
  BY <1>1, StoreStutters
<1>2. CASE \E t \in Calls, req \in Requests : Decide(t, req) \/ Adecide(t, req)
  <2>1. PICK t \in Calls, req \in Requests : Decide(t, req) \/ Adecide(t, req)
    BY <1>2
  <2>2. /\ pc[t] = "idle"
        /\ pc'[t] \in {"recording", "returned"}
        /\ \A u \in Calls \ {t} : pc'[u] = pc[u]
        /\ UNCHANGED <<entry, warned, persisted>>
    BY <2>1 DEF Inv, TypeOK, Decide, Adecide, Evaluate
  <2>3. entry[t] = None /\ t \notin warned
    BY <2>2 DEF Inv, CallsInOrder
  <2>4. state' = state
    BY <2>2, <2>3 DEF WriteOf
  <2> QED BY <2>2, <2>4 DEF Store!vars
<1>3. CASE \E t \in Calls, metadata \in CallerMetadata : BuildEntry(t, metadata)
  <2>1. PICK t \in Calls, metadata \in CallerMetadata : BuildEntry(t, metadata)
    BY <1>3
  <2>2. /\ pc[t] = "recording"
        /\ pc' = [pc EXCEPT ![t] = "writing"]
        /\ \A u \in Calls \ {t} : entry'[u] = entry[u]
        /\ UNCHANGED <<warned, persisted>>
    BY <2>1 DEF Inv, TypeOK, BuildEntry
  <2>3. state[t] = "idle" /\ state' = [state EXCEPT ![t] = "open"]
    BY <2>2 DEF Inv, TypeOK, WriteOf
  <2> QED BY <2>2, <2>3 DEF Store!Next, Store!Begin
<1>4. CASE \E t \in Calls, metadata \in CallerMetadata : EntryRaises(t, metadata)
  <2>1. PICK t \in Calls, metadata \in CallerMetadata : EntryRaises(t, metadata)
    BY <1>4
  <2>2. /\ pc[t] = "recording"
        /\ pc' = [pc EXCEPT ![t] = "raised"]
        /\ UNCHANGED <<entry, warned, persisted>>
    BY <2>1 DEF EntryRaises
  <2>3. state' = state
    BY <2>2 DEF Inv, TypeOK, WriteOf
  <2> QED BY <2>2, <2>3 DEF Store!vars
<1>5. CASE \E t \in Calls : StorePersists(t)
  <2>1. PICK t \in Calls : StorePersists(t)
    BY <1>5
  <2>2. state' = state
    BY <2>1 DEF StorePersists, WriteOf
  <2>3. state[t] # "idle"
    BY <2>1 DEF Inv, TypeOK, CallsInOrder, StorePersists, WriteOf
  <2> QED BY <2>1, <2>2, <2>3 DEF Store!Next, Store!Persist, StorePersists
<1>6. CASE \E t \in Calls : WriteReturns(t)
  <2>1. PICK t \in Calls : WriteReturns(t)
    BY <1>6
  <2>2. /\ pc[t] = "writing"
        /\ pc' = [pc EXCEPT ![t] = "returned"]
        /\ t \in persisted
        /\ UNCHANGED <<entry, warned, persisted>>
    BY <2>1 DEF WriteReturns
  <2>3. entry[t] # None /\ t \notin warned
    BY <2>2 DEF Inv, CallsInOrder
  <2>4. state[t] = "open" /\ state' = [state EXCEPT ![t] = "returned"]
    BY <2>2, <2>3 DEF Inv, TypeOK, WriteOf
  <2> QED BY <2>2, <2>4 DEF Store!Next, Store!Return
<1>7. CASE \E t \in Calls : WriteRaises(t)
  <2>1. PICK t \in Calls : WriteRaises(t)
    BY <1>7
  <2>2. /\ pc[t] = "writing"
        /\ pc' = [pc EXCEPT ![t] = "returned"]
        /\ warned' = warned \cup {t}
        /\ UNCHANGED <<entry, persisted>>
    BY <2>1 DEF WriteRaises
  <2>3. state[t] = "open" /\ state' = [state EXCEPT ![t] = "raised"]
    BY <2>2 DEF Inv, TypeOK, WriteOf
  <2> QED BY <2>2, <2>3 DEF Store!Next, Store!Raise
<1>8. CASE \E t \in Calls : Cancel(t)
  <2>1. PICK t \in Calls : Cancel(t)
    BY <1>8
  <2>2. /\ pc[t] = "writing"
        /\ pc' = [pc EXCEPT ![t] = "cancelled"]
        /\ UNCHANGED <<entry, warned, persisted>>
    BY <2>1 DEF Cancel
  <2>3. state[t] = "open" /\ state' = [state EXCEPT ![t] = "cancelled"]
    BY <2>2 DEF Inv, TypeOK, WriteOf
  <2> QED BY <2>2, <2>3 DEF Store!Next, Store!Cancel
<1> QED BY <1>1, <1>2, <1>3, <1>4, <1>5, <1>6, <1>7, <1>8
        DEF Next, Register, TestPolicy, StorePolicy, ReplacePolicy, TestResolver,
            StoreResolver, StartServing, Record, Answer, vars, calls

(* The engine keeps its side of the AuditStore contract, and takes no more *)
(* from the store than the contract gives: a step of adecide is a step of  *)
(* the contract or none of its business.                                   *)
THEOREM EngineRefinesStoreContract == Spec => RespectsStoreContract
<1>1. Inv /\ [Next]_vars => [Store!Next]_(Store!vars)
  BY StoreStep
<1> QED BY <1>1, InitStore, Invariance, PTL DEF Spec, RespectsStoreContract, Store!Spec

-----------------------------------------------------------------------------
(* Registration.                                                           *)

LEMMA TypePreserved == RegistrationInv /\ Inv /\ [Next]_vars => TypeOK'
BY NextInv DEF Inv

(* No engine is constructed with type T = list[A], whose guard lets A      *)
(* through: the case GenericAliasesAreRefused is about.                    *)
NoGenericAlias == \A c \in Arguments : c.base.shape # "generic alias"

(* The guard made of a subject_base that was accepted lets no type through *)
(* that the argument does not name: nothing is dropped from it.            *)
LEMMA GuardIsSound ==
  ASSUME NoGenericAlias, TypeOK
  PROVE  Admissible \subseteq Sanctioned
<1> DEFINE base == config.base
<1>1. base \in Bases /\ Normalize(base) # Refused /\ base.shape # "generic alias"
  BY EngineAssumption DEF NoGenericAlias, TypeOK, Configs, Settings, Constructible
<1>2. \A type \in Types : Admits(Normalize(base), type) => Permits(base, type)
  BY <1>1, GuardIsTheArgument, EngineAssumption
<1> QED BY <1>2 DEF Admissible, Sanctioned

LEMMA BaseIsFixed ==
  ASSUME [Next]_vars
  PROVE  Sanctioned' = Sanctioned
<1>1. config' = config
  BY DEF Next, Register, TestPolicy, StorePolicy, ReplacePolicy, TestResolver,
         StoreResolver, StartServing, Decide, Adecide, Evaluate, Record, BuildEntry,
         EntryRaises, StorePersists, Answer, WriteReturns, WriteRaises, Cancel, vars
<1> QED BY <1>1 DEF Sanctioned

(* Storing a binding in a sanctioned slot keeps the table well formed.     *)
LEMMA StoreBindingWellFormed ==
  ASSUME TypeOK, TablesWellFormed,
         NEW pair \in Pairs, NEW binding \in Bindings,
         pair[2] \in Sanctioned, StoreBinding(pair, binding),
         resolvers' \subseteq Sanctioned, Sanctioned' = Sanctioned
  PROVE  TablesWellFormed'
<1>1. order \in Seq(Pairs) /\ bindings \in [Pairs -> Bindings \cup {None}]
  BY DEF TypeOK
<1>2. bindings' = [bindings EXCEPT ![pair] = binding]
  BY DEF StoreBinding
<1>3. \A p \in Pairs : bindings'[p] = IF p = pair THEN binding ELSE bindings[p]
  BY <1>1, <1>2
<1>4. binding # None
  BY NoneIsNew
<1>5. CASE bindings[pair] = None
  <2>1. order' = Append(order, pair)
    BY <1>5 DEF StoreBinding
  <2>2. /\ Len(order) \in Nat
        /\ DOMAIN order = 1 .. Len(order)
        /\ DOMAIN order' = 1 .. Len(order) + 1
        /\ \A i \in DOMAIN order : order'[i] = order[i]
        /\ order'[Len(order) + 1] = pair
    BY <1>1, <2>1, LenProperties, AppendProperties
  <2>3. \A i \in DOMAIN order : order[i] # pair
    BY <1>5 DEF TablesWellFormed, PolicyRegistered
  <2>4. \A i \in DOMAIN order' : i \in DOMAIN order \/ i = Len(order) + 1
    BY <2>2
  <2>5. \A i, j \in DOMAIN order' : order'[i] = order'[j] => i = j
    BY <2>2, <2>3, <2>4 DEF TablesWellFormed, PolicyRegistered
  <2>6. \A p \in Pairs :
          (\E i \in DOMAIN order' : order'[i] = p)
            <=> (p = pair \/ \E i \in DOMAIN order : order[i] = p)
    BY <2>2, <2>4
  <2> QED BY <1>3, <1>4, <2>5, <2>6 DEF TablesWellFormed, PolicyRegistered
<1>6. CASE bindings[pair] # None
  <2>1. order' = order
    BY <1>6 DEF StoreBinding
  <2> QED BY <1>3, <1>4, <1>6, <2>1 DEF TablesWellFormed, PolicyRegistered
<1> QED BY <1>5, <1>6

LEMMA RegistrationStep ==
  ASSUME NoGenericAlias, RegistrationInv, Inv, [Next]_vars
  PROVE  RegistrationInv'
<1>1. TypeOK'
  BY TypePreserved
<1>0. Admissible \subseteq Sanctioned /\ Sanctioned' = Sanctioned
  BY GuardIsSound, BaseIsFixed DEF RegistrationInv
<1> USE <1>0, <1>1
<1>2. ASSUME NEW r \in Registrars, NEW pair \in Pairs, NEW binding \in Bindings,
             TestPolicy(r, pair, binding)
      PROVE  TablesWellFormed' /\ StoringIsSanctioned'
  BY <1>2 DEF TestPolicy, tables, RegistrationInv, TypeOK, TablesWellFormed, PolicyRegistered,
              StoringIsSanctioned, PolicyOps, ResolverOps
<1>3. ASSUME NEW r \in Registrars, StorePolicy(r)
      PROVE  TablesWellFormed' /\ StoringIsSanctioned'
  <2>1. storing[r] \in PolicyOps
    BY <1>3 DEF StorePolicy, RegistrationInv, TypeOK, ResolverOps
  <2>2. /\ storing[r].pair \in Pairs
        /\ storing[r].binding \in Bindings
        /\ storing[r].pair[2] \in Sanctioned
    BY <2>1 DEF PolicyOps, RegistrationInv, StoringIsSanctioned
  <2>3. StoreBinding(storing[r].pair, storing[r].binding) /\ resolvers' = resolvers
    BY <1>3 DEF StorePolicy
  <2>4. TablesWellFormed'
    BY <2>2, <2>3, StoreBindingWellFormed DEF RegistrationInv, TablesWellFormed, PolicyRegistered
  <2>5. StoringIsSanctioned'
    BY <1>3, NoneIsNew DEF StorePolicy, RegistrationInv, TypeOK, StoringIsSanctioned
  <2> QED BY <2>4, <2>5
<1>4. ASSUME NEW r \in Registrars, NEW pair \in Pairs, NEW binding \in Bindings,
             ReplacePolicy(r, pair, binding)
      PROVE  TablesWellFormed' /\ StoringIsSanctioned'
  <2>1. StoringIsSanctioned'
    BY <1>4 DEF ReplacePolicy, RegistrationInv, StoringIsSanctioned
  <2>2. CASE pair[2] \in Admissible
    <3>1. StoreBinding(pair, binding) /\ resolvers' = resolvers
      BY <1>4, <2>2 DEF ReplacePolicy
    <3> QED BY <2>1, <2>2, <3>1, StoreBindingWellFormed
            DEF RegistrationInv, TablesWellFormed, PolicyRegistered
  <2>3. CASE pair[2] \notin Admissible
    BY <1>4, <2>1, <2>3 DEF ReplacePolicy, RegistrationInv, TablesWellFormed, PolicyRegistered
  <2> QED BY <2>2, <2>3
<1>5. ASSUME NEW r \in Registrars, NEW type \in Types, TestResolver(r, type)
      PROVE  TablesWellFormed' /\ StoringIsSanctioned'
  BY <1>5 DEF TestResolver, tables, RegistrationInv, TypeOK, TablesWellFormed, PolicyRegistered,
              StoringIsSanctioned, PolicyOps, ResolverOps
<1>6. ASSUME NEW r \in Registrars, StoreResolver(r)
      PROVE  TablesWellFormed' /\ StoringIsSanctioned'
  <2>1. storing[r].type \in Sanctioned
    BY <1>6 DEF StoreResolver, RegistrationInv, TypeOK, StoringIsSanctioned,
                PolicyOps, ResolverOps
  <2>2. TablesWellFormed'
    BY <1>6, <2>1 DEF StoreResolver, RegistrationInv, TablesWellFormed, PolicyRegistered
  <2>3. StoringIsSanctioned'
    BY <1>6, NoneIsNew DEF StoreResolver, RegistrationInv, TypeOK, StoringIsSanctioned
  <2> QED BY <2>2, <2>3
<1>7. ASSUME UNCHANGED registration
      PROVE  TablesWellFormed' /\ StoringIsSanctioned'
  BY <1>7 DEF registration, tables, RegistrationInv, TablesWellFormed, PolicyRegistered,
              StoringIsSanctioned
<1>8. \/ \E r \in Registrars : Register(r)
      \/ UNCHANGED registration
  BY DEF Next, StartServing, Decide, Adecide, Evaluate, Record, BuildEntry,
         EntryRaises, StorePersists, Answer, WriteReturns, WriteRaises, Cancel,
         vars, registration, tables
<1>9. TablesWellFormed' /\ StoringIsSanctioned'
  BY <1>2, <1>3, <1>4, <1>5, <1>6, <1>7, <1>8 DEF Register
<1> QED BY <1>1, <1>9 DEF RegistrationInv

(* The tables list every bound pair once, and nothing unsanctioned got in, *)
(* however the registrars interleave (no single-writer assumption); the    *)
(* base of an engine is anything but the alias of a generic.               *)
THEOREM TablesStayWellFormed ==
  ASSUME NoGenericAlias
  PROVE  Spec => []TablesWellFormed
<1>1. Init => RegistrationInv
  BY InitInv, NoneIsNew DEF Init, Inv, RegistrationInv, TablesWellFormed,
     PolicyRegistered, StoringIsSanctioned
<1>2. RegistrationInv /\ Inv /\ [Next]_vars => RegistrationInv'
  BY RegistrationStep
<1>3. RegistrationInv => TablesWellFormed
  BY DEF RegistrationInv
<1> QED BY <1>1, <1>2, <1>3, Invariance, PTL DEF Spec

(* What a registrar is about to store, and where.                          *)
LEMMA StoringCases ==
  ASSUME TypeOK, StoringIsOwned, NEW r \in Registrars, storing[r] # None
  PROVE  \/ /\ storing[r] \in PolicyOps
            /\ storing[r].kind = "policy"
            /\ storing[r].pair \in Pairs
            /\ storing[r].pair[2] \in Owns[r]
         \/ /\ storing[r] \in ResolverOps
            /\ storing[r].kind = "resolver"
            /\ storing[r].type \in Owns[r]
<1>1. storing[r] \in PolicyOps \cup ResolverOps
  BY DEF TypeOK
<1>2. CASE storing[r] \in PolicyOps
  BY <1>2 DEF StoringIsOwned, PolicyOps
<1>3. CASE storing[r] \in ResolverOps
  BY <1>3 DEF StoringIsOwned, ResolverOps
<1> QED BY <1>1, <1>2, <1>3

(* A write the test of r allows: the slot is empty, and r's own.           *)
LEMMA SlotStep ==
  ASSUME TypeOK, StoringIsOwned, SlotStillEmpty, [Next]_vars
  PROVE  StoringIsOwned' /\ SlotStillEmpty'
<1>1. ASSUME NEW r \in Registrars, NEW pair \in Pairs, NEW binding \in Bindings,
             TestPolicy(r, pair, binding)
      PROVE  StoringIsOwned' /\ SlotStillEmpty'
  <2>1. bindings' = bindings /\ resolvers' = resolvers
    BY <1>1 DEF TestPolicy, tables
  <2>2. CASE storing' = storing
    BY <2>1, <2>2 DEF StoringIsOwned, SlotStillEmpty
  <2>3. CASE storing' # storing
    <3>1. /\ bindings[pair] = None
          /\ pair[2] \in Owns[r]
          /\ storing' = [storing EXCEPT ![r] =
               [kind |-> "policy", pair |-> pair, binding |-> binding]]
      BY <1>1, <2>3 DEF TestPolicy
    <3>2. /\ storing'[r] \notin ResolverOps
          /\ storing'[r].pair = pair
          /\ \A s \in Registrars : s # r => storing'[s] = storing[s]
      BY <3>1 DEF TypeOK, ResolverOps
    <3>3. StoringIsOwned'
      BY <3>1, <3>2 DEF StoringIsOwned
    <3>4. SlotStillEmpty'
      BY <2>1, <3>1, <3>2 DEF SlotStillEmpty
    <3> QED BY <3>3, <3>4
  <2> QED BY <2>2, <2>3
<1>2. ASSUME NEW r \in Registrars, NEW type \in Types, TestResolver(r, type)
      PROVE  StoringIsOwned' /\ SlotStillEmpty'
  <2>1. bindings' = bindings /\ resolvers' = resolvers
    BY <1>2 DEF TestResolver, tables
  <2>2. CASE storing' = storing
    BY <2>1, <2>2 DEF StoringIsOwned, SlotStillEmpty
  <2>3. CASE storing' # storing
    <3>1. /\ type \notin resolvers
          /\ type \in Owns[r]
          /\ storing' = [storing EXCEPT ![r] = [kind |-> "resolver", type |-> type]]
      BY <1>2, <2>3 DEF TestResolver
    <3>2. /\ storing'[r] \notin PolicyOps
          /\ storing'[r].type = type
          /\ \A s \in Registrars : s # r => storing'[s] = storing[s]
      BY <3>1 DEF TypeOK, PolicyOps
    <3>3. StoringIsOwned'
      BY <3>1, <3>2 DEF StoringIsOwned
    <3>4. SlotStillEmpty'
      BY <2>1, <3>1, <3>2 DEF SlotStillEmpty
    <3> QED BY <3>3, <3>4
  <2> QED BY <2>2, <2>3
<1>3. ASSUME NEW r \in Registrars, NEW type,
             type \in Owns[r],
             \A s \in Registrars \ {r} : storing'[s] = storing[s],
             storing'[r] = None,
             \A p \in Pairs : p[2] # type => bindings'[p] = bindings[p],
             resolvers' \subseteq resolvers \cup {type}
      PROVE  StoringIsOwned' /\ SlotStillEmpty'
  <2>1. ASSUME NEW s \in Registrars, storing'[s] \in PolicyOps \cup ResolverOps
        PROVE  s # r /\ storing'[s] = storing[s] /\ storing[s] # None
    BY <1>3, <2>1, NoneIsNew
  <2>2. StoringIsOwned'
    BY <2>1 DEF StoringIsOwned
  <2>3. ASSUME NEW s \in Registrars, storing'[s] \in PolicyOps, Sole(storing'[s].pair[2])
        PROVE  bindings'[storing'[s].pair] = None
    <3>1. /\ s # r /\ storing'[s] = storing[s]
          /\ storing[s].pair \in Pairs /\ storing[s].pair[2] \in Owns[s]
      BY <2>1, <2>3 DEF StoringIsOwned, PolicyOps
    <3>2. storing[s].pair[2] # type
      BY <1>3, <2>3, <3>1 DEF Sole
    <3>3. bindings'[storing[s].pair] = bindings[storing[s].pair]
      BY <1>3, <3>1, <3>2
    <3> QED BY <2>3, <3>1, <3>3 DEF SlotStillEmpty
  <2>4. ASSUME NEW s \in Registrars, storing'[s] \in ResolverOps, Sole(storing'[s].type)
        PROVE  storing'[s].type \notin resolvers'
    <3>1. s # r /\ storing'[s] = storing[s] /\ storing[s].type \in Owns[s]
      BY <2>1, <2>4 DEF StoringIsOwned
    <3>2. storing[s].type # type
      BY <1>3, <2>4, <3>1 DEF Sole
    <3>3. storing[s].type \notin resolvers
      BY <2>4, <3>1 DEF SlotStillEmpty
    <3> QED BY <1>3, <3>1, <3>2, <3>3
  <2> QED BY <2>2, <2>3, <2>4 DEF SlotStillEmpty
<1>4. ASSUME NEW r \in Registrars, StorePolicy(r)
      PROVE  StoringIsOwned' /\ SlotStillEmpty'
  <2>1. storing[r].pair \in Pairs /\ storing[r].pair[2] \in Owns[r]
    BY <1>4, StoringCases DEF StorePolicy
  <2>2. /\ \A s \in Registrars \ {r} : storing'[s] = storing[s]
        /\ storing'[r] = None
        /\ resolvers' = resolvers
    BY <1>4 DEF StorePolicy, TypeOK
  <2>3. \A p \in Pairs : p # storing[r].pair => bindings'[p] = bindings[p]
    BY <1>4, <2>1 DEF StorePolicy, StoreBinding, TypeOK
  <2>4. \A p \in Pairs : p[2] # storing[r].pair[2] => bindings'[p] = bindings[p]
    BY <2>3
  <2> QED BY <1>3, <2>1, <2>2, <2>4
<1>5. ASSUME NEW r \in Registrars, NEW pair \in Pairs, NEW binding \in Bindings,
             ReplacePolicy(r, pair, binding)
      PROVE  StoringIsOwned' /\ SlotStillEmpty'
  <2>1. /\ pair[2] \in Owns[r]
        /\ storing' = storing
        /\ storing[r] = None
        /\ resolvers' = resolvers
    BY <1>5 DEF ReplacePolicy, MayRegister
  <2>2. \A p \in Pairs : p # pair => bindings'[p] = bindings[p]
    BY <1>5 DEF ReplacePolicy, StoreBinding, TypeOK
  <2>3. \A p \in Pairs : p[2] # pair[2] => bindings'[p] = bindings[p]
    BY <2>2
  <2> QED BY <1>3, <2>1, <2>3
<1>6. ASSUME NEW r \in Registrars, StoreResolver(r)
      PROVE  StoringIsOwned' /\ SlotStillEmpty'
  <2>1. storing[r].type \in Owns[r]
    BY <1>6, StoringCases DEF StoreResolver
  <2>2. /\ \A s \in Registrars \ {r} : storing'[s] = storing[s]
        /\ storing'[r] = None
        /\ bindings' = bindings
        /\ resolvers' = resolvers \cup {storing[r].type}
    BY <1>6 DEF StoreResolver, TypeOK
  <2> QED BY <1>3, <2>1, <2>2
<1>7. ASSUME UNCHANGED registration
      PROVE  StoringIsOwned' /\ SlotStillEmpty'
  BY <1>7 DEF registration, tables, StoringIsOwned, SlotStillEmpty
<1>8. \/ \E r \in Registrars : Register(r)
      \/ UNCHANGED registration
  BY DEF Next, StartServing, Decide, Adecide, Evaluate, Record, BuildEntry,
         EntryRaises, StorePersists, Answer, WriteReturns, WriteRaises, Cancel,
         vars, registration, tables
<1> QED BY <1>1, <1>2, <1>4, <1>5, <1>6, <1>7, <1>8 DEF Register

(* Neither policy() nor the resolver decorator overwrites anything of a    *)
(* type that has one registrar, the discipline that                        *)
(* tests/property/test_registration_thread_safety.py:12-15 names.          *)
THEOREM OneWriterNeverOverwrites == Spec => NothingIsOverwritten
<1>1. Init => StoringIsOwned /\ SlotStillEmpty
  BY NoneIsNew DEF Init, StoringIsOwned, SlotStillEmpty
<1>2. TypeOK /\ StoringIsOwned /\ SlotStillEmpty /\ [Next]_vars
        => StoringIsOwned' /\ SlotStillEmpty'
  BY SlotStep
<1>3. TypeOK /\ StoringIsOwned /\ SlotStillEmpty
        => [\A r \in Registrars :
              storing[r] # None /\ storing'[r] = None =>
                IF storing[r].kind = "policy"
                THEN Sole(storing[r].pair[2]) => bindings[storing[r].pair] = None
                ELSE Sole(storing[r].type) => storing[r].type \notin resolvers]_vars
  BY StoringCases DEF SlotStillEmpty
<1> QED BY <1>1, <1>2, <1>3, TypeCorrectness, PTL DEF Spec, NothingIsOverwritten

LEMMA AppendExtends ==
  ASSUME NEW S, NEW s \in Seq(S), NEW x \in S
  PROVE  IsPrefix(s, Append(s, x))
<1>1. /\ Len(s) \in Nat
      /\ Append(s, x) \in Seq(S)
      /\ Len(Append(s, x)) = Len(s) + 1
      /\ \A i \in 1 .. Len(s) : Append(s, x)[i] = s[i]
  BY LenProperties, AppendProperties
<1>2. \A i \in 1 .. Len(s) : s[i] \in S /\ Append(s, x)[i] \in S
  BY <1>1, ElementOfSeq
<1>3. /\ SubSeq(s, 1, Len(s)) \in Seq(S)
      /\ SubSeq(Append(s, x), 1, Len(s)) \in Seq(S)
  BY <1>1, <1>2, SubSeqProperties
<1>4. /\ Len(SubSeq(s, 1, Len(s))) = Len(s)
      /\ Len(SubSeq(Append(s, x), 1, Len(s))) = Len(s)
  BY <1>1, <1>2, SubSeqProperties
<1>5. \A i \in 1 .. Len(s) :
        SubSeq(s, 1, Len(s))[i] = SubSeq(Append(s, x), 1, Len(s))[i]
  <2>1. \A i \in 1 .. Len(s) - 1 + 1 : SubSeq(s, 1, Len(s))[i] = s[1 + i - 1]
    BY <1>1, <1>2, SubSeqProperties
  <2>2. \A i \in 1 .. Len(s) - 1 + 1 :
          SubSeq(Append(s, x), 1, Len(s))[i] = Append(s, x)[1 + i - 1]
    BY <1>1, <1>2, SubSeqProperties
  <2> QED BY <1>1, <2>1, <2>2
<1>6. SubSeq(s, 1, Len(s)) = SubSeq(Append(s, x), 1, Len(s))
  BY <1>3, <1>4, <1>5, SeqEqual
<1> QED BY <1>1, <1>6 DEF IsPrefix

(* Registration only ever adds to the tables, whoever registers meanwhile. *)
THEOREM TablesOnlyGrow == Spec => RegistrationOnlyAdds
<1>1. ASSUME Inv, [Next]_vars
      PROVE  IsPrefix(order, order') /\ resolvers \subseteq resolvers'
  <2>1. order \in Seq(Pairs)
    BY <1>1 DEF Inv, TypeOK
  <2>2. order' = order \/ \E pair \in Pairs : order' = Append(order, pair)
    <3>1. \A r \in Registrars : StorePolicy(r) => storing[r].pair \in Pairs
      BY <1>1 DEF StorePolicy, Inv, TypeOK, PolicyOps, ResolverOps
    <3> QED BY <1>1, <3>1
            DEF Next, Register, TestPolicy, StorePolicy, ReplacePolicy, StoreBinding,
                TestResolver, StoreResolver, StartServing, Decide, Adecide, Evaluate,
                Record, BuildEntry, EntryRaises, StorePersists, Answer, WriteReturns,
                WriteRaises, Cancel, vars, registration, tables
  <2>3. resolvers \subseteq resolvers'
    BY <1>1
       DEF Next, Register, TestPolicy, StorePolicy, ReplacePolicy, StoreBinding,
           TestResolver, StoreResolver, StartServing, Decide, Adecide, Evaluate,
           Record, BuildEntry, EntryRaises, StorePersists, Answer, WriteReturns,
           WriteRaises, Cancel, vars, registration, tables
  <2>4. IsPrefix(order, order')
    <3>1. CASE order' = order
      BY <2>1, <3>1, LenProperties DEF IsPrefix
    <3>2. CASE \E pair \in Pairs : order' = Append(order, pair)
      BY <2>1, <3>2, AppendExtends
    <3> QED BY <2>2, <3>1, <3>2
  <2> QED BY <2>3, <2>4
<1> QED BY <1>1, Invariance, PTL DEF Spec, RegistrationOnlyAdds
=============================================================================
