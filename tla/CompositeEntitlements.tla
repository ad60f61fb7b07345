------------------------ MODULE CompositeEntitlements ------------------------
(***************************************************************************)
(* entitlements/composite.py over the other providers: calls of            *)
(* CompositeEntitlementProvider.entitlements_for, each of which gathers    *)
(* the answers of several providers, one of them a                         *)
(* CachedEntitlementProvider that all the composites share.                *)
(*                                                                         *)
(* asyncio.gather wraps every provider's coroutine into a task that starts *)
(* in a later step of the loop.  The child task of call c that asks the    *)
(* shared cache is the task c of CachedEntitlements.  Cancelling a call    *)
(* cancels its unfinished children; gather ends when all of them have, and *)
(* then raises CancelledError if it was cancelled itself.                  *)
(***************************************************************************)
EXTENDS Integers

CONSTANTS
  Calls,
  Composites,        \* the provider sets composites are constructed with
  Shared,            \* the cached provider
  Library,           \* static, tier, null and stub providers
  Stubs, Tiers,      \* the stubs, and the tier providers, among them
  Remotes,           \* providers of the application, which suspend
  Features,
  Holds,             \* Holds[p]: what a Library or Remotes provider grants
  Grants,            \* Grants[k][time]: what the provider under the cache grants
  Keys, TTL, MaxEntries, MaxTime, InnerCancels,
  None

VARIABLES
  now, cache, recency, inflight, future, pc, key, asked, flight, cancelled,
  inner, answer,     \* the variables of CachedEntitlements
  composite, lookup, \* per call: the providers gathered, and for what
  child,             \* per call and provider: the state of the child task
  requested,         \* the calls cancel() was called on
  union              \* per call: what its caller received

Cache == INSTANCE CachedEntitlements WITH Tasks <- Calls

provider == <<now, cache, recency, inflight, future, pc, key, asked, flight,
              cancelled, inner, answer>>
calls == <<composite, lookup, child, requested, union>>
vars == <<provider, calls>>

Providers == Library \cup Remotes \cup {Shared}
Times == 0 .. MaxTime

Absent == [kind |-> "absent", features |-> {}]
Waiting == [kind |-> "waiting", features |-> {}]
Running == [kind |-> "running", features |-> {}]
Failed == [kind |-> "failed", features |-> {}]
Cancelled == [kind |-> "cancelled", features |-> {}]
Returned(features) == [kind |-> "returned", features |-> features]

Results == {Returned(set) : set \in SUBSET Features} \cup {Failed, Cancelled}

(* A tier provider is a table of lookups: those whose tier is in its table.*)
TierTable(tierFor, table) ==
  [k \in {k \in Keys : tierFor[k] \in DOMAIN table} |-> table[tierFor[k]]]

NullTable == [k \in {} |-> {}]

ASSUME CompositeAssumption ==
  /\ Composites \subseteq SUBSET Providers
  /\ Stubs \cup Tiers \subseteq Library
  /\ Library \cap Remotes = {}
  /\ Shared \notin Library \cup Remotes
  /\ \A p \in Library \cup Remotes :
       DOMAIN Holds[p] \subseteq Keys /\ \A k \in DOMAIN Holds[p] : Holds[p][k] \subseteq Features
  /\ Grants \in [Keys -> [Times -> SUBSET Features]]
  /\ {TTL, MaxEntries, MaxTime} \subseteq Nat
  /\ InnerCancels \in BOOLEAN
  /\ None \notin Results \cup Keys \cup Calls
  /\ None \notin Composites
  /\ None \notin Cache!Results \cup {Cache!Pending} \cup Cache!CacheEntries
  /\ None \notin [key : Keys, at : Times]

Init ==
  /\ Cache!Init
  /\ composite = [c \in Calls |-> None]
  /\ lookup = [c \in Calls |-> None]
  /\ child = [c \in Calls |-> [p \in Providers |-> Absent]]
  /\ requested = {}
  /\ union = [c \in Calls |-> None]

Tick == Cache!Tick /\ UNCHANGED calls

-----------------------------------------------------------------------------
(* The composite's call and its child tasks.                               *)

InCall(c) == composite[c] # None /\ union[c] = None

(* A composite of no providers answers at once.                            *)
Ask(c, providers, k) ==
  /\ composite[c] = None
  /\ composite' = [composite EXCEPT ![c] = providers]
  /\ lookup' = [lookup EXCEPT ![c] = k]
  /\ child' = [child EXCEPT ![c] =
       [p \in Providers |-> IF p \in providers THEN Waiting ELSE Absent]]
  /\ union' = [union EXCEPT ![c] = IF providers = {} THEN Returned({}) ELSE None]
  /\ UNCHANGED <<provider, requested>>

Becomes(c, p, state) ==
  /\ child' = [child EXCEPT ![c][p] = state]
  /\ UNCHANGED <<composite, lookup, requested, union>>

(* The library's own tables answer without suspending: an unknown lookup   *)
(* has no features, and makes a stub raise KeyError.  A tier provider asks *)
(* the application's tier_for first, which may raise.                      *)
StaticAnswer(table, k) == Returned(IF k \in DOMAIN table THEN table[k] ELSE {})

StubAnswer(table, k) ==
  IF k \in DOMAIN table THEN Returned(table[k]) ELSE Failed

Provide(p, k) ==
  IF p \in Stubs THEN StubAnswer(Holds[p], k) ELSE StaticAnswer(Holds[p], k)

StartLibrary(c, p) ==
  /\ p \in Library
  /\ child[c][p] = Waiting
  /\ \E result \in {Provide(p, lookup[c]), Failed} :
       /\ result = Failed => p \in Tiers \/ Provide(p, lookup[c]) = Failed
       /\ Becomes(c, p, result)
  /\ UNCHANGED provider

StartRemote(c, p) ==
  /\ p \in Remotes
  /\ child[c][p] = Waiting
  /\ Becomes(c, p, Running)
  /\ UNCHANGED provider

RemoteEnds(c, p) ==
  /\ p \in Remotes
  /\ child[c][p] = Running
  /\ \E result \in {Provide(p, lookup[c]), Failed, Cancelled} :
       /\ result = Cancelled => c \in requested \/ InnerCancels
       /\ Becomes(c, p, result)
  /\ UNCHANGED provider

StartShared(c) ==
  /\ child[c][Shared] = Waiting
  /\ \/ Cache!Hit(c, lookup[c])
     \/ Cache!Follow(c, lookup[c])
     \/ Cache!Lead(c, lookup[c])
  /\ Becomes(c, Shared, Running)

SharedProceeds(c) ==
  /\ Cache!LeaderResumes(c) \/ Cache!FollowerResumes(c)
  /\ UNCHANGED calls

(* What the child task of c on the shared cache has come to.               *)
FromCache(c) ==
  IF answer[c] = None THEN Running
  ELSE CASE answer[c].kind = "value" -> Returned(Grants[key[c]][answer[c].read])
         [] answer[c].kind = "failed" -> Failed
         [] answer[c].kind = "cancelled" -> Cancelled

State(c, p) ==
  IF p = Shared /\ child[c][p] = Running THEN FromCache(c) ELSE child[c][p]

-----------------------------------------------------------------------------
(* Cancellation of a call, and its end.                                    *)

(* Task.cancel() on the children: one that has not started never will, one *)
(* that is suspended has CancelledError thrown into what it awaits.        *)
Cancel(c) ==
  /\ InCall(c)
  /\ c \notin requested
  /\ requested' = requested \cup {c}
  /\ child' = [child EXCEPT ![c] =
       [p \in Providers |-> IF @[p] = Waiting THEN Cancelled ELSE @[p]]]
  /\ \/ Cache!CancelLeader(c)
     \/ Cache!CancelFollower(c)
     \/ pc[c] \notin {"leading", "following"} /\ UNCHANGED provider
  /\ UNCHANGED <<composite, lookup, union>>

Gathered(c) == {State(c, p) : p \in composite[c]}

(* Slip: the first exception among the results is raised.                  *)
CombineStrictly(c) ==
  IF \E result \in Gathered(c) : result \in {Failed, Cancelled}
  THEN CHOOSE result \in Gathered(c) : result \in {Failed, Cancelled}
  ELSE Returned(UNION {result.features : result \in Gathered(c)})

(* Slip: the loop stops at a provider that failed.                         *)
CombineUpToFailure(c) ==
  IF c \in requested \/ Cancelled \in Gathered(c) THEN Cancelled
  ELSE IF Failed \in Gathered(c) THEN Returned({})
  ELSE Returned(UNION {result.features : result \in Gathered(c)})

(* Slip: a cancelled child is one more provider that failed.               *)
CombineCancelledAsFailed(c) ==
  Returned(UNION {result.features : result \in Gathered(c)})

(* A cancelled child decides for the union; a failed one has no features.  *)
Combine(c) ==
  IF c \in requested \/ Cancelled \in Gathered(c) THEN Cancelled
  ELSE Returned(UNION {result.features : result \in Gathered(c)})

(* Slip: only children that answered count as finished.                    *)
FinishWhenAllAnswered(c) ==
  /\ InCall(c)
  /\ \A result \in Gathered(c) : result \in Results \ {Failed}
  /\ union' = [union EXCEPT ![c] = Combine(c)]
  /\ UNCHANGED <<provider, composite, lookup, child, requested>>

Finish(c) ==
  /\ InCall(c)
  /\ Gathered(c) \subseteq Results
  /\ union' = [union EXCEPT ![c] = Combine(c)]
  /\ UNCHANGED <<provider, composite, lookup, child, requested>>

-----------------------------------------------------------------------------
Proceeds(c) ==
  \/ \E p \in Library : StartLibrary(c, p)
  \/ \E p \in Remotes : StartRemote(c, p) \/ RemoteEnds(c, p)
  \/ StartShared(c)
  \/ SharedProceeds(c)
  \/ Finish(c)

Next ==
  \/ Tick
  \/ \E c \in Calls :
       \/ \E providers \in Composites, k \in Keys : Ask(c, providers, k)
       \/ Proceeds(c)
       \/ Cancel(c)

(* The event loop runs the tasks that are ready, and the providers answer. *)
Fairness == \A c \in Calls : WF_vars(Proceeds(c))

Spec == Init /\ [][Next]_vars /\ Fairness

-----------------------------------------------------------------------------
(* What the composite promises.                                            *)

TypeOK ==
  /\ composite \in [Calls -> {None} \cup SUBSET Providers]
  /\ lookup \in [Calls -> Keys \cup {None}]
  /\ child \in [Calls -> [Providers -> Results \cup {Absent, Waiting, Running}]]
  /\ requested \subseteq Calls
  /\ union \in [Calls -> (Results \ {Failed}) \cup {None}]

(* What a provider granted for the lookup of c: in the cache's case, less  *)
(* than TTL before it was asked, or during the load c waited for.          *)
GrantedTo(c, p) ==
  IF p = Shared
  THEN UNION {Grants[lookup[c]][read] :
                read \in {r \in 0 .. now :
                  IF flight[c] = None THEN asked[c] - r < TTL
                  ELSE asked[flight[c]] <= r}}
  ELSE Provide(p, lookup[c]).features

(* Fail closed and nothing lost: every feature handed out was granted by a *)
(* provider of that composite for that lookup, and as lately as the cache  *)
(* promises; and every provider that answered has its features in it,       *)
(* whichever of the others failed and in whatever order they ended.        *)
UnionsAreGranted ==
  \A c \in Calls :
    union[c] # None /\ union[c].kind = "returned" =>
      /\ \A f \in union[c].features : \E p \in composite[c] : f \in GrantedTo(c, p)
      /\ \A p \in composite[c] :
           State(c, p).kind = "returned" =>
             State(c, p).features \subseteq union[c].features

(* A call that was cancelled ends cancelled, also when its children did    *)
(* not; and a call that ends cancelled was cancelled itself or waited, in  *)
(* the shared cache, for the load of a call that was.                      *)
CancellationHasACause ==
  \A c \in Calls :
    /\ c \in requested /\ union[c] # None => union[c] = Cancelled
    /\ union[c] = Cancelled =>
         \/ c \in requested
         \/ InnerCancels
         \/ /\ Shared \in composite[c]
            /\ \E d \in requested : flight[d] # None /\ flight[d] = flight[c]

(* Every call ends: gather waits for all its children, a cancelled one     *)
(* among them, and none of them waits for ever.                            *)
EveryCallEnds == \A c \in Calls : composite[c] # None ~> union[c] # None
=============================================================================
