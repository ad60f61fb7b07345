-------------------- MODULE CompositeEntitlementsProofs --------------------
(***************************************************************************)
(* CompositeEntitlements keeps its promises for any calls, providers and   *)
(* grants, and any size of the cache the composites share.  What the cache *)
(* keeps is not proved again: its proofs are used through an instance.     *)
(***************************************************************************)
EXTENDS CompositeEntitlements, TLAPS

CacheProofs == INSTANCE CachedEntitlementsProofs WITH Tasks <- Calls

-----------------------------------------------------------------------------
(* The inductive invariant.                                                *)

(* A call that was not made has no children; the child on the cache runs   *)
(* when the cache has its task; the others have answered what they hold,   *)
(* or failed, or were cancelled with the call.                             *)
ChildrenTell ==
  \A c \in Calls :
    /\ composite[c] = None =>
         /\ union[c] = None
         /\ c \notin requested
         /\ \A p \in Providers : child[c][p] = Absent
    /\ composite[c] # None => lookup[c] \in Keys
    /\ pc[c] # "idle" <=> child[c][Shared] = Running
    /\ pc[c] # "idle" => key[c] = lookup[c]
    /\ child[c][Shared] \in {Absent, Waiting, Running, Cancelled}
    /\ \A p \in Library \cup Remotes :
         child[c][p] \in {Absent, Waiting, Running, Failed, Cancelled, Provide(p, lookup[c])}
    /\ \A p \in Providers :
         child[c][p] = Cancelled => c \in requested \/ InnerCancels

(* A call ended with what its children came to.                            *)
UnionsCombine ==
  \A c \in Calls :
    union[c] # None => Gathered(c) \subseteq Results /\ union[c] = Combine(c)

(* What the cache hands out was read before.                               *)
ReadsArePast ==
  \A c \in Calls :
    answer[c] # None /\ answer[c].kind = "value" => answer[c].read <= now

Inv ==
  /\ CacheProofs!Inv
  /\ TypeOK
  /\ ChildrenTell
  /\ UnionsCombine
  /\ ReadsArePast
  /\ cancelled \subseteq requested

-----------------------------------------------------------------------------
(* The states of a child.                                                  *)

LEMMA KindsDiffer ==
  /\ \A set : Returned(set) \notin {Absent, Waiting, Running, Failed, Cancelled}
  /\ \A set : Returned(set).features = set /\ Returned(set).kind = "returned"
  /\ {Absent, Waiting, Running} \cap Results = {}
  /\ Absent \notin {Waiting, Running, Failed, Cancelled}
  /\ Waiting \notin {Running, Failed, Cancelled}
  /\ Running \notin {Failed, Cancelled}
  /\ Failed # Cancelled
  /\ \A state \in {Absent, Waiting, Running, Failed, Cancelled} :
       state.features = {} /\ state.kind # "returned"
BY DEF Returned, Absent, Waiting, Running, Failed, Cancelled, Results

LEMMA NoneIsNew ==
  /\ None \notin Results
  /\ None \notin Keys
  /\ None \notin Composites
BY CompositeAssumption

LEMMA ProvideType ==
  ASSUME NEW p \in Library \cup Remotes, NEW k
  PROVE  /\ Provide(p, k) \in Results
         /\ Provide(p, k) \notin {Absent, Waiting, Running, Cancelled}
<1>1. ASSUME k \in DOMAIN Holds[p]
      PROVE  Holds[p][k] \in SUBSET Features
  BY <1>1, CompositeAssumption
<1>2. \A set \in SUBSET Features : Returned(set) \in Results
  BY DEF Results
<1>3. Failed \in Results
  BY DEF Results
<1>4. Provide(p, k) \in {Failed} \cup {Returned(set) : set \in SUBSET Features}
  BY <1>1 DEF Provide, StubAnswer, StaticAnswer
<1> QED BY <1>2, <1>3, <1>4, KindsDiffer

-----------------------------------------------------------------------------
(* The cache under the composites is the cache of CachedEntitlements.      *)

LEMMA CacheAssumed == CacheProofs!CacheAssumption
BY CompositeAssumption
   DEF CacheProofs!CacheAssumption, CacheProofs!Results, CacheProofs!Times,
       CacheProofs!Failed, CacheProofs!Cancelled, CacheProofs!Pending,
       CacheProofs!CacheEntries, Cache!Results, Cache!Times, Cache!Failed,
       Cache!Cancelled, Cache!Pending, Cache!CacheEntries, Times

LEMMA CacheStarts == Cache!Init => CacheProofs!Init
BY DEF Cache!Init, CacheProofs!Init

LEMMA CallsOfTheCache ==
  ASSUME NEW c \in Calls, NEW k \in Keys
  PROVE  /\ Cache!Hit(c, k) => CacheProofs!Hit(c, k)
         /\ Cache!Follow(c, k) => CacheProofs!Follow(c, k)
         /\ Cache!Lead(c, k) => CacheProofs!Lead(c, k)
<1>1. Cache!Hit(c, k) => CacheProofs!Hit(c, k)
  BY DEF Cache!Hit, CacheProofs!Hit, Cache!Call, CacheProofs!Call, Cache!Fresh,
         CacheProofs!Fresh, Cache!Without, CacheProofs!Without, Cache!RemoveAt,
         CacheProofs!RemoveAt, Cache!Value, CacheProofs!Value
<1>2. Cache!Miss(c, k) => CacheProofs!Miss(c, k)
  BY DEF Cache!Miss, CacheProofs!Miss, Cache!Call, CacheProofs!Call, Cache!Fresh,
         CacheProofs!Fresh, Cache!Without, CacheProofs!Without, Cache!RemoveAt,
         CacheProofs!RemoveAt
<1>3. Cache!Follow(c, k) => CacheProofs!Follow(c, k)
  BY <1>2 DEF Cache!Follow, CacheProofs!Follow, Cache!Pending, CacheProofs!Pending
<1>4. Cache!Lead(c, k) => CacheProofs!Lead(c, k)
  BY <1>2 DEF Cache!Lead, CacheProofs!Lead, Cache!Pending, CacheProofs!Pending
<1> QED BY <1>1, <1>3, <1>4

LEMMA ResumptionsOfTheCache ==
  ASSUME NEW c \in Calls
  PROVE  /\ Cache!LeaderResumes(c) => CacheProofs!LeaderResumes(c)
         /\ Cache!FollowerResumes(c) => CacheProofs!FollowerResumes(c)
<1>1. \A read \in Cache!Times : Cache!LeaderSucceeds(c, read) => CacheProofs!LeaderSucceeds(c, read)
  BY DEF Cache!LeaderSucceeds, CacheProofs!LeaderSucceeds, Cache!LeaderEnds,
         CacheProofs!LeaderEnds, Cache!Resolve, CacheProofs!Resolve, Cache!Kept,
         CacheProofs!Kept, Cache!Stored, CacheProofs!Stored, Cache!ToSet,
         CacheProofs!ToSet, Cache!Value, CacheProofs!Value, Cache!Pending,
         CacheProofs!Pending
<1>2. Cache!LeaderFails(c) => CacheProofs!LeaderFails(c)
  BY DEF Cache!LeaderFails, CacheProofs!LeaderFails, Cache!LeaderEnds,
         CacheProofs!LeaderEnds, Cache!Resolve, CacheProofs!Resolve, Cache!Failed,
         CacheProofs!Failed, Cache!Cancelled, CacheProofs!Cancelled, Cache!Pending,
         CacheProofs!Pending, Cache!store, CacheProofs!store
<1>3. Cache!LeaderCancelled(c) => CacheProofs!LeaderCancelled(c)
  BY DEF Cache!LeaderCancelled, CacheProofs!LeaderCancelled, Cache!LeaderEnds,
         CacheProofs!LeaderEnds, Cache!Resolve, CacheProofs!Resolve, Cache!Cancelled,
         CacheProofs!Cancelled, Cache!Pending, CacheProofs!Pending, Cache!store,
         CacheProofs!store
<1>4. Cache!FollowerResumes(c) => CacheProofs!FollowerResumes(c)
  BY DEF Cache!FollowerResumes, CacheProofs!FollowerResumes, Cache!Cancelled,
         CacheProofs!Cancelled, Cache!Pending, CacheProofs!Pending, Cache!store,
         CacheProofs!store
<1> QED BY <1>1, <1>2, <1>3, <1>4
   DEF Cache!LeaderResumes, CacheProofs!LeaderResumes, Cache!Times, CacheProofs!Times

LEMMA CancellationsOfTheCache ==
  ASSUME NEW c \in Calls
  PROVE  /\ Cache!CancelLeader(c) => CacheProofs!CancelLeader(c)
         /\ Cache!CancelFollower(c) => CacheProofs!CancelFollower(c)
BY DEF Cache!CancelLeader, CacheProofs!CancelLeader, Cache!CancelFollower,
       CacheProofs!CancelFollower, Cache!Resolve, CacheProofs!Resolve,
       Cache!Cancelled, CacheProofs!Cancelled, Cache!Pending, CacheProofs!Pending,
       Cache!store, CacheProofs!store

LEMMA TickOfTheCache == Cache!Tick => CacheProofs!Tick
BY DEF Cache!Tick, CacheProofs!Tick, Cache!store, CacheProofs!store

(* The cache takes a step of its own, or none.                             *)
CacheMoves == [CacheProofs!Next]_(CacheProofs!vars)

LEMMA ProviderRests == UNCHANGED provider => CacheMoves
BY DEF provider, CacheMoves, CacheProofs!vars, CacheProofs!store

LEMMA CacheKeepsInv == CacheProofs!Inv /\ CacheMoves => CacheProofs!Inv'
BY CacheProofs!NextInv, CacheAssumed DEF CacheMoves

(* A task that is in the cache stays in it with its lookup, and an answer  *)
(* is final.                                                               *)
LEMMA CacheIsSteady ==
  ASSUME CacheProofs!Inv, CacheMoves, NEW c \in Calls
  PROVE  /\ pc[c] # "idle" => pc'[c] # "idle" /\ key'[c] = key[c]
         /\ answer[c] # None => pc[c] = "ended" /\ answer'[c] = answer[c]
<1>1. /\ pc \in [Calls -> {"idle", "leading", "following", "ended"}]
      /\ key \in [Calls -> Keys \cup {None}]
      /\ DOMAIN answer = Calls
      /\ answer = [d \in Calls |-> answer[d]]
  BY DEF CacheProofs!Inv, CacheProofs!TypeOK
<1>2. answer[c] # None => pc[c] = "ended"
  BY DEF CacheProofs!Inv, CacheProofs!CallsInOrder
<1>3. \/ UNCHANGED <<pc, key, answer>>
      \/ \E t \in Calls :
           /\ pc[t] # "ended"
           /\ \E to \in {"leading", "following", "ended"} : pc' = [pc EXCEPT ![t] = to]
           /\ key' = key \/ (pc[t] = "idle" /\ \E k : key' = [key EXCEPT ![t] = k])
           /\ answer' = answer \/ \E result : answer' = [answer EXCEPT ![t] = result]
  <2>1. CASE CacheProofs!Tick \/ UNCHANGED CacheProofs!vars
    BY <2>1 DEF CacheProofs!Tick, CacheProofs!vars
  <2>2. ASSUME NEW t \in Calls, NEW k \in Keys, CacheProofs!Hit(t, k)
        PROVE  /\ pc[t] = "idle" /\ pc' = [pc EXCEPT ![t] = "ended"]
               /\ key' = [key EXCEPT ![t] = k]
               /\ \E result : answer' = [answer EXCEPT ![t] = result]
    BY <2>2 DEF CacheProofs!Hit, CacheProofs!Call
  <2>3. ASSUME NEW t \in Calls, NEW k \in Keys, CacheProofs!Follow(t, k)
        PROVE  /\ pc[t] = "idle"
               /\ pc' = [pc EXCEPT ![t] = "ended"] \/ pc' = [pc EXCEPT ![t] = "following"]
               /\ key' = [key EXCEPT ![t] = k]
               /\ answer' = answer \/ \E result : answer' = [answer EXCEPT ![t] = result]
    BY <2>3 DEF CacheProofs!Follow, CacheProofs!Miss, CacheProofs!Call
  <2>4. ASSUME NEW t \in Calls, NEW k \in Keys, CacheProofs!Lead(t, k)
        PROVE  /\ pc[t] = "idle" /\ pc' = [pc EXCEPT ![t] = "leading"]
               /\ key' = [key EXCEPT ![t] = k]
               /\ answer' = answer
    BY <2>4 DEF CacheProofs!Lead, CacheProofs!Miss, CacheProofs!Call
  <2>5. ASSUME NEW t \in Calls, CacheProofs!LeaderResumes(t)
        PROVE  /\ pc[t] = "leading" /\ pc' = [pc EXCEPT ![t] = "ended"]
               /\ key' = key
               /\ \E result : answer' = [answer EXCEPT ![t] = result]
    BY <2>5 DEF CacheProofs!LeaderResumes, CacheProofs!LeaderSucceeds,
                CacheProofs!LeaderFails, CacheProofs!LeaderCancelled,
                CacheProofs!LeaderEnds
  <2>6. ASSUME NEW t \in Calls, CacheProofs!FollowerResumes(t)
        PROVE  /\ pc[t] = "following" /\ pc' = [pc EXCEPT ![t] = "ended"]
               /\ key' = key
               /\ \E result : answer' = [answer EXCEPT ![t] = result]
    BY <2>6 DEF CacheProofs!FollowerResumes
  <2>7. ASSUME NEW t \in Calls, CacheProofs!CancelLeader(t) \/ CacheProofs!CancelFollower(t)
        PROVE  UNCHANGED <<pc, key, answer>>
    BY <2>7 DEF CacheProofs!CancelLeader, CacheProofs!CancelFollower
  <2>8. CASE \E t \in Calls, k \in Keys :
               CacheProofs!Hit(t, k) \/ CacheProofs!Follow(t, k) \/ CacheProofs!Lead(t, k)
    BY <2>2, <2>3, <2>4, <2>8
  <2>9. CASE \E t \in Calls : CacheProofs!LeaderResumes(t) \/ CacheProofs!FollowerResumes(t)
    BY <2>5, <2>6, <2>9
  <2>10. CASE \E t \in Calls : CacheProofs!CancelLeader(t) \/ CacheProofs!CancelFollower(t)
    BY <2>7, <2>10
  <2> QED BY <2>1, <2>8, <2>9, <2>10 DEF CacheMoves, CacheProofs!Next
<1>4. CASE UNCHANGED <<pc, key, answer>>
  BY <1>2, <1>4
<1>5. ASSUME NEW t \in Calls,
             pc[t] # "ended",
             \E to \in {"leading", "following", "ended"} : pc' = [pc EXCEPT ![t] = to],
             key' = key \/ (pc[t] = "idle" /\ \E k : key' = [key EXCEPT ![t] = k]),
             answer' = answer \/ \E result : answer' = [answer EXCEPT ![t] = result]
      PROVE  /\ pc[c] # "idle" => pc'[c] # "idle" /\ key'[c] = key[c]
             /\ answer[c] # None => answer'[c] = answer[c]
  <2>1. pc[c] # "idle" => pc'[c] # "idle"
    BY <1>1, <1>5
  <2>2. pc[c] # "idle" => key'[c] = key[c]
    BY <1>1, <1>5
  <2>3. answer[c] # None => c # t
    BY <1>2, <1>5
  <2>4. c # t => answer'[c] = answer[c]
    BY <1>1, <1>5
  <2> QED BY <2>1, <2>2, <2>3, <2>4
<1> QED BY <1>2, <1>3, <1>4, <1>5

LEMMA ReadsStayPast ==
  ASSUME CacheProofs!Inv, ReadsArePast, CacheMoves
  PROVE  ReadsArePast'
<1>1. /\ now \in Nat
      /\ \A c \in Calls : answer[c] # None /\ answer[c].kind = "value" =>
           answer[c].read \in Nat /\ answer[c].read <= now
      /\ answer = [d \in Calls |-> answer[d]]
  <2>1. MaxTime \in Nat
    BY CompositeAssumption
  <2>2. now \in Nat /\ answer = [d \in Calls |-> answer[d]]
    BY <2>1 DEF CacheProofs!Inv, CacheProofs!TypeOK, CacheProofs!Times
  <2>3. \A c \in Calls : answer[c] \in CacheProofs!Results \cup {None}
    BY DEF CacheProofs!Inv, CacheProofs!TypeOK
  <2>4. \A result \in CacheProofs!Results : result.kind = "value" => result.read \in Nat
    BY <2>1 DEF CacheProofs!Results, CacheProofs!Times, CacheProofs!Failed, CacheProofs!Cancelled
  <2> QED BY <2>2, <2>3, <2>4 DEF ReadsArePast
<1>2. CASE UNCHANGED <<now, answer>>
  BY <1>2 DEF ReadsArePast
<1>3. CASE CacheProofs!Tick
  <2>1. now' = now + 1 /\ answer' = answer
    BY <1>3 DEF CacheProofs!Tick
  <2> QED BY <1>1, <2>1 DEF ReadsArePast
<1>4. ASSUME NEW t \in Calls, NEW result, now' = now,
             answer' = [answer EXCEPT ![t] = result],
             result.kind = "value" => result.read <= now
      PROVE  ReadsArePast'
  BY <1>1, <1>4 DEF ReadsArePast
<1>5. \A f \in Calls : future[f] # None /\ future[f].kind = "value" => future[f].read <= now
  BY <1>1 DEF CacheProofs!Inv, CacheProofs!FuturesTell
<1>6. ASSUME NEW t \in Calls, NEW k \in Keys, CacheProofs!Hit(t, k)
      PROVE  ReadsArePast'
  <2>1. PICK u \in Calls : answer[u] = CacheProofs!Value(cache[k].read)
    BY <1>6 DEF CacheProofs!Hit, CacheProofs!Fresh, CacheProofs!Inv, CacheProofs!EntriesWereLoaded
  <2>2. CacheProofs!Value(cache[k].read).kind = "value"
        /\ CacheProofs!Value(cache[k].read).read = cache[k].read
    BY DEF CacheProofs!Value
  <2>3. answer[u] # None
    <3>1. cache[k] \in CacheProofs!CacheEntries
      BY <1>6 DEF CacheProofs!Hit, CacheProofs!Fresh, CacheProofs!Inv, CacheProofs!TypeOK
    <3>2. CacheProofs!Value(cache[k].read) \in CacheProofs!Results
      BY <3>1 DEF CacheProofs!Value, CacheProofs!Results, CacheProofs!CacheEntries
    <3> QED BY <2>1, <3>2, CacheAssumed DEF CacheProofs!CacheAssumption
  <2>4. cache[k].read <= now
    BY <1>1, <2>1, <2>2, <2>3
  <2>5. now' = now /\ answer' = [answer EXCEPT ![t] = CacheProofs!Value(cache[k].read)]
    BY <1>6 DEF CacheProofs!Hit, CacheProofs!Call
  <2> QED BY <1>4, <2>2, <2>4, <2>5
<1>7. ASSUME NEW t \in Calls, NEW k \in Keys, CacheProofs!Follow(t, k)
      PROVE  ReadsArePast'
  <2>1. inflight[k] \in Calls /\ now' = now
    BY <1>7 DEF CacheProofs!Follow, CacheProofs!Miss, CacheProofs!Call, CacheProofs!Inv,
                CacheProofs!TypeOK
  <2>2. future[inflight[k]] # None
    <3>1. future[inflight[k]] \in {CacheProofs!Pending, CacheProofs!Cancelled}
      BY <1>7, <2>1 DEF CacheProofs!Follow, CacheProofs!Inv, CacheProofs!InflightIsLed
    <3> QED BY <3>1, CacheAssumed DEF CacheProofs!CacheAssumption, CacheProofs!Results
  <2>3. answer' = answer \/ answer' = [answer EXCEPT ![t] = future[inflight[k]]]
    BY <1>7 DEF CacheProofs!Follow
  <2> QED BY <1>2, <1>4, <1>5, <2>1, <2>2, <2>3
<1>8. ASSUME NEW t \in Calls, CacheProofs!LeaderResumes(t)
      PROVE  ReadsArePast'
  <2>1. ASSUME NEW read \in CacheProofs!Times, CacheProofs!LeaderSucceeds(t, read)
        PROVE  ReadsArePast'
    <3>1. /\ now' = now
          /\ answer' = [answer EXCEPT ![t] = CacheProofs!Value(read)]
          /\ read \in asked[t] .. now
      BY <2>1 DEF CacheProofs!LeaderSucceeds, CacheProofs!LeaderEnds
    <3>2. read <= now
      BY <3>1
    <3>3. CacheProofs!Value(read).read = read
      BY DEF CacheProofs!Value
    <3> QED BY <1>4, <3>1, <3>2, <3>3
  <2>2. CASE CacheProofs!LeaderFails(t) \/ CacheProofs!LeaderCancelled(t)
    <3>1. PICK result \in {CacheProofs!Failed, CacheProofs!Cancelled} :
            now' = now /\ answer' = [answer EXCEPT ![t] = result]
      BY <2>2 DEF CacheProofs!LeaderFails, CacheProofs!LeaderCancelled, CacheProofs!LeaderEnds
    <3>2. result.kind # "value"
      BY DEF CacheProofs!Failed, CacheProofs!Cancelled
    <3> QED BY <1>4, <3>1, <3>2
  <2> QED BY <1>8, <2>1, <2>2 DEF CacheProofs!LeaderResumes
<1>9. ASSUME NEW t \in Calls, CacheProofs!FollowerResumes(t)
      PROVE  ReadsArePast'
  <2>1. flight[t] \in Calls /\ future[flight[t]] # None /\ now' = now
    BY <1>9 DEF CacheProofs!FollowerResumes, CacheProofs!Inv, CacheProofs!TypeOK,
                CacheProofs!CallsInOrder, CacheProofs!FlightsAreLed
  <2>2. \/ answer' = [answer EXCEPT ![t] = CacheProofs!Cancelled]
        \/ answer' = [answer EXCEPT ![t] = future[flight[t]]]
    BY <1>9 DEF CacheProofs!FollowerResumes
  <2>3. CacheProofs!Cancelled.kind # "value"
    BY DEF CacheProofs!Cancelled
  <2> QED BY <1>4, <1>5, <2>1, <2>2, <2>3
<1>10. CASE \/ UNCHANGED CacheProofs!vars
            \/ \E t \in Calls : CacheProofs!CancelLeader(t) \/ CacheProofs!CancelFollower(t)
  BY <1>2, <1>10 DEF CacheProofs!vars, CacheProofs!CancelLeader, CacheProofs!CancelFollower
<1>11. CASE \E t \in Calls, k \in Keys :
              CacheProofs!Hit(t, k) \/ CacheProofs!Follow(t, k) \/ CacheProofs!Lead(t, k)
  <2>1. ASSUME NEW t \in Calls, NEW k \in Keys, CacheProofs!Lead(t, k)
        PROVE  UNCHANGED <<now, answer>>
    BY <2>1 DEF CacheProofs!Lead, CacheProofs!Miss, CacheProofs!Call
  <2> QED BY <1>2, <1>6, <1>7, <1>11, <2>1
<1>12. CASE \E t \in Calls : CacheProofs!LeaderResumes(t) \/ CacheProofs!FollowerResumes(t)
  BY <1>8, <1>9, <1>12
<1> QED BY <1>3, <1>10, <1>11, <1>12 DEF CacheMoves, CacheProofs!Next

-----------------------------------------------------------------------------
(* What has ended stays as it ended.                                       *)

LEMMA StateStays ==
  ASSUME Inv, CacheMoves, NEW c \in Calls, NEW p \in Providers,
         child'[c][p] = child[c][p], State(c, p) \in Results
  PROVE  State(c, p)' = State(c, p)
<1>1. CASE p = Shared /\ child[c][p] = Running
  <2>1. answer[c] # None
    BY <1>1, KindsDiffer DEF State, FromCache
  <2>2. answer'[c] = answer[c] /\ key'[c] = key[c]
    BY <2>1, CacheIsSteady DEF Inv
  <2> QED BY <1>1, <2>2 DEF State, FromCache
<1>2. CASE ~(p = Shared /\ child[c][p] = Running)
  BY <1>2 DEF State
<1> QED BY <1>1, <1>2

LEMMA UnionStays ==
  ASSUME Inv, CacheMoves, NEW c \in Calls, union[c] # None,
         union'[c] = union[c], composite'[c] = composite[c],
         c \in requested' <=> c \in requested,
         \A p \in Providers : State(c, p) \in Results => child'[c][p] = child[c][p]
  PROVE  Gathered(c)' \subseteq Results /\ union'[c] = Combine(c)'
<1>1. composite[c] \subseteq Providers
  BY DEF Inv, TypeOK, ChildrenTell
<1>2. Gathered(c) \subseteq Results /\ union[c] = Combine(c)
  BY DEF Inv, UnionsCombine
<1>3. \A p \in composite[c] : State(c, p)' = State(c, p)
  BY <1>1, <1>2, StateStays DEF Gathered
<1>4. Gathered(c)' = Gathered(c)
  BY <1>3 DEF Gathered
<1>5. Combine(c)' = Combine(c)
  BY <1>4 DEF Combine
<1> QED BY <1>2, <1>4, <1>5

(* A step that ends no call and leaves finished children alone.            *)
LEMMA UnionsStay ==
  ASSUME Inv, CacheMoves, union' = union, composite' = composite,
         \A c \in Calls : union[c] # None => (c \in requested' <=> c \in requested),
         \A c \in Calls, p \in Providers :
           union[c] # None /\ State(c, p) \in Results => child'[c][p] = child[c][p]
  PROVE  UnionsCombine'
BY UnionStays DEF UnionsCombine

-----------------------------------------------------------------------------
(* Every step preserves the invariant: one lemma per action.               *)

LEMMA TickStep ==
  ASSUME Inv, Tick
  PROVE  Inv'
<1>1. /\ CacheMoves
      /\ UNCHANGED <<composite, lookup, child, requested, union>>
      /\ UNCHANGED <<pc, key, cancelled>>
  BY TickOfTheCache DEF Tick, calls, CacheMoves, CacheProofs!Next, Cache!Tick
<1>2. CacheProofs!Inv' /\ ReadsArePast'
  BY <1>1, CacheKeepsInv, ReadsStayPast DEF Inv
<1>3. UnionsCombine'
  BY <1>1, UnionsStay
<1>4. TypeOK' /\ ChildrenTell' /\ cancelled' \subseteq requested'
  BY <1>1 DEF Inv, TypeOK, ChildrenTell
<1> QED BY <1>2, <1>3, <1>4 DEF Inv

LEMMA AskStep ==
  ASSUME Inv, NEW c \in Calls, NEW providers \in Composites, NEW k \in Keys,
         Ask(c, providers, k)
  PROVE  Inv'
<1>1. /\ composite[c] = None
      /\ composite' = [composite EXCEPT ![c] = providers]
      /\ lookup' = [lookup EXCEPT ![c] = k]
      /\ child' = [child EXCEPT ![c] =
           [p \in Providers |-> IF p \in providers THEN Waiting ELSE Absent]]
      /\ union' = [union EXCEPT ![c] = IF providers = {} THEN Returned({}) ELSE None]
      /\ UNCHANGED <<provider, requested>>
  BY DEF Ask
<1>2. CacheMoves /\ UNCHANGED <<pc, key, cancelled>>
  BY <1>1, ProviderRests DEF provider
<1>3. CacheProofs!Inv' /\ ReadsArePast'
  BY <1>2, CacheKeepsInv, ReadsStayPast DEF Inv
<1>4. providers \in SUBSET Providers /\ providers # None
  BY CompositeAssumption, NoneIsNew
<1>5. /\ composite'[c] = providers /\ lookup'[c] = k
      /\ union'[c] = IF providers = {} THEN Returned({}) ELSE None
      /\ \A p \in Providers : child'[c][p] = IF p \in providers THEN Waiting ELSE Absent
      /\ \A d \in Calls \ {c} : /\ composite'[d] = composite[d]
                                /\ lookup'[d] = lookup[d]
                                /\ union'[d] = union[d]
                                /\ child'[d] = child[d]
  BY <1>1 DEF Inv, TypeOK
<1>6. TypeOK'
  <2>1. [p \in Providers |-> IF p \in providers THEN Waiting ELSE Absent]
          \in [Providers -> Results \cup {Absent, Waiting, Running}]
    OBVIOUS
  <2>2. Returned({}) \in Results \ {Failed}
    BY KindsDiffer DEF Results
  <2> QED BY <1>1, <1>4, <2>1, <2>2 DEF Inv, TypeOK
<1>7. c \notin requested /\ pc[c] = "idle" /\ union[c] = None
  <2>1. Shared \in Providers
    BY DEF Providers
  <2> QED BY <1>1, <2>1, KindsDiffer DEF Inv, ChildrenTell
<1>8. ChildrenTell'
  <2> SUFFICES ASSUME NEW d \in Calls
               PROVE  /\ composite'[d] = None =>
                           /\ union'[d] = None
                           /\ d \notin requested'
                           /\ \A p \in Providers : child'[d][p] = Absent
                      /\ composite'[d] # None => lookup'[d] \in Keys
                      /\ pc'[d] # "idle" <=> child'[d][Shared] = Running
                      /\ pc'[d] # "idle" => key'[d] = lookup'[d]
                      /\ child'[d][Shared] \in {Absent, Waiting, Running, Cancelled}
                      /\ \A p \in Library \cup Remotes :
                           child'[d][p] \in {Absent, Waiting, Running, Failed, Cancelled,
                                             Provide(p, lookup'[d])}
                      /\ \A p \in Providers :
                           child'[d][p] = Cancelled => d \in requested' \/ InnerCancels
    BY DEF ChildrenTell, Provide, StubAnswer, StaticAnswer
  <2>1. CASE d = c
    <3>1. /\ composite'[d] # None /\ lookup'[d] \in Keys /\ pc'[d] = "idle"
          /\ \A p \in Providers : child'[d][p] \in {Waiting, Absent}
      BY <1>2, <1>4, <1>5, <1>7, <2>1
    <3>2. Shared \in Providers /\ Library \cup Remotes \subseteq Providers
      BY DEF Providers
    <3> QED BY <3>1, <3>2, KindsDiffer
  <2>2. CASE d # c
    <3>1. requested' = requested
      BY <1>1
    <3> QED BY <1>2, <1>5, <2>2, <3>1 DEF Inv, ChildrenTell
  <2> QED BY <2>1, <2>2
<1>9. UnionsCombine'
  <2> SUFFICES ASSUME NEW d \in Calls, union'[d] # None
               PROVE  Gathered(d)' \subseteq Results /\ union'[d] = Combine(d)'
    BY DEF UnionsCombine
  <2>1. CASE d = c
    <3>1. providers = {} /\ union'[c] = Returned({}) /\ c \notin requested'
      BY <1>1, <1>5, <1>7, <2>1
    <3>2. Gathered(c)' = {}
      BY <1>5, <3>1 DEF Gathered
    <3>3. UNION {result.features : result \in {}} = {}
      OBVIOUS
    <3>4. Combine(c)' = Returned({})
      BY <3>1, <3>2, <3>3 DEF Combine
    <3> QED BY <2>1, <3>1, <3>2, <3>4
  <2>2. CASE d # c
    <3>1. union[d] # None /\ union'[d] = union[d] /\ composite'[d] = composite[d] /\ child'[d] = child[d]
      BY <1>5, <2>2
    <3> QED BY <1>1, <1>2, <3>1, UnionStays
  <2> QED BY <2>1, <2>2
<1>10. cancelled' \subseteq requested'
  BY <1>1, <1>2 DEF Inv
<1> QED BY <1>3, <1>6, <1>8, <1>9, <1>10 DEF Inv

(* A provider that is no cache moves its child.                            *)
LEMMA ChildMoves ==
  ASSUME Inv, NEW c \in Calls, NEW p \in Library \cup Remotes,
         NEW state \in {Running, Failed, Cancelled, Provide(p, lookup[c])},
         child[c][p] \in {Waiting, Running},
         state = Cancelled => c \in requested \/ InnerCancels,
         Becomes(c, p, state), UNCHANGED provider
  PROVE  Inv'
<1>1. /\ child' = [child EXCEPT ![c][p] = state]
      /\ UNCHANGED <<composite, lookup, requested, union>>
      /\ UNCHANGED <<pc, key, cancelled>>
      /\ CacheMoves
  BY ProviderRests DEF Becomes, provider
<1>2. CacheProofs!Inv' /\ ReadsArePast'
  BY <1>1, CacheKeepsInv, ReadsStayPast DEF Inv
<1>3. p \in Providers /\ p # Shared /\ Shared \in Providers
  BY CompositeAssumption DEF Providers
<1>4. child \in [Calls -> [Providers -> Results \cup {Absent, Waiting, Running}]]
  BY DEF Inv, TypeOK
<1>5. /\ child'[c][p] = state
      /\ \A q \in Providers \ {p} : child'[c][q] = child[c][q]
      /\ \A d \in Calls \ {c} : child'[d] = child[d]
  BY <1>1, <1>3, <1>4
<1>6. TypeOK'
  <2>1. state \in Results \cup {Absent, Waiting, Running}
    BY ProvideType DEF Results
  <2>2. child' \in [Calls -> [Providers -> Results \cup {Absent, Waiting, Running}]]
    BY <1>1, <1>3, <1>4, <2>1
  <2> QED BY <1>1, <2>2 DEF Inv, TypeOK
<1>7. ChildrenTell'
  <2> SUFFICES ASSUME NEW d \in Calls
               PROVE  /\ composite[d] = None =>
                           /\ union[d] = None
                           /\ d \notin requested
                           /\ \A q \in Providers : child'[d][q] = Absent
                      /\ composite[d] # None => lookup[d] \in Keys
                      /\ pc[d] # "idle" <=> child'[d][Shared] = Running
                      /\ pc[d] # "idle" => key[d] = lookup[d]
                      /\ child'[d][Shared] \in {Absent, Waiting, Running, Cancelled}
                      /\ \A q \in Library \cup Remotes :
                           child'[d][q] \in {Absent, Waiting, Running, Failed, Cancelled,
                                             Provide(q, lookup[d])}
                      /\ \A q \in Providers :
                           child'[d][q] = Cancelled => d \in requested \/ InnerCancels
    BY <1>1 DEF ChildrenTell, Provide, StubAnswer, StaticAnswer
  <2>1. CASE d = c
    <3>1. composite[c] # None
      BY <1>3, KindsDiffer DEF Inv, ChildrenTell
    <3>2. child'[c][Shared] = child[c][Shared]
      BY <1>3, <1>5
    <3>3. \A q \in Library \cup Remotes :
            child'[c][q] \in {Absent, Waiting, Running, Failed, Cancelled, Provide(q, lookup[c])}
      <4>1. Library \cup Remotes \subseteq Providers
        BY DEF Providers
      <4> QED BY <1>5, <4>1 DEF Inv, ChildrenTell
    <3>4. \A q \in Providers : child'[c][q] = Cancelled => c \in requested \/ InnerCancels
      BY <1>5 DEF Inv, ChildrenTell
    <3> QED BY <2>1, <3>1, <3>2, <3>3, <3>4 DEF Inv, ChildrenTell
  <2>2. CASE d # c
    BY <1>5, <2>2 DEF Inv, ChildrenTell
  <2> QED BY <2>1, <2>2
<1>8. UnionsCombine'
  <2>1. ASSUME NEW d \in Calls, NEW q \in Providers, State(d, q) \in Results
        PROVE  child'[d][q] = child[d][q]
    <3>1. d = c /\ q = p => child[d][q] \in Results
      BY <1>3, <2>1 DEF State
    <3>2. ~(d = c /\ q = p)
      BY <3>1, KindsDiffer
    <3> QED BY <1>5, <3>2
  <2> QED BY <1>1, <2>1, UnionsStay
<1>9. cancelled' \subseteq requested'
  BY <1>1 DEF Inv
<1> QED BY <1>2, <1>6, <1>7, <1>8, <1>9 DEF Inv

LEMMA StartLibraryStep ==
  ASSUME Inv, NEW c \in Calls, NEW p \in Library, StartLibrary(c, p)
  PROVE  Inv'
<1>1. PICK result \in {Provide(p, lookup[c]), Failed} : Becomes(c, p, result)
  BY DEF StartLibrary
<1>2. result # Cancelled
  BY KindsDiffer, ProvideType
<1> QED BY <1>1, <1>2, ChildMoves DEF StartLibrary

LEMMA StartRemoteStep ==
  ASSUME Inv, NEW c \in Calls, NEW p \in Remotes, StartRemote(c, p)
  PROVE  Inv'
BY KindsDiffer, ChildMoves DEF StartRemote

LEMMA RemoteEndsStep ==
  ASSUME Inv, NEW c \in Calls, NEW p \in Remotes, RemoteEnds(c, p)
  PROVE  Inv'
<1>1. PICK result \in {Provide(p, lookup[c]), Failed, Cancelled} :
        /\ result = Cancelled => c \in requested \/ InnerCancels
        /\ Becomes(c, p, result)
  BY DEF RemoteEnds
<1> QED BY <1>1, ChildMoves DEF RemoteEnds

LEMMA StartSharedStep ==
  ASSUME Inv, NEW c \in Calls, StartShared(c)
  PROVE  Inv'
<1>1. Shared \in Providers /\ Shared \notin Library \cup Remotes
  BY CompositeAssumption DEF Providers
<1>2. child[c][Shared] = Waiting /\ Becomes(c, Shared, Running)
  BY DEF StartShared
<1>3. composite[c] # None /\ lookup[c] \in Keys /\ pc[c] = "idle"
  BY <1>1, <1>2, KindsDiffer DEF Inv, ChildrenTell
<1>4. \/ CacheProofs!Hit(c, lookup[c])
      \/ CacheProofs!Follow(c, lookup[c])
      \/ CacheProofs!Lead(c, lookup[c])
  BY <1>3, CallsOfTheCache DEF StartShared
<1>5. CacheMoves
  BY <1>3, <1>4 DEF CacheMoves, CacheProofs!Next
<1>6. /\ \E to \in {"leading", "following", "ended"} : pc' = [pc EXCEPT ![c] = to]
      /\ key' = [key EXCEPT ![c] = lookup[c]]
      /\ cancelled' = cancelled
  BY <1>4 DEF CacheProofs!Hit, CacheProofs!Follow, CacheProofs!Lead, CacheProofs!Miss,
              CacheProofs!Call
<1>7. /\ pc'[c] # "idle" /\ key'[c] = lookup[c]
      /\ \A d \in Calls \ {c} : pc'[d] = pc[d] /\ key'[d] = key[d]
  BY <1>6 DEF Inv, CacheProofs!Inv, CacheProofs!TypeOK
<1>8. CacheProofs!Inv' /\ ReadsArePast'
  BY <1>5, CacheKeepsInv, ReadsStayPast DEF Inv
<1>9. child \in [Calls -> [Providers -> Results \cup {Absent, Waiting, Running}]]
  BY DEF Inv, TypeOK
<1>10. /\ child' = [child EXCEPT ![c][Shared] = Running]
       /\ UNCHANGED <<composite, lookup, requested, union>>
  BY <1>2 DEF Becomes
<1>11. /\ child'[c][Shared] = Running
       /\ \A q \in Providers \ {Shared} : child'[c][q] = child[c][q]
       /\ \A d \in Calls \ {c} : child'[d] = child[d]
  BY <1>1, <1>9, <1>10
<1>12. TypeOK'
  <2>1. child' \in [Calls -> [Providers -> Results \cup {Absent, Waiting, Running}]]
    BY <1>1, <1>9, <1>10
  <2> QED BY <1>10, <2>1 DEF Inv, TypeOK
<1>13. ChildrenTell'
  <2> SUFFICES ASSUME NEW d \in Calls
               PROVE  /\ composite[d] = None =>
                           /\ union[d] = None
                           /\ d \notin requested
                           /\ \A q \in Providers : child'[d][q] = Absent
                      /\ composite[d] # None => lookup[d] \in Keys
                      /\ pc'[d] # "idle" <=> child'[d][Shared] = Running
                      /\ pc'[d] # "idle" => key'[d] = lookup[d]
                      /\ child'[d][Shared] \in {Absent, Waiting, Running, Cancelled}
                      /\ \A q \in Library \cup Remotes :
                           child'[d][q] \in {Absent, Waiting, Running, Failed, Cancelled,
                                             Provide(q, lookup[d])}
                      /\ \A q \in Providers :
                           child'[d][q] = Cancelled => d \in requested \/ InnerCancels
    BY <1>10 DEF ChildrenTell, Provide, StubAnswer, StaticAnswer
  <2>1. CASE d = c
    <3>1. \A q \in Library \cup Remotes : child'[c][q] = child[c][q]
      BY <1>1, <1>11 DEF Providers
    <3>2. \A q \in Providers : child'[c][q] = Cancelled => c \in requested \/ InnerCancels
      BY <1>11, KindsDiffer DEF Inv, ChildrenTell
    <3> QED BY <1>3, <1>7, <1>11, <2>1, <3>1, <3>2 DEF Inv, ChildrenTell
  <2>2. CASE d # c
    BY <1>7, <1>11, <2>2 DEF Inv, ChildrenTell
  <2> QED BY <2>1, <2>2
<1>14. UnionsCombine'
  <2>1. ASSUME NEW d \in Calls, NEW q \in Providers, State(d, q) \in Results
        PROVE  child'[d][q] = child[d][q]
    <3>1. ~(d = c /\ q = Shared)
      BY <1>2, <2>1, KindsDiffer DEF State
    <3> QED BY <1>11, <3>1
  <2> QED BY <1>5, <1>10, <2>1, UnionsStay
<1>15. cancelled' \subseteq requested'
  BY <1>6, <1>10 DEF Inv
<1> QED BY <1>8, <1>12, <1>13, <1>14, <1>15 DEF Inv

LEMMA SharedProceedsStep ==
  ASSUME Inv, NEW c \in Calls, SharedProceeds(c)
  PROVE  Inv'
<1>1. /\ CacheProofs!LeaderResumes(c) \/ CacheProofs!FollowerResumes(c)
      /\ UNCHANGED <<composite, lookup, child, requested, union>>
  BY ResumptionsOfTheCache DEF SharedProceeds, calls
<1>2. CacheMoves
  BY <1>1 DEF CacheMoves, CacheProofs!Next
<1>3. /\ pc[c] # "idle"
      /\ pc' = [pc EXCEPT ![c] = "ended"]
      /\ UNCHANGED <<key, cancelled>>
  BY <1>1 DEF CacheProofs!LeaderResumes, CacheProofs!LeaderSucceeds, CacheProofs!LeaderFails,
              CacheProofs!LeaderCancelled, CacheProofs!LeaderEnds, CacheProofs!FollowerResumes
<1>4. \A d \in Calls : pc'[d] = "idle" <=> pc[d] = "idle"
  BY <1>3 DEF Inv, CacheProofs!Inv, CacheProofs!TypeOK
<1>5. CacheProofs!Inv' /\ ReadsArePast'
  BY <1>2, CacheKeepsInv, ReadsStayPast DEF Inv
<1>6. TypeOK' /\ ChildrenTell' /\ cancelled' \subseteq requested'
  BY <1>1, <1>3, <1>4 DEF Inv, TypeOK, ChildrenTell
<1>7. UnionsCombine'
  BY <1>1, <1>2, UnionsStay
<1> QED BY <1>5, <1>6, <1>7 DEF Inv

LEMMA CancelStep ==
  ASSUME Inv, NEW c \in Calls, Cancel(c)
  PROVE  Inv'
<1>1. /\ composite[c] # None /\ union[c] = None
      /\ requested' = requested \cup {c}
      /\ child' = [child EXCEPT ![c] =
           [p \in Providers |-> IF child[c][p] = Waiting THEN Cancelled ELSE child[c][p]]]
      /\ UNCHANGED <<composite, lookup, union>>
  BY DEF Cancel, InCall, Inv, TypeOK
<1>2. \/ CacheProofs!CancelLeader(c)
      \/ CacheProofs!CancelFollower(c)
      \/ UNCHANGED provider
  BY CancellationsOfTheCache DEF Cancel
<1>3. CacheMoves
  BY <1>2, ProviderRests DEF CacheMoves, CacheProofs!Next
<1>4. pc' = pc /\ key' = key /\ cancelled' \subseteq cancelled \cup {c}
  BY <1>2 DEF CacheProofs!CancelLeader, CacheProofs!CancelFollower, provider
<1>5. CacheProofs!Inv' /\ ReadsArePast'
  BY <1>3, CacheKeepsInv, ReadsStayPast DEF Inv
<1>6. child \in [Calls -> [Providers -> Results \cup {Absent, Waiting, Running}]]
  BY DEF Inv, TypeOK
<1>7. /\ \A p \in Providers :
           child'[c][p] = IF child[c][p] = Waiting THEN Cancelled ELSE child[c][p]
      /\ \A d \in Calls \ {c} : child'[d] = child[d]
  BY <1>1, <1>6
<1>8. TypeOK'
  <2>1. [p \in Providers |-> IF child[c][p] = Waiting THEN Cancelled ELSE child[c][p]]
          \in [Providers -> Results \cup {Absent, Waiting, Running}]
    BY <1>6 DEF Results
  <2>2. child' \in [Calls -> [Providers -> Results \cup {Absent, Waiting, Running}]]
    BY <1>1, <1>6, <2>1
  <2> QED BY <1>1, <2>2 DEF Inv, TypeOK
<1>9. ChildrenTell'
  <2> SUFFICES ASSUME NEW d \in Calls
               PROVE  /\ composite[d] = None =>
                           /\ union[d] = None
                           /\ d \notin requested'
                           /\ \A q \in Providers : child'[d][q] = Absent
                      /\ composite[d] # None => lookup[d] \in Keys
                      /\ pc[d] # "idle" <=> child'[d][Shared] = Running
                      /\ pc[d] # "idle" => key[d] = lookup[d]
                      /\ child'[d][Shared] \in {Absent, Waiting, Running, Cancelled}
                      /\ \A q \in Library \cup Remotes :
                           child'[d][q] \in {Absent, Waiting, Running, Failed, Cancelled,
                                             Provide(q, lookup[d])}
                      /\ \A q \in Providers :
                           child'[d][q] = Cancelled => d \in requested' \/ InnerCancels
    BY <1>1, <1>4 DEF ChildrenTell, Provide, StubAnswer, StaticAnswer
  <2>1. CASE d = c
    <3>1. Shared \in Providers /\ Library \cup Remotes \subseteq Providers
      BY DEF Providers
    <3>2. /\ child'[c][Shared] = Running <=> child[c][Shared] = Running
          /\ child'[c][Shared] \in {Absent, Waiting, Running, Cancelled}
      BY <1>7, <3>1, KindsDiffer DEF Inv, ChildrenTell
    <3>3. \A q \in Library \cup Remotes :
            child'[c][q] \in {Absent, Waiting, Running, Failed, Cancelled, Provide(q, lookup[c])}
      BY <1>7, <3>1 DEF Inv, ChildrenTell
    <3> QED BY <1>1, <2>1, <3>2, <3>3 DEF Inv, ChildrenTell
  <2>2. CASE d # c
    BY <1>1, <1>7, <2>2 DEF Inv, ChildrenTell
  <2> QED BY <2>1, <2>2
<1>10. UnionsCombine'
  <2>1. \A d \in Calls : union[d] # None => d # c
    BY <1>1
  <2>2. \A d \in Calls : union[d] # None => (d \in requested' <=> d \in requested)
    BY <1>1, <2>1
  <2>3. \A d \in Calls, q \in Providers :
          union[d] # None /\ State(d, q) \in Results => child'[d][q] = child[d][q]
    BY <1>7, <2>1
  <2> QED BY <1>1, <1>3, <2>2, <2>3, UnionsStay
<1>11. cancelled' \subseteq requested'
  BY <1>1, <1>4 DEF Inv
<1> QED BY <1>5, <1>8, <1>9, <1>10, <1>11 DEF Inv

LEMMA FinishStep ==
  ASSUME Inv, NEW c \in Calls, Finish(c)
  PROVE  Inv'
<1>1. /\ composite[c] # None /\ union[c] = None
      /\ Gathered(c) \subseteq Results
      /\ union' = [union EXCEPT ![c] = Combine(c)]
      /\ UNCHANGED <<provider, composite, lookup, child, requested>>
  BY DEF Finish, InCall
<1>2. CacheMoves /\ UNCHANGED <<pc, key, answer, cancelled>>
  BY <1>1, ProviderRests DEF provider
<1>3. CacheProofs!Inv' /\ ReadsArePast'
  BY <1>2, CacheKeepsInv, ReadsStayPast DEF Inv
<1>4. Combine(c) \in Results \ {Failed}
  <2>1. \A result \in Results : result.features \subseteq Features
    BY KindsDiffer DEF Results
  <2>2. UNION {result.features : result \in Gathered(c)} \in SUBSET Features
    BY <1>1, <2>1
  <2>3. \A set \in SUBSET Features : Returned(set) \in Results \ {Failed}
    BY KindsDiffer DEF Results
  <2>4. Cancelled \in Results \ {Failed}
    BY KindsDiffer DEF Results
  <2> QED BY <2>2, <2>3, <2>4 DEF Combine
<1>5. TypeOK'
  BY <1>1, <1>4 DEF Inv, TypeOK
<1>6. /\ union'[c] = Combine(c)
      /\ \A d \in Calls \ {c} : union'[d] = union[d]
  BY <1>1 DEF Inv, TypeOK
<1>7. ChildrenTell'
  <2> SUFFICES ASSUME NEW d \in Calls, composite[d] = None
               PROVE  union'[d] = None
    BY <1>1, <1>2 DEF Inv, ChildrenTell, Provide, StubAnswer, StaticAnswer
  <2> QED BY <1>1, <1>6 DEF Inv, ChildrenTell
<1>8. UnionsCombine'
  <2> SUFFICES ASSUME NEW d \in Calls, union'[d] # None
               PROVE  Gathered(d)' \subseteq Results /\ union'[d] = Combine(d)'
    BY DEF UnionsCombine
  <2>1. \A p : State(d, p)' = State(d, p)
    BY <1>1, <1>2 DEF State, FromCache
  <2>2. Gathered(d)' = Gathered(d)
    BY <1>1, <2>1 DEF Gathered
  <2>3. Combine(d)' = Combine(d)
    BY <1>1, <2>2 DEF Combine
  <2>4. Gathered(d) \subseteq Results /\ union'[d] = Combine(d)
    <3>1. CASE d = c
      BY <1>1, <1>6, <3>1
    <3>2. CASE d # c
      BY <1>6, <3>2 DEF Inv, UnionsCombine
    <3> QED BY <3>1, <3>2
  <2> QED BY <2>2, <2>3, <2>4
<1>9. cancelled' \subseteq requested'
  BY <1>1, <1>2 DEF Inv
<1> QED BY <1>3, <1>5, <1>7, <1>8, <1>9 DEF Inv

-----------------------------------------------------------------------------
(* The invariant is inductive.                                             *)

LEMMA InitInv == Init => Inv
<1> SUFFICES ASSUME Init
             PROVE  Inv
  OBVIOUS
<1>1. CacheProofs!Init
  BY CacheStarts DEF Init
<1>2. CacheProofs!Inv
  BY <1>1, CacheAssumed, CacheProofs!InitInv
<1>3. TypeOK
  BY DEF Init, TypeOK
<1>4. \A c \in Calls :
        /\ composite[c] = None /\ union[c] = None /\ c \notin requested
        /\ \A p \in Providers : child[c][p] = Absent
        /\ pc[c] = "idle" /\ answer[c] = None
  BY <1>1 DEF Init, CacheProofs!Init
<1>5. ChildrenTell
  <2>1. Shared \in Providers /\ Library \cup Remotes \subseteq Providers
    BY DEF Providers
  <2> QED BY <1>4, <2>1, KindsDiffer DEF ChildrenTell
<1>6. UnionsCombine /\ ReadsArePast
  BY <1>4 DEF UnionsCombine, ReadsArePast
<1>7. cancelled \subseteq requested
  BY <1>1 DEF CacheProofs!Init
<1> QED BY <1>2, <1>3, <1>5, <1>6, <1>7 DEF Inv

LEMMA NextInv == Inv /\ [Next]_vars => Inv'
<1> SUFFICES ASSUME Inv, [Next]_vars
             PROVE  Inv'
  OBVIOUS
<1>1. CASE UNCHANGED vars
  <2>1. /\ UNCHANGED <<composite, lookup, child, requested, union, pc, key, cancelled>>
        /\ CacheMoves
    BY <1>1, ProviderRests DEF vars, provider, calls
  <2>2. CacheProofs!Inv' /\ ReadsArePast'
    BY <2>1, CacheKeepsInv, ReadsStayPast DEF Inv
  <2>3. UnionsCombine'
    BY <2>1, UnionsStay
  <2>4. TypeOK' /\ ChildrenTell' /\ cancelled' \subseteq requested'
    BY <2>1 DEF Inv, TypeOK, ChildrenTell
  <2> QED BY <2>2, <2>3, <2>4 DEF Inv
<1>2. CASE Tick
  BY <1>2, TickStep
<1>3. CASE \E c \in Calls, providers \in Composites, k \in Keys : Ask(c, providers, k)
  BY <1>3, AskStep
<1>4. CASE \E c \in Calls : Proceeds(c)
  BY <1>4, StartLibraryStep, StartRemoteStep, RemoteEndsStep, StartSharedStep,
     SharedProceedsStep, FinishStep DEF Proceeds
<1>5. CASE \E c \in Calls : Cancel(c)
  BY <1>5, CancelStep
<1> QED BY <1>1, <1>2, <1>3, <1>4, <1>5 DEF Next

(* A composite's answer is what its gathered children came to, and the     *)
(* cache below keeps its own invariant whichever calls reach it through    *)
(* gather, cancelled ones included (entitlements/composite.py).            *)
THEOREM Invariance == Spec => []Inv
<1> QED BY InitInv, NextInv, PTL DEF Spec

(* The state of a composite's call is always one gather can be in.         *)
THEOREM TypeCorrectness == Spec => []TypeOK
<1>1. Inv => TypeOK
  BY DEF Inv
<1> QED BY <1>1, Invariance, PTL

-----------------------------------------------------------------------------
(* The promises follow from the invariant.                                 *)

(* A feature of a child's answer was granted by its provider.              *)
LEMMA AnswersAreGranted ==
  ASSUME Inv, NEW c \in Calls, NEW p \in Providers, composite[c] # None,
         State(c, p) \in Results
  PROVE  State(c, p).features \subseteq GrantedTo(c, p)
<1>1. CASE p # Shared
  <2>1. p \in Library \cup Remotes
    BY <1>1 DEF Providers
  <2>2. State(c, p) \in {Absent, Waiting, Running, Failed, Cancelled, Provide(p, lookup[c])}
    BY <1>1, <2>1 DEF State, Inv, ChildrenTell
  <2> QED BY <1>1, <2>2, KindsDiffer DEF GrantedTo
<1>2. CASE p = Shared /\ child[c][p] # Running
  <2>1. State(c, p) \in {Absent, Waiting, Running, Cancelled}
    BY <1>2 DEF State, Inv, ChildrenTell
  <2> QED BY <2>1, KindsDiffer
<1>3. CASE p = Shared /\ child[c][p] = Running
  <2>1. State(c, p) = FromCache(c) /\ answer[c] # None /\ key[c] = lookup[c]
    BY <1>3, KindsDiffer DEF State, FromCache, Inv, ChildrenTell
  <2>2. answer[c] \in CacheProofs!Results
    BY <2>1 DEF Inv, CacheProofs!Inv, CacheProofs!TypeOK
  <2>3. CASE answer[c].kind = "value"
    <3>1. State(c, p) = Returned(Grants[lookup[c]][answer[c].read])
      BY <2>1, <2>3 DEF FromCache
    <3>2. answer[c].read \in 0 .. now
      <4>1. MaxTime \in Nat
        BY CompositeAssumption
      <4>2. answer[c].read \in Nat
        BY <2>2, <2>3, <4>1
           DEF CacheProofs!Results, CacheProofs!Times, CacheProofs!Failed, CacheProofs!Cancelled
      <4>3. now \in Nat /\ answer[c].read <= now
        BY <2>1, <2>3, <4>1
           DEF Inv, ReadsArePast, CacheProofs!Inv, CacheProofs!TypeOK, CacheProofs!Times
      <4> QED BY <4>2, <4>3
    <3>3. IF flight[c] = None THEN asked[c] - answer[c].read < TTL
          ELSE asked[flight[c]] <= answer[c].read
      BY <2>1, <2>3 DEF Inv, CacheProofs!Inv, CacheProofs!ValuesAreFresh
    <3>4. Grants[lookup[c]][answer[c].read] \subseteq GrantedTo(c, p)
      BY <1>3, <3>2, <3>3 DEF GrantedTo
    <3> QED BY <3>1, <3>4, KindsDiffer
  <2>4. CASE answer[c].kind # "value"
    <3>1. answer[c] \in {CacheProofs!Failed, CacheProofs!Cancelled}
      BY <2>2, <2>4 DEF CacheProofs!Results
    <3>2. answer[c].kind \in {"failed", "cancelled"}
      BY <3>1 DEF CacheProofs!Failed, CacheProofs!Cancelled
    <3>3. State(c, p) \in {Failed, Cancelled}
      BY <2>1, <3>2 DEF FromCache
    <3> QED BY <3>3, KindsDiffer
  <2> QED BY <2>3, <2>4
<1> QED BY <1>1, <1>2, <1>3

(* Fail closed and nothing lost: a union holds what a provider of the      *)
(* composite granted for the lookup and nothing else, and all that those   *)
(* which answered had, whichever others failed (composite.py: a failing    *)
(* provider contributes nothing and the others still count).               *)
THEOREM GrantedUnions == Spec => []UnionsAreGranted
<1>1. Inv => UnionsAreGranted
  <2> SUFFICES ASSUME Inv, NEW c \in Calls, union[c] # None, union[c].kind = "returned"
               PROVE  /\ \A f \in union[c].features : \E p \in composite[c] : f \in GrantedTo(c, p)
                      /\ \A p \in composite[c] :
                           State(c, p).kind = "returned" =>
                             State(c, p).features \subseteq union[c].features
    BY DEF UnionsAreGranted
  <2>1. composite[c] # None /\ composite[c] \subseteq Providers
    BY DEF Inv, TypeOK, ChildrenTell
  <2>2. Gathered(c) \subseteq Results /\ union[c] = Combine(c)
    BY DEF Inv, UnionsCombine
  <2>3. union[c] = Returned(UNION {result.features : result \in Gathered(c)})
    BY <2>2, KindsDiffer DEF Combine
  <2>4. union[c].features = UNION {State(c, p).features : p \in composite[c]}
    BY <2>3, KindsDiffer DEF Gathered
  <2>5. \A p \in composite[c] : State(c, p).features \subseteq GrantedTo(c, p)
    BY <2>1, <2>2, AnswersAreGranted DEF Gathered
  <2> QED BY <2>4, <2>5
<1> QED BY <1>1, Invariance, PTL

(* A cancelled call ends cancelled, and a call that ends cancelled was     *)
(* cancelled or waited in the shared cache for the load of one that was    *)
(* (composite.py re-raises CancelledError; cached.py awaits the Future of  *)
(* another call's task).                                                   *)
THEOREM CancellationsAreCaused == Spec => []CancellationHasACause
<1>1. Inv => CancellationHasACause
  <2> SUFFICES ASSUME Inv, NEW c \in Calls
               PROVE  /\ c \in requested /\ union[c] # None => union[c] = Cancelled
                      /\ union[c] = Cancelled =>
                           \/ c \in requested
                           \/ InnerCancels
                           \/ /\ Shared \in composite[c]
                              /\ \E d \in requested : flight[d] # None /\ flight[d] = flight[c]
    BY DEF CancellationHasACause
  <2>1. c \in requested /\ union[c] # None => union[c] = Cancelled
    BY DEF Inv, UnionsCombine, Combine
  <2>2. ASSUME union[c] = Cancelled, c \notin requested, ~InnerCancels
        PROVE  /\ Shared \in composite[c]
               /\ \E d \in requested : flight[d] # None /\ flight[d] = flight[c]
    <3>1. union[c] # None
      BY <2>2, NoneIsNew DEF Results
    <3>2. composite[c] \subseteq Providers
      BY <3>1 DEF Inv, TypeOK, ChildrenTell
    <3>3. Cancelled \in Gathered(c)
      BY <2>2, <3>1, KindsDiffer DEF Inv, UnionsCombine, Combine
    <3>4. PICK p \in composite[c] : State(c, p) = Cancelled
      BY <3>3 DEF Gathered
    <3>5. p = Shared /\ child[c][p] = Running
      BY <2>2, <3>2, <3>4 DEF State, Inv, ChildrenTell
    <3>6. answer[c] # None /\ FromCache(c) = Cancelled
      BY <3>4, <3>5, KindsDiffer DEF State, FromCache
    <3>7. answer[c] = CacheProofs!Cancelled
      <4>1. answer[c] \in CacheProofs!Results
        BY <3>6 DEF Inv, CacheProofs!Inv, CacheProofs!TypeOK
      <4>2. answer[c].kind \notin {"value", "failed"}
        BY <3>6, KindsDiffer DEF FromCache
      <4> QED BY <4>1, <4>2 DEF CacheProofs!Results, CacheProofs!Failed
    <3>8. flight[c] # None /\ \E d \in cancelled : flight[d] = flight[c]
      BY <2>2, <3>7 DEF Inv, CacheProofs!Inv, CacheProofs!TroubleStaysInTheFlight
    <3> QED BY <3>4, <3>5, <3>8 DEF Inv
  <2> QED BY <2>1, <2>2
<1> QED BY <1>1, Invariance, PTL

-----------------------------------------------------------------------------
(* The composites are clients of SharedLoads.                              *)

(* Composites that gather from one cache, and cancel the calls they made   *)
(* of it, see what a cache promises tasks of its own: loads shared by the  *)
(* calls that overlap them, and answers less than TTL old.                 *)
SharesLoads == Cache!ImplementsSharedLoads

LEMMA StepsMoveTheCache ==
  ASSUME Inv, [Next]_vars
  PROVE  CacheMoves
<1>1. CASE Tick
  BY <1>1, TickOfTheCache DEF Tick, CacheMoves, CacheProofs!Next
<1>2. ASSUME NEW c \in Calls, StartShared(c)
      PROVE  CacheMoves
  <2>1. Shared \in Providers /\ child[c][Shared] = Waiting
    BY <1>2 DEF Providers, StartShared
  <2>2. lookup[c] \in Keys
    BY <2>1, KindsDiffer DEF Inv, ChildrenTell
  <2>3. \/ CacheProofs!Hit(c, lookup[c])
        \/ CacheProofs!Follow(c, lookup[c])
        \/ CacheProofs!Lead(c, lookup[c])
    BY <1>2, <2>2, CallsOfTheCache DEF StartShared
  <2> QED BY <2>2, <2>3 DEF CacheMoves, CacheProofs!Next
<1>3. ASSUME NEW c \in Calls, SharedProceeds(c)
      PROVE  CacheMoves
  BY <1>3, ResumptionsOfTheCache DEF SharedProceeds, CacheMoves, CacheProofs!Next
<1>4. ASSUME NEW c \in Calls, Cancel(c)
      PROVE  CacheMoves
  <2>1. \/ CacheProofs!CancelLeader(c)
        \/ CacheProofs!CancelFollower(c)
        \/ UNCHANGED provider
    BY <1>4, CancellationsOfTheCache DEF Cancel
  <2> QED BY <2>1, ProviderRests DEF CacheMoves, CacheProofs!Next
<1>5. ASSUME NEW c \in Calls,
             \/ \E providers \in Composites, k \in Keys : Ask(c, providers, k)
             \/ \E p \in Library : StartLibrary(c, p)
             \/ \E p \in Remotes : StartRemote(c, p) \/ RemoteEnds(c, p)
             \/ Finish(c)
      PROVE  CacheMoves
  <2>1. UNCHANGED provider
    BY <1>5 DEF Ask, StartLibrary, StartRemote, RemoteEnds, Finish
  <2> QED BY <2>1, ProviderRests
<1>6. CASE UNCHANGED vars
  BY <1>6, ProviderRests DEF vars
<1> QED BY <1>1, <1>2, <1>3, <1>4, <1>5, <1>6 DEF Next, Proceeds

(* The promise to the composites is the promise that was proved.           *)
LEMMA SamePromise ==
  /\ CacheProofs!CallOf = Cache!CallOf /\ CacheProofs!LoadOf = Cache!LoadOf
  /\ CacheProofs!CallOf' = Cache!CallOf' /\ CacheProofs!LoadOf' = Cache!LoadOf'
BY DEF CacheProofs!CallOf, Cache!CallOf, CacheProofs!LoadOf, Cache!LoadOf

LEMMA PromiseOfTheCache ==
  ASSUME [CacheProofs!Promise!Next]_(CacheProofs!Promise!vars)
  PROVE  [Cache!Promise!Next]_(Cache!Promise!vars)
<1>1. CacheProofs!Promise!Tick => Cache!Promise!Tick
  BY SamePromise DEF CacheProofs!Promise!Tick, Cache!Promise!Tick
<1>2. ASSUME NEW t \in Calls, NEW k \in Keys
      PROVE  CacheProofs!Promise!Ask(t, k) => Cache!Promise!Ask(t, k)
  BY SamePromise DEF CacheProofs!Promise!Ask, Cache!Promise!Ask
<1>3. ASSUME NEW t \in Calls, NEW k \in Keys
      PROVE  /\ CacheProofs!Promise!AnswerFromCache(t, k) => Cache!Promise!AnswerFromCache(t, k)
             /\ CacheProofs!Promise!StartLoad(t, k) => Cache!Promise!StartLoad(t, k)
             /\ CacheProofs!Promise!JoinLoad(t, k) => Cache!Promise!JoinLoad(t, k)
  BY <1>2, SamePromise
     DEF CacheProofs!Promise!AnswerFromCache, Cache!Promise!AnswerFromCache,
         CacheProofs!Promise!StartLoad, Cache!Promise!StartLoad,
         CacheProofs!Promise!JoinLoad, Cache!Promise!JoinLoad,
         CacheProofs!Promise!Cancelled, Cache!Promise!Cancelled
<1>4. ASSUME NEW t \in Calls
      PROVE  CacheProofs!Promise!FinishLoad(t) => Cache!Promise!FinishLoad(t)
  BY SamePromise
     DEF CacheProofs!Promise!FinishLoad, Cache!Promise!FinishLoad,
         CacheProofs!Promise!Value, Cache!Promise!Value, CacheProofs!Promise!Failed,
         Cache!Promise!Failed, CacheProofs!Promise!Cancelled, Cache!Promise!Cancelled
<1>5. ASSUME NEW t \in Calls
      PROVE  CacheProofs!Promise!Share(t) => Cache!Promise!Share(t)
  BY SamePromise
     DEF CacheProofs!Promise!Share, Cache!Promise!Share, CacheProofs!Promise!Cancelled,
         Cache!Promise!Cancelled
<1>6. UNCHANGED CacheProofs!Promise!vars => UNCHANGED Cache!Promise!vars
  BY SamePromise DEF CacheProofs!Promise!vars, Cache!Promise!vars
<1> QED BY <1>1, <1>3, <1>4, <1>5, <1>6 DEF CacheProofs!Promise!Next, Cache!Promise!Next

(* Whatever composites gather, cancel and combine, the cache they share    *)
(* serves them as SharedLoads says: the steps of composite.py are steps of *)
(* tasks in cached.py, or leave the cache alone.                           *)
THEOREM CompositesShareLoads == Spec => SharesLoads
<1>1. Init => Cache!Promise!Init
  <2>1. ASSUME Cache!Init
        PROVE  Cache!CallOf = [t \in Calls |-> None] /\ Cache!LoadOf = [k \in Keys |-> None]
    BY <2>1 DEF Cache!Init, Cache!CallOf, Cache!LoadOf
  <2> QED BY <2>1 DEF Init, Cache!Init, Cache!Promise!Init
<1>2. Init => CacheProofs!FollowersAreTold
  <2>1. None # CacheProofs!Failed
    BY CacheAssumed DEF CacheProofs!CacheAssumption, CacheProofs!Results
  <2> QED BY <2>1, CacheStarts DEF Init, CacheProofs!Init, CacheProofs!FollowersAreTold
<1>3. Inv /\ CacheProofs!FollowersAreTold /\ [Next]_vars => CacheProofs!FollowersAreTold'
  BY StepsMoveTheCache, CacheAssumed, CacheProofs!FollowersAreToldStep DEF Inv, CacheMoves
<1>4. Inv /\ Inv' /\ CacheProofs!FollowersAreTold /\ [Next]_vars
        => [Cache!Promise!Next]_(Cache!Promise!vars)
  <2> SUFFICES ASSUME Inv, Inv', CacheProofs!FollowersAreTold, [Next]_vars
               PROVE  [Cache!Promise!Next]_(Cache!Promise!vars)
    OBVIOUS
  <2>1. CacheProofs!Inv /\ CacheProofs!Inv' /\ CacheMoves
    BY StepsMoveTheCache DEF Inv
  <2>2. [CacheProofs!Promise!Next]_(CacheProofs!Promise!vars)
    BY <2>1, CacheAssumed, CacheProofs!PromiseStep DEF CacheMoves
  <2> QED BY <2>2, PromiseOfTheCache
<1> QED BY <1>1, <1>2, <1>3, <1>4, Invariance, PTL
   DEF Spec, SharesLoads, Cache!ImplementsSharedLoads, Cache!Promise!Spec
=============================================================================
