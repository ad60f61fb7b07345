---------------------- MODULE CachedEntitlementsProofs ----------------------
(***************************************************************************)
(* CachedEntitlements keeps its invariant for every set of keys and tasks, *)
(* every TTL, table size and bound on the clock.                           *)
(***************************************************************************)
EXTENDS CachedEntitlements, SequenceLemmas

-----------------------------------------------------------------------------
(* The operations on the order of the table return sequences of keys.      *)

LEMMA WithoutType ==
  ASSUME NEW order \in Seq(Keys), NEW k \in Keys
  PROVE  Without(order, k) \in Seq(Keys)
<1>1. CASE \E i \in DOMAIN order : order[i] = k
  <2> DEFINE i == CHOOSE j \in DOMAIN order : order[j] = k
  <2>1. i \in 1 .. Len(order)
    BY <1>1, LenProperties
  <2> HIDE DEF i
  <2>2. RemoveAt(order, i) \in Seq(Keys)
    BY <2>1, RemoveAtType
  <2> QED BY <1>1, <2>2 DEF Without, i
<1>2. CASE ~\E i \in DOMAIN order : order[i] = k
  BY <1>2 DEF Without
<1> QED BY <1>1, <1>2

LEMMA KeptType ==
  ASSUME NEW order \in Seq(Keys)
  PROVE  Kept(order) \in Seq(Keys)
<1>1. Len(order) \in Nat
  BY LenProperties
<1>2. CASE Len(order) > MaxEntries
  <2>1. Len(order) - MaxEntries + 1 \in Nat \ {0}
    BY <1>1, <1>2, CacheAssumption
  <2> QED BY <1>1, <1>2, <2>1, SubSeqType DEF Kept
<1>3. CASE ~(Len(order) > MaxEntries)
  BY <1>3 DEF Kept
<1> QED BY <1>2, <1>3

LEMMA StoredType ==
  ASSUME NEW k \in Keys, recency \in Seq(Keys)
  PROVE  Stored(k) \in Seq(Keys)
BY AppendProperties DEF Stored

LEMMA NoneIsNew ==
  /\ None \notin Keys
  /\ None \notin Tasks
  /\ None \notin Results
  /\ None \notin CacheEntries
  /\ None \notin {Pending, Failed, Cancelled}
  /\ \A read \in Times : None # Value(read)
BY CacheAssumption DEF Results, Value

LEMMA RecordsDiffer ==
  /\ Pending.kind = "pending" /\ Failed.kind = "failed" /\ Cancelled.kind = "cancelled"
  /\ Failed # Cancelled /\ Failed # Pending /\ Cancelled # Pending
  /\ \A read : /\ Value(read).kind = "value"
               /\ Value(read).read = read
               /\ Value(read) \notin {Pending, Failed, Cancelled}
  /\ \A r \in Results : r # Failed /\ r # Cancelled => r.kind = "value" /\ r.read \in Times /\ r = Value(r.read)
BY DEF Pending, Failed, Cancelled, Value, Results

-----------------------------------------------------------------------------
(* Every step preserves the invariant: one lemma per action, one step per  *)
(* conjunct.                                                               *)

LEMMA TickStep ==
  ASSUME Inv, Tick
  PROVE  Inv'
<1>1. TypeOK'
  BY NoneIsNew, RecordsDiffer, WithoutType, AppendProperties, KeptType,
       StoredType, CacheAssumption
     DEF Inv, TypeOK, CallsInOrder, Tick, store, Times, CacheEntries, Results,
         Value
<1>2. CallsInOrder'
  BY NoneIsNew, RecordsDiffer DEF Inv, TypeOK, CallsInOrder, Tick, store, Times
<1>3. InflightIsLed'
  BY NoneIsNew, RecordsDiffer
     DEF Inv, TypeOK, CallsInOrder, InflightIsLed, Tick, store, Times
<1>4. FlightsAreLed'
  BY NoneIsNew, RecordsDiffer
     DEF Inv, TypeOK, CallsInOrder, InflightIsLed, FlightsAreLed, Tick, store,
         Times
<1>5. FuturesTell'
  BY NoneIsNew, RecordsDiffer
     DEF Inv, TypeOK, CallsInOrder, InflightIsLed, FlightsAreLed, FuturesTell,
         Tick, store, Times, CancelledBy
<1>6. EntriesWereLoaded'
  BY NoneIsNew, RecordsDiffer
     DEF Inv, TypeOK, CallsInOrder, EntriesWereLoaded, Tick, store, Times
<1>7. ValuesAreFresh'
  BY NoneIsNew, RecordsDiffer
     DEF Inv, TypeOK, CallsInOrder, InflightIsLed, FlightsAreLed, FuturesTell,
         EntriesWereLoaded, ValuesAreFresh, Tick, store, Times
<1>8. TroubleStaysInTheFlight'
  BY NoneIsNew, RecordsDiffer
     DEF Inv, TypeOK, CallsInOrder, InflightIsLed, FlightsAreLed, FuturesTell,
         TroubleStaysInTheFlight, Tick, store, Times, CancelledBy
<1> QED BY <1>1, <1>2, <1>3, <1>4, <1>5, <1>6, <1>7, <1>8 DEF Inv

LEMMA HitStep ==
  ASSUME Inv, NEW t \in Tasks, NEW k \in Keys, Hit(t, k)
  PROVE  Inv'
<1>1. TypeOK'
  BY NoneIsNew, RecordsDiffer, WithoutType, AppendProperties, KeptType,
       StoredType, CacheAssumption
     DEF Inv, TypeOK, CallsInOrder, Hit, Call, Fresh, store, Times,
         CacheEntries, Results, Value
<1>2. CallsInOrder'
  BY NoneIsNew, RecordsDiffer
     DEF Inv, TypeOK, CallsInOrder, Hit, Call, Fresh, store, Times
<1>3. InflightIsLed'
  BY NoneIsNew, RecordsDiffer
     DEF Inv, TypeOK, CallsInOrder, InflightIsLed, Hit, Call, Fresh, store,
         Times
<1>4. FlightsAreLed'
  BY NoneIsNew, RecordsDiffer
     DEF Inv, TypeOK, CallsInOrder, InflightIsLed, FlightsAreLed, Hit, Call,
         Fresh, store, Times
<1>5. FuturesTell'
  BY NoneIsNew, RecordsDiffer
     DEF Inv, TypeOK, CallsInOrder, InflightIsLed, FlightsAreLed, FuturesTell,
         Hit, Call, Fresh, store, Times, CancelledBy
<1>6. EntriesWereLoaded'
  BY NoneIsNew, RecordsDiffer
     DEF Inv, TypeOK, CallsInOrder, EntriesWereLoaded, Hit, Call, Fresh, store,
         Times
<1>7. ValuesAreFresh'
  <2> SUFFICES ASSUME NEW s \in Tasks, answer'[s] # None, answer'[s].kind = "value"
               PROVE  /\ \E u \in Tasks : /\ flight'[u] = u
                                          /\ key'[u] = key'[s]
                                          /\ inner'[u] = "returned"
                                          /\ answer'[u] = answer'[s]
                      /\ IF flight'[s] = None
                         THEN asked'[s] - answer'[s].read < TTL
                         ELSE asked'[flight'[s]] <= answer'[s].read
    BY DEF ValuesAreFresh
  <2>1. CASE s = t
    <3>1. PICK u \in Tasks : /\ flight[u] = u
                             /\ key[u] = k
                             /\ inner[u] = "returned"
                             /\ answer[u] = Value(cache[k].read)
                             /\ cache[k].born <= cache[k].read
      BY DEF Inv, EntriesWereLoaded, Hit, Fresh
    <3>2. u # t
      BY <3>1 DEF Inv, CallsInOrder, Hit, Call
    <3>3. answer'[t] = Value(cache[k].read) /\ flight'[t] = None /\ asked'[t] = now /\ key'[t] = k
      BY DEF Inv, TypeOK, CallsInOrder, Hit, Call
    <3>4. \E v \in Tasks : /\ flight'[v] = v
                           /\ key'[v] = key'[s]
                           /\ inner'[v] = "returned"
                           /\ answer'[v] = answer'[s]
      BY <2>1, <3>1, <3>2, <3>3 DEF Inv, TypeOK, Hit, Call
    <3>5. now - cache[k].read < TTL
      <4>1. cache[k].born \in Int /\ cache[k].read \in Int /\ now \in Int
        BY CacheAssumption DEF Inv, TypeOK, CacheEntries, Times, Hit, Fresh
      <4>2. now - cache[k].born < TTL
        BY DEF Hit, Fresh
      <4> QED BY <3>1, <4>1, <4>2, CacheAssumption
    <3> QED BY <2>1, <3>3, <3>4, <3>5, RecordsDiffer
  <2>2. CASE s # t
    <3>1. answer'[s] = answer[s] /\ flight'[s] = flight[s] /\ key'[s] = key[s] /\ asked'[s] = asked[s]
      BY <2>2 DEF Inv, TypeOK, Hit, Call
    <3>2. PICK u \in Tasks : /\ flight[u] = u
                             /\ key[u] = key[s]
                             /\ inner[u] = "returned"
                             /\ answer[u] = answer[s]
      BY <3>1 DEF Inv, ValuesAreFresh
    <3>3. u # t
      BY <3>2 DEF Inv, CallsInOrder, Hit, Call
    <3>4. \E v \in Tasks : /\ flight'[v] = v
                           /\ key'[v] = key'[s]
                           /\ inner'[v] = "returned"
                           /\ answer'[v] = answer'[s]
      BY <3>1, <3>2, <3>3 DEF Inv, TypeOK, Hit, Call
    <3>5. flight[s] # None => flight[s] # t
      BY NoneIsNew DEF Inv, TypeOK, FlightsAreLed, CallsInOrder, Hit, Call
    <3>6. flight[s] # None => asked'[flight[s]] = asked[flight[s]]
      BY <3>5 DEF Inv, TypeOK, Hit, Call
    <3> QED BY <3>1, <3>4, <3>6 DEF Inv, ValuesAreFresh
  <2> QED BY <2>1, <2>2
<1>8. TroubleStaysInTheFlight'
  BY NoneIsNew, RecordsDiffer
     DEF Inv, TypeOK, CallsInOrder, InflightIsLed, FlightsAreLed, FuturesTell,
         TroubleStaysInTheFlight, Hit, Call, Fresh, store, Times, CancelledBy
<1> QED BY <1>1, <1>2, <1>3, <1>4, <1>5, <1>6, <1>7, <1>8 DEF Inv

LEMMA FollowStep ==
  ASSUME Inv, NEW t \in Tasks, NEW k \in Keys, Follow(t, k)
  PROVE  Inv'
<1>1. TypeOK'
  <2>1. inflight[k] \in Tasks
    BY NoneIsNew DEF Inv, TypeOK, Follow
  <2>2. future[inflight[k]] \in Results \cup {Pending, None}
    BY <2>1 DEF Inv, TypeOK
  <2>3. recency' \in Seq(Keys)
    BY WithoutType DEF Inv, TypeOK, Follow, Miss
  <2>4. answer' \in [Tasks -> Results \cup {None}]
    BY <2>2 DEF Inv, TypeOK, Follow
  <2>5. pc' \in [Tasks -> {"idle", "leading", "following", "ended"}]
    BY DEF Inv, TypeOK, Follow
  <2> QED BY <2>1, <2>3, <2>4, <2>5 DEF Inv, TypeOK, Follow, Miss, Call
<1>2. CallsInOrder'
  BY NoneIsNew, RecordsDiffer
     DEF Inv, TypeOK, CallsInOrder, Follow, Miss, Call, store, Times
<1>3. InflightIsLed'
  BY NoneIsNew, RecordsDiffer
     DEF Inv, TypeOK, CallsInOrder, InflightIsLed, Follow, Miss, Call, store,
         Times
<1>4. FlightsAreLed'
  BY NoneIsNew, RecordsDiffer
     DEF Inv, TypeOK, CallsInOrder, InflightIsLed, FlightsAreLed, Follow, Miss,
         Call, store, Times
<1>5. FuturesTell'
  BY NoneIsNew, RecordsDiffer
     DEF Inv, TypeOK, CallsInOrder, InflightIsLed, FlightsAreLed, FuturesTell,
         Follow, Miss, Call, store, Times, CancelledBy
<1>6. EntriesWereLoaded'
  BY NoneIsNew, RecordsDiffer
     DEF Inv, TypeOK, CallsInOrder, EntriesWereLoaded, Follow, Miss, Call,
         store, Times
<1>7. ValuesAreFresh'
  <2>1. inflight[k] \in Tasks /\ future[inflight[k]] \in {Pending, Cancelled}
    BY NoneIsNew DEF Inv, TypeOK, InflightIsLed, Follow
  <2>2. /\ answer'[t] \in {None, Cancelled}
        /\ inner' = inner
        /\ \A s \in Tasks \ {t} : /\ answer'[s] = answer[s] /\ key'[s] = key[s]
                                  /\ flight'[s] = flight[s] /\ asked'[s] = asked[s]
    BY <2>1 DEF Inv, TypeOK, CallsInOrder, Follow, Miss, Call
  <2>3. answer[t] = None /\ \A s \in Tasks : flight[s] # t
    BY NoneIsNew DEF Inv, CallsInOrder, FlightsAreLed, Follow, Miss, Call
  <2>4. ASSUME NEW s \in Tasks, answer'[s] # None, answer'[s].kind = "value"
        PROVE  /\ \E u \in Tasks : /\ flight'[u] = u
                                   /\ key'[u] = key'[s]
                                   /\ inner'[u] = "returned"
                                   /\ answer'[u] = answer'[s]
               /\ IF flight'[s] = None
                  THEN asked'[s] - answer'[s].read < TTL
                  ELSE asked'[flight'[s]] <= answer'[s].read
    <3>1. s # t
      BY <2>2, <2>4, RecordsDiffer
    <3>2. /\ \E u \in Tasks : /\ flight[u] = u
                              /\ key[u] = key[s]
                              /\ inner[u] = "returned"
                              /\ answer[u] = answer[s]
          /\ IF flight[s] = None
             THEN asked[s] - answer[s].read < TTL
             ELSE asked[flight[s]] <= answer[s].read
      BY <2>2, <2>4, <3>1 DEF Inv, ValuesAreFresh
    <3>3. flight[s] # None => flight[s] \in Tasks \ {t}
      BY <2>3 DEF Inv, TypeOK
    <3> QED BY <2>2, <2>3, <3>1, <3>2, <3>3
  <2> QED BY <2>4 DEF ValuesAreFresh
<1>8. TroubleStaysInTheFlight'
  BY NoneIsNew, RecordsDiffer
     DEF Inv, TypeOK, CallsInOrder, InflightIsLed, FlightsAreLed, FuturesTell,
         TroubleStaysInTheFlight, Follow, Miss, Call, store, Times, CancelledBy
<1> QED BY <1>1, <1>2, <1>3, <1>4, <1>5, <1>6, <1>7, <1>8 DEF Inv

LEMMA LeadStep ==
  ASSUME Inv, NEW t \in Tasks, NEW k \in Keys, Lead(t, k)
  PROVE  Inv'
<1>1. TypeOK'
  BY NoneIsNew, RecordsDiffer, WithoutType, AppendProperties, KeptType,
       StoredType, CacheAssumption
     DEF Inv, TypeOK, CallsInOrder, Lead, Miss, Call, store, Times,
         CacheEntries, Results, Value
<1>2. CallsInOrder'
  BY NoneIsNew, RecordsDiffer
     DEF Inv, TypeOK, CallsInOrder, Lead, Miss, Call, store, Times
<1>3. InflightIsLed'
  BY NoneIsNew, RecordsDiffer
     DEF Inv, TypeOK, CallsInOrder, InflightIsLed, Lead, Miss, Call, store,
         Times
<1>4. FlightsAreLed'
  BY NoneIsNew, RecordsDiffer
     DEF Inv, TypeOK, CallsInOrder, InflightIsLed, FlightsAreLed, Lead, Miss,
         Call, store, Times
<1>5. FuturesTell'
  BY NoneIsNew, RecordsDiffer
     DEF Inv, TypeOK, CallsInOrder, InflightIsLed, FlightsAreLed, FuturesTell,
         Lead, Miss, Call, store, Times, CancelledBy
<1>6. EntriesWereLoaded'
  BY NoneIsNew, RecordsDiffer
     DEF Inv, TypeOK, CallsInOrder, EntriesWereLoaded, Lead, Miss, Call, store,
         Times
<1>7. ValuesAreFresh'
  BY NoneIsNew, RecordsDiffer
     DEF Inv, TypeOK, CallsInOrder, InflightIsLed, FlightsAreLed, FuturesTell,
         EntriesWereLoaded, ValuesAreFresh, Lead, Miss, Call, store, Times
<1>8. TroubleStaysInTheFlight'
  BY NoneIsNew, RecordsDiffer
     DEF Inv, TypeOK, CallsInOrder, InflightIsLed, FlightsAreLed, FuturesTell,
         TroubleStaysInTheFlight, Lead, Miss, Call, store, Times, CancelledBy
<1> QED BY <1>1, <1>2, <1>3, <1>4, <1>5, <1>6, <1>7, <1>8 DEF Inv

LEMMA LeaderSucceedsStep ==
  ASSUME Inv, NEW t \in Tasks, NEW read \in Times, LeaderSucceeds(t, read)
  PROVE  Inv'
<1>1. TypeOK'
  <2>1. key[t] \in Keys /\ asked[t] \in Times
    BY CacheAssumption
       DEF Inv, TypeOK, CallsInOrder, LeaderSucceeds, LeaderEnds, Times
  <2>2. Value(read) \in Results
    BY DEF Results, Value
  <2>3. recency' \in Seq(Keys)
    BY <2>1, StoredType, KeptType DEF Inv, TypeOK, LeaderSucceeds
  <2>4. cache' \in [Keys -> CacheEntries \cup {None}]
    <3>1. [born |-> asked[t], read |-> read] \in CacheEntries
      BY <2>1 DEF CacheEntries
    <3> QED BY <3>1 DEF Inv, TypeOK, LeaderSucceeds
  <2>5. future' \in [Tasks -> Results \cup {Pending, None}]
    BY <2>2 DEF Inv, TypeOK, LeaderSucceeds, Resolve
  <2>6. answer' \in [Tasks -> Results \cup {None}]
    BY <2>2 DEF Inv, TypeOK, LeaderSucceeds, LeaderEnds
  <2> QED BY <2>3, <2>4, <2>5, <2>6 DEF Inv, TypeOK, LeaderSucceeds, LeaderEnds
<1>2. CallsInOrder'
  BY NoneIsNew, RecordsDiffer
     DEF Inv, TypeOK, CallsInOrder, LeaderSucceeds, LeaderEnds, Resolve, store,
         Times
<1>3. InflightIsLed'
  BY NoneIsNew, RecordsDiffer
     DEF Inv, TypeOK, CallsInOrder, InflightIsLed, LeaderSucceeds, LeaderEnds,
         Resolve, store, Times
<1>4. FlightsAreLed'
  BY NoneIsNew, RecordsDiffer
     DEF Inv, TypeOK, CallsInOrder, InflightIsLed, FlightsAreLed,
         LeaderSucceeds, LeaderEnds, Resolve, store, Times
<1>5. FuturesTell'
  BY NoneIsNew, RecordsDiffer
     DEF Inv, TypeOK, CallsInOrder, InflightIsLed, FlightsAreLed, FuturesTell,
         LeaderSucceeds, LeaderEnds, Resolve, store, Times, CancelledBy
<1>6. EntriesWereLoaded'
  <2>1. asked[t] <= read
    BY DEF Inv, TypeOK, CallsInOrder, LeaderSucceeds, LeaderEnds, Times
  <2>2. /\ flight'[t] = t
        /\ key'[t] = key[t]
        /\ inner'[t] = "returned"
        /\ answer'[t] = Value(read)
    BY DEF Inv, TypeOK, InflightIsLed, LeaderSucceeds, LeaderEnds
  <2> SUFFICES ASSUME NEW k \in Keys, cache'[k] # None
               PROVE  \E u \in Tasks : /\ flight'[u] = u
                                       /\ key'[u] = k
                                       /\ inner'[u] = "returned"
                                       /\ answer'[u] = Value(cache'[k].read)
                                       /\ cache'[k].born <= cache'[k].read
    BY DEF EntriesWereLoaded
  <2>3. CASE k = key[t]
    <3>1. cache'[k] = [born |-> asked[t], read |-> read]
      BY <2>3 DEF LeaderSucceeds
    <3> QED BY <2>1, <2>2, <2>3, <3>1
  <2>4. CASE k # key[t]
    <3>1. cache'[k] = cache[k]
      BY <2>4 DEF LeaderSucceeds
    <3>2. PICK u \in Tasks : /\ flight[u] = u
                             /\ key[u] = k
                             /\ inner[u] = "returned"
                             /\ answer[u] = Value(cache[k].read)
                             /\ cache[k].born <= cache[k].read
      BY <3>1 DEF Inv, EntriesWereLoaded
    <3>3. u # t
      BY <2>4, <3>2
    <3> QED BY <3>1, <3>2, <3>3 DEF Inv, TypeOK, LeaderSucceeds, LeaderEnds
  <2> QED BY <2>3, <2>4
<1>7. ValuesAreFresh'
  BY NoneIsNew, RecordsDiffer
     DEF Inv, TypeOK, CallsInOrder, InflightIsLed, FlightsAreLed, FuturesTell,
         EntriesWereLoaded, ValuesAreFresh, LeaderSucceeds, LeaderEnds,
         Resolve, store, Times
<1>8. TroubleStaysInTheFlight'
  BY NoneIsNew, RecordsDiffer
     DEF Inv, TypeOK, CallsInOrder, InflightIsLed, FlightsAreLed, FuturesTell,
         TroubleStaysInTheFlight, LeaderSucceeds, LeaderEnds, Resolve, store,
         Times, CancelledBy
<1> QED BY <1>1, <1>2, <1>3, <1>4, <1>5, <1>6, <1>7, <1>8 DEF Inv

LEMMA LeaderFailsStep ==
  ASSUME Inv, NEW t \in Tasks, LeaderFails(t)
  PROVE  Inv'
<1>1. TypeOK'
  BY NoneIsNew, RecordsDiffer, WithoutType, AppendProperties, KeptType,
       StoredType, CacheAssumption
     DEF Inv, TypeOK, CallsInOrder, LeaderFails, LeaderEnds, Resolve, store,
         Times, CacheEntries, Results, Value
<1>2. CallsInOrder'
  BY NoneIsNew, RecordsDiffer
     DEF Inv, TypeOK, CallsInOrder, LeaderFails, LeaderEnds, Resolve, store,
         Times
<1>3. InflightIsLed'
  BY NoneIsNew, RecordsDiffer
     DEF Inv, TypeOK, CallsInOrder, InflightIsLed, LeaderFails, LeaderEnds,
         Resolve, store, Times
<1>4. FlightsAreLed'
  BY NoneIsNew, RecordsDiffer
     DEF Inv, TypeOK, CallsInOrder, InflightIsLed, FlightsAreLed, LeaderFails,
         LeaderEnds, Resolve, store, Times
<1>5. FuturesTell'
  BY NoneIsNew, RecordsDiffer
     DEF Inv, TypeOK, CallsInOrder, InflightIsLed, FlightsAreLed, FuturesTell,
         LeaderFails, LeaderEnds, Resolve, store, Times, CancelledBy
<1>6. EntriesWereLoaded'
  BY NoneIsNew, RecordsDiffer
     DEF Inv, TypeOK, CallsInOrder, EntriesWereLoaded, LeaderFails, LeaderEnds,
         Resolve, store, Times
<1>7. ValuesAreFresh'
  BY NoneIsNew, RecordsDiffer
     DEF Inv, TypeOK, CallsInOrder, InflightIsLed, FlightsAreLed, FuturesTell,
         EntriesWereLoaded, ValuesAreFresh, LeaderFails, LeaderEnds, Resolve,
         store, Times
<1>8. TroubleStaysInTheFlight'
  BY NoneIsNew, RecordsDiffer
     DEF Inv, TypeOK, CallsInOrder, InflightIsLed, FlightsAreLed, FuturesTell,
         TroubleStaysInTheFlight, LeaderFails, LeaderEnds, Resolve, store,
         Times, CancelledBy
<1> QED BY <1>1, <1>2, <1>3, <1>4, <1>5, <1>6, <1>7, <1>8 DEF Inv

LEMMA LeaderCancelledStep ==
  ASSUME Inv, NEW t \in Tasks, LeaderCancelled(t)
  PROVE  Inv'
<1>1. TypeOK'
  BY NoneIsNew, RecordsDiffer, WithoutType, AppendProperties, KeptType,
       StoredType, CacheAssumption
     DEF Inv, TypeOK, CallsInOrder, LeaderCancelled, LeaderEnds, Resolve,
         store, Times, CacheEntries, Results, Value
<1>2. CallsInOrder'
  BY NoneIsNew, RecordsDiffer
     DEF Inv, TypeOK, CallsInOrder, LeaderCancelled, LeaderEnds, Resolve,
         store, Times
<1>3. InflightIsLed'
  BY NoneIsNew, RecordsDiffer
     DEF Inv, TypeOK, CallsInOrder, InflightIsLed, LeaderCancelled, LeaderEnds,
         Resolve, store, Times
<1>4. FlightsAreLed'
  BY NoneIsNew, RecordsDiffer
     DEF Inv, TypeOK, CallsInOrder, InflightIsLed, FlightsAreLed,
         LeaderCancelled, LeaderEnds, Resolve, store, Times
<1>5. FuturesTell'
  BY NoneIsNew, RecordsDiffer
     DEF Inv, TypeOK, CallsInOrder, InflightIsLed, FlightsAreLed, FuturesTell,
         LeaderCancelled, LeaderEnds, Resolve, store, Times, CancelledBy
<1>6. EntriesWereLoaded'
  BY NoneIsNew, RecordsDiffer
     DEF Inv, TypeOK, CallsInOrder, EntriesWereLoaded, LeaderCancelled,
         LeaderEnds, Resolve, store, Times
<1>7. ValuesAreFresh'
  BY NoneIsNew, RecordsDiffer
     DEF Inv, TypeOK, CallsInOrder, InflightIsLed, FlightsAreLed, FuturesTell,
         EntriesWereLoaded, ValuesAreFresh, LeaderCancelled, LeaderEnds,
         Resolve, store, Times
<1>8. TroubleStaysInTheFlight'
  BY NoneIsNew, RecordsDiffer
     DEF Inv, TypeOK, CallsInOrder, InflightIsLed, FlightsAreLed, FuturesTell,
         TroubleStaysInTheFlight, LeaderCancelled, LeaderEnds, Resolve, store,
         Times, CancelledBy
<1> QED BY <1>1, <1>2, <1>3, <1>4, <1>5, <1>6, <1>7, <1>8 DEF Inv

LEMMA FollowerResumesStep ==
  ASSUME Inv, NEW t \in Tasks, FollowerResumes(t)
  PROVE  Inv'
<1>1. TypeOK'
  <2>1. flight[t] \in Tasks
    BY DEF Inv, TypeOK, CallsInOrder, FollowerResumes
  <2>2. future[flight[t]] \in Results
    BY <2>1, NoneIsNew DEF Inv, TypeOK, FlightsAreLed, FollowerResumes
  <2>3. Cancelled \in Results
    BY DEF Results
  <2>4. answer' \in [Tasks -> Results \cup {None}]
    BY <2>2, <2>3 DEF Inv, TypeOK, FollowerResumes
  <2>5. pc' \in [Tasks -> {"idle", "leading", "following", "ended"}]
    BY DEF Inv, TypeOK, FollowerResumes
  <2> QED BY <2>4, <2>5 DEF Inv, TypeOK, FollowerResumes, store
<1>2. CallsInOrder'
  BY NoneIsNew, RecordsDiffer
     DEF Inv, TypeOK, CallsInOrder, FollowerResumes, store, Times
<1>3. InflightIsLed'
  BY NoneIsNew, RecordsDiffer
     DEF Inv, TypeOK, CallsInOrder, InflightIsLed, FollowerResumes, store,
         Times
<1>4. FlightsAreLed'
  BY NoneIsNew, RecordsDiffer
     DEF Inv, TypeOK, CallsInOrder, InflightIsLed, FlightsAreLed,
         FollowerResumes, store, Times
<1>5. FuturesTell'
  BY NoneIsNew, RecordsDiffer
     DEF Inv, TypeOK, CallsInOrder, InflightIsLed, FlightsAreLed, FuturesTell,
         FollowerResumes, store, Times, CancelledBy
<1>6. EntriesWereLoaded'
  BY NoneIsNew, RecordsDiffer
     DEF Inv, TypeOK, CallsInOrder, EntriesWereLoaded, FollowerResumes, store,
         Times
<1>7. ValuesAreFresh'
  BY NoneIsNew, RecordsDiffer
     DEF Inv, TypeOK, CallsInOrder, InflightIsLed, FlightsAreLed, FuturesTell,
         EntriesWereLoaded, ValuesAreFresh, FollowerResumes, store, Times
<1>8. TroubleStaysInTheFlight'
  BY NoneIsNew, RecordsDiffer
     DEF Inv, TypeOK, CallsInOrder, InflightIsLed, FlightsAreLed, FuturesTell,
         TroubleStaysInTheFlight, FollowerResumes, store, Times, CancelledBy
<1> QED BY <1>1, <1>2, <1>3, <1>4, <1>5, <1>6, <1>7, <1>8 DEF Inv

LEMMA CancelLeaderStep ==
  ASSUME Inv, NEW t \in Tasks, CancelLeader(t)
  PROVE  Inv'
<1>1. TypeOK'
  BY NoneIsNew, RecordsDiffer, WithoutType, AppendProperties, KeptType,
       StoredType, CacheAssumption
     DEF Inv, TypeOK, CallsInOrder, CancelLeader, store, Times, CacheEntries,
         Results, Value
<1>2. CallsInOrder'
  BY NoneIsNew, RecordsDiffer
     DEF Inv, TypeOK, CallsInOrder, CancelLeader, store, Times
<1>3. InflightIsLed'
  BY NoneIsNew, RecordsDiffer
     DEF Inv, TypeOK, CallsInOrder, InflightIsLed, CancelLeader, store, Times
<1>4. FlightsAreLed'
  BY NoneIsNew, RecordsDiffer
     DEF Inv, TypeOK, CallsInOrder, InflightIsLed, FlightsAreLed, CancelLeader,
         store, Times
<1>5. FuturesTell'
  BY NoneIsNew, RecordsDiffer
     DEF Inv, TypeOK, CallsInOrder, InflightIsLed, FlightsAreLed, FuturesTell,
         CancelLeader, store, Times, CancelledBy
<1>6. EntriesWereLoaded'
  BY NoneIsNew, RecordsDiffer
     DEF Inv, TypeOK, CallsInOrder, EntriesWereLoaded, CancelLeader, store,
         Times
<1>7. ValuesAreFresh'
  BY NoneIsNew, RecordsDiffer
     DEF Inv, TypeOK, CallsInOrder, InflightIsLed, FlightsAreLed, FuturesTell,
         EntriesWereLoaded, ValuesAreFresh, CancelLeader, store, Times
<1>8. TroubleStaysInTheFlight'
  BY NoneIsNew, RecordsDiffer
     DEF Inv, TypeOK, CallsInOrder, InflightIsLed, FlightsAreLed, FuturesTell,
         TroubleStaysInTheFlight, CancelLeader, store, Times, CancelledBy
<1> QED BY <1>1, <1>2, <1>3, <1>4, <1>5, <1>6, <1>7, <1>8 DEF Inv

LEMMA CancelFollowerStep ==
  ASSUME Inv, NEW t \in Tasks, CancelFollower(t)
  PROVE  Inv'
<1>1. TypeOK'
  <2>1. Cancelled \in Results
    BY DEF Results
  <2>2. /\ future' \in [Tasks -> Results \cup {Pending, None}]
        /\ cancelled' \subseteq Tasks
    BY <2>1 DEF Inv, TypeOK, CancelFollower, Resolve
  <2>3. UNCHANGED <<now, cache, recency, inflight, pc, key, asked, flight, inner, answer>>
    BY DEF CancelFollower, store
  <2> QED BY <2>2, <2>3 DEF Inv, TypeOK
<1>2. CallsInOrder'
  BY NoneIsNew, RecordsDiffer
     DEF Inv, TypeOK, CallsInOrder, CancelFollower, Resolve, store, Times
<1>3. InflightIsLed'
  BY NoneIsNew, RecordsDiffer
     DEF Inv, TypeOK, CallsInOrder, InflightIsLed, CancelFollower, Resolve,
         store, Times
<1>4. FlightsAreLed'
  BY NoneIsNew, RecordsDiffer
     DEF Inv, TypeOK, CallsInOrder, InflightIsLed, FlightsAreLed,
         CancelFollower, Resolve, store, Times
<1>5. FuturesTell'
  BY NoneIsNew, RecordsDiffer
     DEF Inv, TypeOK, CallsInOrder, InflightIsLed, FlightsAreLed, FuturesTell,
         CancelFollower, Resolve, store, Times, CancelledBy
<1>6. EntriesWereLoaded'
  BY NoneIsNew, RecordsDiffer
     DEF Inv, TypeOK, CallsInOrder, EntriesWereLoaded, CancelFollower, Resolve,
         store, Times
<1>7. ValuesAreFresh'
  BY NoneIsNew, RecordsDiffer
     DEF Inv, TypeOK, CallsInOrder, InflightIsLed, FlightsAreLed, FuturesTell,
         EntriesWereLoaded, ValuesAreFresh, CancelFollower, Resolve, store,
         Times
<1>8. TroubleStaysInTheFlight'
  BY NoneIsNew, RecordsDiffer
     DEF Inv, TypeOK, CallsInOrder, InflightIsLed, FlightsAreLed, FuturesTell,
         TroubleStaysInTheFlight, CancelFollower, Resolve, store, Times,
         CancelledBy
<1> QED BY <1>1, <1>2, <1>3, <1>4, <1>5, <1>6, <1>7, <1>8 DEF Inv

-----------------------------------------------------------------------------
(* The table and its order.                                                *)

Distinct(order) == \A i, j \in DOMAIN order : order[i] = order[j] => i = j
Lists(order, k) == \E i \in DOMAIN order : order[i] = k

(* _cache.pop and the first half of move_to_end: the other keys keep their *)
(* place in the order.                                                     *)
LEMMA WithoutDrops ==
  ASSUME NEW order \in Seq(Keys), NEW k \in Keys, Distinct(order)
  PROVE  /\ Distinct(Without(order, k))
         /\ \A other \in Keys :
              Lists(Without(order, k), other) <=> other # k /\ Lists(order, other)
         /\ Len(Without(order, k)) = IF Lists(order, k) THEN Len(order) - 1 ELSE Len(order)
<1>1. CASE ~Lists(order, k)
  BY <1>1 DEF Without, Lists
<1>2. CASE Lists(order, k)
  <2> DEFINE i == CHOOSE j \in DOMAIN order : order[j] = k
             rest == RemoveAt(order, i)
  <2>1. Len(order) \in Nat /\ DOMAIN order = 1 .. Len(order)
    BY LenProperties
  <2>2. i \in 1 .. Len(order) /\ order[i] = k
    BY <1>2, <2>1 DEF Lists
  <2>3. Without(order, k) = rest
    BY <1>2 DEF Without, Lists
  <2> HIDE DEF i
  <2>4. /\ Len(rest) = Len(order) - 1
        /\ \A j \in 1 .. Len(order) - 1 :
             rest[j] = IF j < i THEN order[j] ELSE order[j + 1]
    BY <2>2, RemoveAtElements
  <2>5. rest \in Seq(Keys)
    BY <2>2, RemoveAtType
  <2>6. DOMAIN rest = 1 .. Len(order) - 1
    BY <2>4, <2>5, LenProperties
  <2> HIDE DEF rest
  <2>7. Distinct(rest)
    <3> SUFFICES ASSUME NEW a \in DOMAIN rest, NEW b \in DOMAIN rest, rest[a] = rest[b]
                 PROVE  a = b
      BY DEF Distinct
    <3> DEFINE at(j) == IF j < i THEN j ELSE j + 1
    <3>1. /\ at(a) \in DOMAIN order /\ at(b) \in DOMAIN order
          /\ rest[a] = order[at(a)] /\ rest[b] = order[at(b)]
      BY <2>1, <2>2, <2>4, <2>6
    <3>2. at(a) = at(b)
      BY <3>1 DEF Distinct
    <3> QED BY <2>1, <2>2, <2>6, <3>2
  <2>8. ASSUME NEW other \in Keys, Lists(rest, other)
        PROVE  other # k /\ Lists(order, other)
    <3>1. PICK j \in DOMAIN rest : rest[j] = other
      BY <2>8 DEF Lists
    <3> DEFINE from == IF j < i THEN j ELSE j + 1
    <3>2. from \in DOMAIN order /\ from # i /\ order[from] = other
      BY <2>1, <2>2, <2>4, <2>6, <3>1
    <3> QED BY <2>1, <2>2, <3>2 DEF Distinct, Lists
  <2>9. ASSUME NEW other \in Keys, other # k, Lists(order, other)
        PROVE  Lists(rest, other)
    <3>1. PICK j \in DOMAIN order : order[j] = other
      BY <2>9 DEF Lists
    <3> DEFINE to == IF j < i THEN j ELSE j - 1
    <3>2. to \in DOMAIN rest /\ rest[to] = other
      BY <2>1, <2>2, <2>4, <2>6, <2>9, <3>1
    <3> QED BY <3>2 DEF Lists
  <2> QED BY <1>2, <2>3, <2>4, <2>7, <2>8, <2>9
<1> QED BY <1>1, <1>2

LEMMA AppendAdds ==
  ASSUME NEW order \in Seq(Keys), NEW k \in Keys, Distinct(order), ~Lists(order, k)
  PROVE  /\ Distinct(Append(order, k))
         /\ \A other \in Keys : Lists(Append(order, k), other) <=> other = k \/ Lists(order, other)
         /\ Len(Append(order, k)) = Len(order) + 1
<1>1. Len(order) \in Nat /\ DOMAIN order = 1 .. Len(order)
  BY LenProperties
<1>2. /\ Append(order, k) \in Seq(Keys)
      /\ Len(Append(order, k)) = Len(order) + 1
      /\ \A i \in 1 .. Len(order) : Append(order, k)[i] = order[i]
      /\ Append(order, k)[Len(order) + 1] = k
  BY AppendProperties
<1>3. DOMAIN Append(order, k) = 1 .. Len(order) + 1
  BY <1>2, LenProperties
<1> DEFINE longer == Append(order, k)
<1> HIDE DEF longer
<1>4. Distinct(longer)
  BY <1>1, <1>2, <1>3 DEF Distinct, Lists, longer
<1>5. ASSUME NEW other \in Keys
      PROVE  Lists(longer, other) <=> other = k \/ Lists(order, other)
  <2>1. Len(order) + 1 \in DOMAIN longer /\ longer[Len(order) + 1] = k
    BY <1>1, <1>2, <1>3 DEF longer
  <2>2. \A i \in DOMAIN order : i \in DOMAIN longer /\ longer[i] = order[i]
    BY <1>1, <1>2, <1>3 DEF longer
  <2>3. \A i \in DOMAIN longer : i = Len(order) + 1 \/ i \in DOMAIN order
    BY <1>1, <1>3 DEF longer
  <2> QED BY <2>1, <2>2, <2>3 DEF Lists
<1> QED BY <1>2, <1>4, <1>5 DEF longer

(* Eviction leaves at most max_entries keys, and adds none.                *)
LEMMA KeptFits ==
  ASSUME NEW order \in Seq(Keys), Distinct(order)
  PROVE  /\ Distinct(Kept(order))
         /\ Len(Kept(order)) <= MaxEntries
         /\ \A k : Lists(Kept(order), k) => Lists(order, k)
<1>1. Len(order) \in Nat /\ DOMAIN order = 1 .. Len(order) /\ MaxEntries \in Nat
  BY LenProperties, CacheAssumption
<1>2. CASE ~(Len(order) > MaxEntries)
  BY <1>1, <1>2 DEF Kept
<1>3. CASE Len(order) > MaxEntries
  <2> DEFINE from == Len(order) - MaxEntries + 1
             last == SubSeq(order, from, Len(order))
  <2>1. from \in Int /\ from >= 1 /\ Kept(order) = last
    BY <1>1, <1>3 DEF Kept
  <2>2. \A i \in from .. Len(order) : order[i] \in Keys
    BY <1>1, <2>1, ElementOfSeq
  <2> HIDE DEF last
  <2>3. /\ last \in Seq(Keys)
        /\ Len(last) = IF from <= Len(order) THEN Len(order) - from + 1 ELSE 0
        /\ \A i \in 1 .. Len(order) - from + 1 : last[i] = order[from + i - 1]
    <3> HIDE DEF from
    <3> QED BY <1>1, <2>1, <2>2, SubSeqProperties DEF last
  <2>4. Len(last) = MaxEntries
    BY <1>1, <1>3, <2>3
  <2>5. DOMAIN last = 1 .. MaxEntries
    BY <2>3, <2>4, LenProperties
  <2>6. \A i \in DOMAIN last :
          from + i - 1 \in DOMAIN order /\ last[i] = order[from + i - 1]
    <3> SUFFICES ASSUME NEW i \in DOMAIN last
                 PROVE  from + i - 1 \in DOMAIN order /\ last[i] = order[from + i - 1]
      OBVIOUS
    <3>1. i \in 1 .. MaxEntries
      BY <2>5
    <3>2. i \in 1 .. Len(order) - from + 1 /\ from + i - 1 \in 1 .. Len(order)
      BY <1>1, <1>3, <3>1
    <3> HIDE DEF from
    <3> QED BY <1>1, <2>3, <3>2
  <2>7. Distinct(last)
    <3> SUFFICES ASSUME NEW a \in DOMAIN last, NEW b \in DOMAIN last, last[a] = last[b]
                 PROVE  a = b
      BY DEF Distinct
    <3>1. from + a - 1 = from + b - 1
      BY <2>6 DEF Distinct
    <3> QED BY <1>1, <2>1, <2>5, <3>1
  <2>8. \A k : Lists(last, k) => Lists(order, k)
    BY <2>6 DEF Lists
  <2> QED BY <1>1, <2>1, <2>4, <2>7, <2>8
<1> QED BY <1>2, <1>3

(* What CacheWellFormed says of the table, step by step.                   *)
LEMMA MissKeepsTable ==
  ASSUME TypeOK, CacheWellFormed, NEW t \in Tasks, NEW k \in Keys, Miss(t, k),
         inflight' \in [Keys -> Tasks \cup {None}],
         \A other \in Keys : other # k => inflight'[other] = inflight[other]
  PROVE  CacheWellFormed'
<1>1. Distinct(recency) /\ recency \in Seq(Keys) /\ Len(recency) \in Nat
  BY LenProperties DEF TypeOK, CacheWellFormed, Distinct
<1>2. recency' = Without(recency, k) /\ cache' = [cache EXCEPT ![k] = None]
  BY DEF Miss
<1>3. /\ Distinct(recency')
      /\ \A other \in Keys : Lists(recency', other) <=> other # k /\ Lists(recency, other)
      /\ Len(recency') <= Len(recency)
      /\ Len(recency') \in Nat
  BY <1>1, <1>2, WithoutDrops, WithoutType, LenProperties
<1>4. Len(recency') <= MaxEntries
  BY <1>1, <1>3, CacheAssumption DEF CacheWellFormed
<1>5. \A other \in Keys : cache'[other] # None <=> Lists(recency', other)
  BY <1>2, <1>3 DEF TypeOK, CacheWellFormed, Lists
<1>6. \A other \in Keys : cache'[other] # None => inflight'[other] = None
  BY <1>2 DEF TypeOK, CacheWellFormed
<1> QED BY <1>3, <1>4, <1>5, <1>6 DEF CacheWellFormed, Distinct, Lists

LEMMA HitKeepsTable ==
  ASSUME TypeOK, CacheWellFormed, NEW t \in Tasks, NEW k \in Keys, Hit(t, k)
  PROVE  CacheWellFormed'
<1>1. Distinct(recency) /\ recency \in Seq(Keys) /\ Len(recency) \in Nat /\ Lists(recency, k)
  BY LenProperties DEF TypeOK, CacheWellFormed, Distinct, Lists, Hit, Fresh
<1> DEFINE rest == Without(recency, k)
<1>2. recency' = Append(rest, k) /\ UNCHANGED <<cache, inflight>>
  BY DEF Hit
<1>3. /\ Distinct(rest)
      /\ \A other \in Keys : Lists(rest, other) <=> other # k /\ Lists(recency, other)
      /\ Len(rest) = Len(recency) - 1
      /\ rest \in Seq(Keys)
  BY <1>1, WithoutDrops, WithoutType
<1> HIDE DEF rest
<1>4. /\ Distinct(recency')
      /\ \A other \in Keys : Lists(recency', other) <=> Lists(recency, other)
      /\ Len(recency') = Len(recency)
  BY <1>1, <1>2, <1>3, AppendAdds
<1> QED BY <1>2, <1>4 DEF CacheWellFormed, Distinct, Lists

LEMMA StoringKeepsTable ==
  ASSUME Inv, CacheWellFormed, NEW t \in Tasks, NEW read \in Times,
         LeaderSucceeds(t, read)
  PROVE  CacheWellFormed'
<1>1. Distinct(recency) /\ recency \in Seq(Keys)
  BY DEF Inv, TypeOK, CacheWellFormed, Distinct
<1>2. key[t] \in Keys
  BY DEF Inv, CallsInOrder, LeaderSucceeds, LeaderEnds
<1> DEFINE longer == Stored(key[t])
<1>3. /\ Distinct(longer)
      /\ longer \in Seq(Keys)
      /\ \A k \in Keys : Lists(longer, k) <=> k = key[t] \/ cache[k] # None
  <2>1. CASE cache[key[t]] = None
    <3>1. ~Lists(recency, key[t]) /\ longer = Append(recency, key[t])
      BY <1>2, <2>1 DEF CacheWellFormed, Lists, Stored
    <3>2. \A k \in Keys : Lists(recency, k) <=> cache[k] # None
      BY DEF CacheWellFormed, Lists
    <3> HIDE DEF longer
    <3> QED BY <1>1, <1>2, <3>1, <3>2, AppendAdds, AppendProperties
  <2>2. CASE cache[key[t]] # None
    BY <1>1, <1>2, <2>2 DEF CacheWellFormed, Lists, Stored
  <2> QED BY <2>1, <2>2
<1>4. recency' = Kept(longer) /\ recency' \in Seq(Keys)
  BY <1>3, KeptType DEF LeaderSucceeds
<1> HIDE DEF longer
<1>5. /\ Distinct(recency')
      /\ Len(recency') <= MaxEntries
      /\ \A k \in Keys : Lists(recency', k) => k = key[t] \/ cache[k] # None
  BY <1>3, <1>4, KeptFits
<1>6. \A k : k \in ToSet(recency') <=> Lists(recency', k)
  BY DEF ToSet, Lists
<1>7. \A k \in Keys : cache'[k] # None <=> Lists(recency', k)
  <2>1. cache' = [k \in Keys |->
          IF k \notin ToSet(recency') THEN None
          ELSE IF k = key[t] THEN [born |-> asked[t], read |-> read]
          ELSE cache[k]]
    BY DEF LeaderSucceeds
  <2>2. [born |-> asked[t], read |-> read] # None
    <3>1. asked[t] \in Times
      BY CacheAssumption
         DEF Inv, TypeOK, Times, CallsInOrder, LeaderSucceeds, LeaderEnds
    <3> QED BY <3>1, NoneIsNew DEF CacheEntries
  <2> QED BY <1>5, <1>6, <2>1, <2>2
<1>8. \A k \in Keys : cache'[k] # None => inflight'[k] = None
  <2>1. inflight' = [inflight EXCEPT ![key[t]] = None]
    BY DEF LeaderSucceeds, LeaderEnds
  <2> QED BY <1>2, <1>5, <1>7, <2>1 DEF Inv, TypeOK, CacheWellFormed
<1> QED BY <1>5, <1>7, <1>8 DEF CacheWellFormed, Distinct, Lists

-----------------------------------------------------------------------------
(* The theorems.                                                           *)

LEMMA InitInv == Init => Inv
<1> SUFFICES ASSUME Init PROVE Inv
  OBVIOUS
<1>1. TypeOK
  BY CacheAssumption, EmptySeq DEF Init, TypeOK, Times
<1> QED BY <1>1, NoneIsNew
   DEF Init, Inv, CallsInOrder, InflightIsLed, FlightsAreLed,
           FuturesTell, EntriesWereLoaded, ValuesAreFresh, TroubleStaysInTheFlight

LEMMA NextInv == Inv /\ [Next]_vars => Inv'
<1> SUFFICES ASSUME Inv, [Next]_vars PROVE Inv'
  OBVIOUS
<1>1. CASE Tick
  BY <1>1, TickStep
<1>2. CASE \E t \in Tasks, k \in Keys : Hit(t, k) \/ Follow(t, k) \/ Lead(t, k)
  BY <1>2, HitStep, FollowStep, LeadStep
<1>3. CASE \E t \in Tasks : LeaderResumes(t)
  BY <1>3, LeaderSucceedsStep, LeaderFailsStep, LeaderCancelledStep
     DEF LeaderResumes
<1>4. CASE \E t \in Tasks : FollowerResumes(t)
  BY <1>4, FollowerResumesStep
<1>5. CASE \E t \in Tasks : CancelLeader(t) \/ CancelFollower(t)
  BY <1>5, CancelLeaderStep, CancelFollowerStep
<1>6. CASE UNCHANGED vars
  BY <1>6
     DEF vars, store, Inv, TypeOK, CallsInOrder, InflightIsLed, FlightsAreLed,
         FuturesTell,
              CancelledBy, EntriesWereLoaded, ValuesAreFresh, TroubleStaysInTheFlight
<1> QED BY <1>1, <1>2, <1>3, <1>4, <1>5, <1>6 DEF Next

(* The invariant holds of every reachable state, and TypeOK with it: what  *)
(* _inflight, the Futures, the cache and the answers say of each other     *)
(* (entitlements/cached.py:74-124).                                        *)
THEOREM Invariance == Spec => []Inv
<1>1. Init => Inv
  BY InitInv
<1>2. Inv /\ [Next]_vars => Inv'
  BY NextInv
<1> QED BY <1>1, <1>2, PTL DEF Spec

(* The types among them: a caller that is answered has a value somebody    *)
(* loaded, a failure or a cancellation (entitlements/cached.py:74-124).    *)
THEOREM TypeCorrectness == Spec => []TypeOK
<1>1. Inv => TypeOK
  BY DEF Inv
<1> QED BY <1>1, Invariance, PTL

(* However calls join, fail and are cancelled, one task per key at a time  *)
(* is inside the inner provider (the promise of cached.py:69-73).          *)
THEOREM SingleFlight == Spec => []OneLoadPerKey
<1>1. Inv => OneLoadPerKey
  BY DEF Inv, InflightIsLed, CallsInOrder, OneLoadPerKey
<1> QED BY <1>1, Invariance, PTL

(* A value is never handed out for another key, never past its TTL from    *)
(* the cache, and never from before the flight it came through.            *)
THEOREM FreshValues == Spec => []ValuesAreFresh
<1>1. Inv => ValuesAreFresh
  BY DEF Inv
<1> QED BY <1>1, Invariance, PTL

(* A failure reaches no call outside the flight that failed, a cancellation*)
(* none outside the flight of a task that was cancelled.                   *)
THEOREM ContainedTrouble == Spec => []TroubleStaysInTheFlight
<1>1. Inv => TroubleStaysInTheFlight
  BY DEF Inv
<1> QED BY <1>1, Invariance, PTL

(* Between two steps the table holds at most max_entries keys, its order   *)
(* lists exactly those, each once, and none of them is being loaded        *)
(* (entitlements/cached.py:74-83 and 117-121).                             *)
THEOREM TableStaysWellFormed == Spec => []CacheWellFormed
<1>1. Init => CacheWellFormed
  BY EmptySeq, CacheAssumption DEF Init, CacheWellFormed
<1>2. ASSUME Inv, Inv', CacheWellFormed, [Next]_vars
      PROVE  CacheWellFormed'
  <2>1. TypeOK /\ TypeOK'
    BY <1>2 DEF Inv
  <2>2. CASE \E t \in Tasks, k \in Keys : Hit(t, k)
    BY <1>2, <2>1, <2>2, HitKeepsTable
  <2>3. CASE \E t \in Tasks, k \in Keys : Follow(t, k) \/ Lead(t, k)
    BY <1>2, <2>1, <2>3, MissKeepsTable DEF Follow, Lead, TypeOK
  <2>4. CASE \E t \in Tasks, read \in Times : LeaderSucceeds(t, read)
    BY <1>2, <2>4, StoringKeepsTable
  <2>5. CASE \E t \in Tasks : LeaderFails(t) \/ LeaderCancelled(t)
    BY <1>2, <2>1, <2>5
       DEF LeaderFails, LeaderCancelled, LeaderEnds, store, TypeOK, CacheWellFormed
  <2>6. CASE \/ Tick
             \/ \E t \in Tasks : FollowerResumes(t) \/ CancelLeader(t) \/ CancelFollower(t)
             \/ UNCHANGED vars
    BY <1>2, <2>6
       DEF Tick, FollowerResumes, CancelLeader, CancelFollower, vars, store,
           CacheWellFormed
  <2> QED BY <1>2, <2>2, <2>3, <2>4, <2>5, <2>6 DEF Next, LeaderResumes
<1> QED BY <1>1, <1>2, Invariance, PTL DEF Spec
-----------------------------------------------------------------------------
(* CachedEntitlements implements SharedLoads: every step is a step of the  *)
(* promise or leaves what it speaks of alone.                              *)

(* What Inv does not say of the calls that wait and of a load that failed. *)
FollowersAreTold ==
  \A t \in Tasks :
    /\ pc[t] = "following" => flight[t] # t
    /\ future[t] = Failed => answer[t] = Failed

LEMMA FollowersAreToldStep ==
  ASSUME Inv, FollowersAreTold, [Next]_vars
  PROVE  FollowersAreTold'
<1>1. CASE Tick \/ UNCHANGED vars
  BY <1>1 DEF Tick, vars, FollowersAreTold
<1>2. CASE \E t \in Tasks, k \in Keys : Hit(t, k)
  <2>1. PICK t \in Tasks, k \in Keys : Hit(t, k)
    BY <1>2
  <2>2. future[t] # Failed
    BY <2>1, NoneIsNew DEF Hit, Call, Inv, CallsInOrder
  <2> QED BY <2>1, <2>2 DEF Hit, Call, Inv, TypeOK, FollowersAreTold
<1>3. CASE \E t \in Tasks, k \in Keys : Follow(t, k)
  BY <1>3, NoneIsNew
     DEF Follow, Miss, Call, Inv, TypeOK, CallsInOrder, InflightIsLed, FollowersAreTold
<1>4. CASE \E t \in Tasks, k \in Keys : Lead(t, k)
  BY <1>4, RecordsDiffer
     DEF Lead, Miss, Call, Inv, TypeOK, FollowersAreTold
<1>5. CASE \E t \in Tasks : LeaderResumes(t)
  BY <1>5, RecordsDiffer
     DEF LeaderResumes, LeaderSucceeds, LeaderFails, LeaderCancelled, LeaderEnds,
         Resolve, Inv, TypeOK, InflightIsLed, FollowersAreTold
<1>6. CASE \E t \in Tasks : FollowerResumes(t)
  <2>1. PICK t \in Tasks : FollowerResumes(t)
    BY <1>6
  <2>2. future[t] # Failed
    BY <2>1, NoneIsNew DEF FollowerResumes, Inv, CallsInOrder, FuturesTell
  <2> QED BY <2>1, <2>2 DEF FollowerResumes, Inv, TypeOK, FollowersAreTold
<1>7. CASE \E t \in Tasks : CancelLeader(t) \/ CancelFollower(t)
  BY <1>7, RecordsDiffer
     DEF CancelLeader, CancelFollower, Resolve, Inv, TypeOK, FollowersAreTold
<1> QED BY <1>1, <1>2, <1>3, <1>4, <1>5, <1>6, <1>7 DEF Next

(* The load in progress for a key is the one whose Future is in _inflight. *)
LoadsAreInFlight == LoadOf = inflight

LEMMA LoadsInFlight == Inv => LoadsAreInFlight
<1> SUFFICES ASSUME Inv PROVE LoadOf = inflight
  BY DEF LoadsAreInFlight
<1>1. inflight \in [Keys -> Tasks \cup {None}]
  BY DEF Inv, TypeOK
<1>2. ASSUME NEW k \in Keys
      PROVE  LoadOf[k] = inflight[k]
  <2>1. CASE \E t \in Tasks : pc[t] = "leading" /\ key[t] = k
    <3> DEFINE leader == CHOOSE t \in Tasks : pc[t] = "leading" /\ key[t] = k
    <3>1. leader \in Tasks /\ pc[leader] = "leading" /\ key[leader] = k
      BY <2>1
    <3>2. LoadOf[k] = leader
      BY <2>1 DEF LoadOf
    <3> HIDE DEF leader
    <3> QED BY <3>1, <3>2 DEF Inv, InflightIsLed
  <2>2. CASE ~\E t \in Tasks : pc[t] = "leading" /\ key[t] = k
    <3>1. LoadOf[k] = None
      BY <2>2 DEF LoadOf
    <3>2. inflight[k] = None
      BY <1>1, <2>2 DEF Inv, InflightIsLed
    <3> QED BY <3>1, <3>2
  <2> QED BY <2>1, <2>2
<1>3. LoadOf = [k \in Keys |-> LoadOf[k]] /\ inflight = [k \in Keys |-> inflight[k]]
  BY <1>1 DEF LoadOf
<1> QED BY <1>2, <1>3

LEMMA LoadsInFlightNext == Inv' => LoadsAreInFlight'
BY LoadsInFlight, PTL

(* A call that begins is one the promise has not seen.                     *)
LEMMA CallBegins ==
  ASSUME Inv, NEW t \in Tasks, NEW k \in Keys, Call(t, k), pc'[t] # "idle",
         \A u \in Tasks \ {t} : pc'[u] = pc[u]
  PROVE  Promise!Ask(t, k)
<1>1. pc[t] = "idle" /\ key' = [key EXCEPT ![t] = k] /\ asked' = [asked EXCEPT ![t] = now] /\ now' = now
  BY DEF Call
<1>2. CallOf[t] = None
  BY <1>1 DEF CallOf
<1>3. CallOf' = [CallOf EXCEPT ![t] = [key |-> k, at |-> now]]
  BY <1>1 DEF CallOf, Inv, TypeOK
<1> QED BY <1>1, <1>2, <1>3 DEF Promise!Ask

LEMMA HitAnswers ==
  ASSUME Inv, Inv', NEW t \in Tasks, NEW k \in Keys, Hit(t, k)
  PROVE  Promise!AnswerFromCache(t, k)
<1>1. Promise!Ask(t, k)
  BY CallBegins DEF Hit, Inv, TypeOK
<1>2. UNCHANGED <<LoadOf, flight>>
  <2>1. LoadOf = inflight /\ LoadOf' = inflight'
    BY LoadsInFlight, LoadsInFlightNext DEF LoadsAreInFlight
  <2> QED BY <2>1 DEF Hit
<1>3. PICK u \in Tasks : /\ flight[u] = u
                         /\ key[u] = k
                         /\ answer[u] = Value(cache[k].read)
                         /\ cache[k].born <= cache[k].read
  BY DEF Hit, Fresh, Inv, EntriesWereLoaded
<1>4. CallOf[u].key = k
  <2>1. pc[u] # "idle"
    BY <1>3, NoneIsNew DEF Inv, CallsInOrder
  <2> QED BY <1>3, <2>1 DEF CallOf
<1>5. /\ cache[k].read \in Times
      /\ cache[k].born \in Times
      /\ now \in Times
      /\ now - cache[k].born < TTL
  BY DEF Hit, Fresh, Inv, TypeOK, CacheEntries
<1>6. answer[u] # None /\ answer[u].kind = "value" /\ answer[u].read = cache[k].read
  BY <1>3, <1>5, NoneIsNew, RecordsDiffer
<1>7. now - answer[u].read < TTL
  BY <1>3, <1>5, <1>6, CacheAssumption DEF Times
<1>8. answer' = [answer EXCEPT ![t] = answer[u]]
  BY <1>3 DEF Hit
<1> QED BY <1>1, <1>2, <1>3, <1>4, <1>6, <1>7, <1>8 DEF Promise!AnswerFromCache

LEMMA FollowJoins ==
  ASSUME Inv, Inv', NEW t \in Tasks, NEW k \in Keys, Follow(t, k)
  PROVE  Promise!JoinLoad(t, k)
<1>1. Promise!Ask(t, k)
  BY CallBegins DEF Follow, Miss, Inv, TypeOK
<1>2. LoadOf = inflight /\ LoadOf' = inflight'
  BY LoadsInFlight, LoadsInFlightNext DEF LoadsAreInFlight
<1>3. future[inflight[k]] \in {Pending, Cancelled}
  BY DEF Follow, Inv, TypeOK, InflightIsLed
<1>4. answer' = answer \/ answer' = [answer EXCEPT ![t] = Promise!Cancelled]
  BY <1>3 DEF Follow, Cancelled, Promise!Cancelled
<1> QED BY <1>1, <1>2, <1>4 DEF Follow, Promise!JoinLoad

LEMMA LeadStarts ==
  ASSUME Inv, Inv', NEW t \in Tasks, NEW k \in Keys, Lead(t, k)
  PROVE  Promise!StartLoad(t, k)
<1>1. Promise!Ask(t, k)
  BY CallBegins DEF Lead, Miss, Inv, TypeOK
<1>2. LoadOf = inflight /\ LoadOf' = inflight'
  BY LoadsInFlight, LoadsInFlightNext DEF LoadsAreInFlight
<1> QED BY <1>1, <1>2 DEF Lead, Promise!StartLoad

LEMMA LeaderFinishes ==
  ASSUME Inv, Inv', NEW t \in Tasks, LeaderResumes(t)
  PROVE  Promise!FinishLoad(t)
<1>1. /\ pc[t] = "leading"
      /\ inflight' = [inflight EXCEPT ![key[t]] = None]
      /\ pc' = [pc EXCEPT ![t] = "ended"]
      /\ UNCHANGED <<now, key, asked, flight>>
  BY DEF LeaderResumes, LeaderSucceeds, LeaderFails, LeaderCancelled, LeaderEnds
<1>2. \E result \in {Value(read) : read \in asked[t] .. now} \cup {Failed, Cancelled} :
        answer' = [answer EXCEPT ![t] = result]
  BY DEF LeaderResumes, LeaderSucceeds, LeaderFails, LeaderCancelled, LeaderEnds
<1>3. LoadOf = inflight /\ LoadOf' = inflight'
  BY LoadsInFlight, LoadsInFlightNext DEF LoadsAreInFlight
<1>4. inflight[key[t]] = t
  BY <1>1 DEF Inv, InflightIsLed
<1>5. CallOf[t] = [key |-> key[t], at |-> asked[t]] /\ CallOf' = CallOf
  BY <1>1 DEF CallOf, Inv, TypeOK
<1>6. CallOf[t] # None
  <2>1. key[t] \in Keys /\ asked[t] \in Times
    BY <1>1, CacheAssumption DEF Inv, TypeOK, CallsInOrder, Times
  <2> QED BY <1>5, <2>1, CacheAssumption
<1>7. \E result \in {Promise!Value(read) : read \in CallOf[t].at .. now}
                      \cup {Promise!Failed, Promise!Cancelled} :
        answer' = [answer EXCEPT ![t] = result]
  <2>1. CallOf[t].at = asked[t]
    BY <1>5
  <2> QED BY <1>2, <2>1
     DEF Value, Failed, Cancelled, Promise!Value, Promise!Failed, Promise!Cancelled
<1>8. CallOf[t].key = key[t]
  BY <1>5
<1>9. LoadOf[CallOf[t].key] = t /\ LoadOf' = [LoadOf EXCEPT ![CallOf[t].key] = None]
  BY <1>1, <1>3, <1>4, <1>8
<1>10. now' = now /\ CallOf' = CallOf /\ flight' = flight
  BY <1>1, <1>5
<1> QED BY <1>6, <1>7, <1>9, <1>10 DEF Promise!FinishLoad

LEMMA FollowerShares ==
  ASSUME Inv, Inv', FollowersAreTold, NEW t \in Tasks, FollowerResumes(t)
  PROVE  Promise!Share(t)
<1>1. answer[t] = None /\ flight[t] \in Tasks \ {t}
  BY DEF FollowerResumes, Inv, TypeOK, CallsInOrder, FollowersAreTold
<1>2. /\ UNCHANGED <<now, inflight, flight, key, asked>>
      /\ pc' = [pc EXCEPT ![t] = "ended"]
      /\ pc[t] = "following"
  BY DEF FollowerResumes
<1>3. LoadOf' = LoadOf
  BY <1>2, LoadsInFlight, LoadsInFlightNext DEF LoadsAreInFlight
<1>4. CallOf' = CallOf
  BY <1>2 DEF CallOf, Inv, TypeOK
<1> DEFINE outcome == future[flight[t]]
<1>5. outcome \in Results
  BY <1>1 DEF FollowerResumes, Inv, TypeOK, FlightsAreLed, CallsInOrder
<1>6. outcome = Cancelled \/ answer[flight[t]] = outcome
  <2>1. CASE outcome = Failed
    BY <1>1, <2>1 DEF FollowersAreTold
  <2>2. CASE outcome \notin {Failed, Cancelled}
    <3>1. outcome.kind = "value"
      BY <1>5, <2>2, RecordsDiffer
    <3> QED BY <1>1, <1>5, <3>1, NoneIsNew DEF Inv, FuturesTell
  <2> QED BY <2>1, <2>2
<1>7. \/ answer' = [answer EXCEPT ![t] = Cancelled]
      \/ /\ answer[flight[t]] # None
         /\ answer' = [answer EXCEPT ![t] = answer[flight[t]]]
  BY <1>5, <1>6, NoneIsNew DEF FollowerResumes
<1>8. flight[t] \notin {None, t}
  BY <1>1, NoneIsNew
<1> QED BY <1>1, <1>2, <1>3, <1>4, <1>7, <1>8
   DEF Promise!Share, Cancelled, Promise!Cancelled

LEMMA PromiseStep ==
  ASSUME Inv, Inv', FollowersAreTold, [Next]_vars
  PROVE  [Promise!Next]_(Promise!vars)
<1>1. CASE Tick
  <2>1. CallOf' = CallOf /\ LoadOf' = LoadOf
    BY <1>1 DEF Tick, CallOf, LoadOf
  <2> QED BY <1>1, <2>1 DEF Tick, Promise!Tick, Promise!Next
<1>2. CASE \E t \in Tasks, k \in Keys : Hit(t, k) \/ Follow(t, k) \/ Lead(t, k)
  BY <1>2, HitAnswers, FollowJoins, LeadStarts DEF Promise!Next
<1>3. CASE \E t \in Tasks : LeaderResumes(t)
  BY <1>3, LeaderFinishes DEF Promise!Next
<1>4. CASE \E t \in Tasks : FollowerResumes(t)
  BY <1>4, FollowerShares DEF Promise!Next
<1>5. CASE \/ \E t \in Tasks : CancelLeader(t) \/ CancelFollower(t)
           \/ UNCHANGED vars
  <2>1. UNCHANGED <<now, inflight, pc, key, asked, flight, answer>>
    BY <1>5 DEF CancelLeader, CancelFollower, vars
  <2>2. CallOf' = CallOf /\ LoadOf' = LoadOf
    BY <2>1 DEF CallOf, LoadOf
  <2> QED BY <2>1, <2>2 DEF Promise!vars
<1> QED BY <1>1, <1>2, <1>3, <1>4, <1>5 DEF Next

(* Whatever the table, the in-flight map and the Futures do, callers see   *)
(* what SharedLoads allows: one load per key, shared by the calls that     *)
(* overlap it, and answers from the cache that are younger than the TTL    *)
(* (the module docstring of entitlements/cached.py).                       *)
THEOREM CacheRefinesSharedLoads == Spec => ImplementsSharedLoads
<1>1. Init => Promise!Init
  <2>1. Init => CallOf = [t \in Tasks |-> None] /\ LoadOf = [k \in Keys |-> None]
    BY DEF Init, CallOf, LoadOf
  <2> QED BY <2>1 DEF Init, Promise!Init
<1>2. Init => FollowersAreTold
  BY NoneIsNew DEF Init, FollowersAreTold
<1>3. Inv /\ FollowersAreTold /\ [Next]_vars => FollowersAreTold'
  BY FollowersAreToldStep
<1>4. Inv /\ Inv' /\ FollowersAreTold /\ [Next]_vars => [Promise!Next]_(Promise!vars)
  BY PromiseStep
<1> QED BY <1>1, <1>2, <1>3, <1>4, Invariance, PTL
   DEF Spec, ImplementsSharedLoads, Promise!Spec
=============================================================================
