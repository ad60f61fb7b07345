------------------------- MODULE CachedEntitlements -------------------------
(***************************************************************************)
(* entitlements/cached.py: one CachedEntitlementProvider on one event      *)
(* loop, and the tasks that call entitlements_for on it, one call each.    *)
(*                                                                         *)
(* Code between two awaits is one step.  The Future a leader creates is    *)
(* named by the leader's task.  A leader awaits the inner provider inside  *)
(* its own task; a follower awaits the leader's Future itself, with no     *)
(* shield, so cancelling a waiting follower cancels that Future.           *)
(***************************************************************************)
EXTENDS Integers, Sequences, SequencesExt

CONSTANTS
  Keys, Tasks,
  TTL,            \* ttl_seconds
  MaxEntries,     \* max_entries
  MaxTime,        \* bound on the clock
  InnerCancels,   \* TRUE: the inner provider may raise CancelledError itself
  None

Value(read) == [kind |-> "value", read |-> read]
Failed == [kind |-> "failed", read |-> 0]
Cancelled == [kind |-> "cancelled", read |-> 0]
Pending == [kind |-> "pending", read |-> 0]

Times == 0 .. MaxTime
Results == [kind : {"value"}, read : Times] \cup {Failed, Cancelled}
CacheEntries == [born : Times, read : Times]

ASSUME CacheAssumption ==
  /\ TTL \in Nat
  /\ MaxEntries \in Nat
  /\ MaxTime \in Nat
  /\ InnerCancels \in BOOLEAN
  /\ None \notin Keys \cup Tasks \cup Results \cup {Pending} \cup CacheEntries
  /\ None \notin [key : Keys, at : Times]

VARIABLES
  now,        \* the clock
  cache,      \* _cache: key -> entry, or None
  recency,    \* the order of _cache, least recently used first
  inflight,   \* _inflight: key -> the Future of its leader, or None
  future,     \* per leader: the state of its Future
  pc,         \* per task: idle, leading, following, ended
  key,        \* per task: the lookup it asked for
  asked,      \* per task: the clock when its call started
  flight,     \* per task: the Future its call went through, None for a hit
  cancelled,  \* the tasks cancel() was called on while in the call
  inner,      \* per leader: how its call of the inner provider ended
  answer      \* per task: how its call ended

store == <<cache, recency>>
vars == <<now, store, inflight, future, pc, key, asked, flight, cancelled,
          inner, answer>>

Init ==
  /\ now = 0
  /\ cache = [k \in Keys |-> None]
  /\ recency = <<>>
  /\ inflight = [k \in Keys |-> None]
  /\ future = [t \in Tasks |-> None]
  /\ pc = [t \in Tasks |-> "idle"]
  /\ key = [t \in Tasks |-> None]
  /\ asked = [t \in Tasks |-> None]
  /\ flight = [t \in Tasks |-> None]
  /\ cancelled = {}
  /\ inner = [t \in Tasks |-> "none"]
  /\ answer = [t \in Tasks |-> None]

Tick ==
  /\ now < MaxTime
  /\ now' = now + 1
  /\ UNCHANGED <<store, inflight, future, pc, key, asked, flight, cancelled,
                 inner, answer>>

-----------------------------------------------------------------------------
(* The synchronous prefix of entitlements_for.                             *)

(* Slip: an entry is still served on the tick it expires.                  *)
FreshOneTickMore(k) == cache[k] # None /\ now - cache[k].born <= TTL

Fresh(k) == cache[k] # None /\ now - cache[k].born < TTL

Without(order, k) ==
  IF \E i \in DOMAIN order : order[i] = k
  THEN RemoveAt(order, CHOOSE i \in DOMAIN order : order[i] = k)
  ELSE order

Call(t, k) ==
  /\ pc[t] = "idle"
  /\ key' = [key EXCEPT ![t] = k]
  /\ asked' = [asked EXCEPT ![t] = now]
  /\ UNCHANGED <<now, cancelled, inner>>

Hit(t, k) ==
  /\ Call(t, k)
  /\ Fresh(k)
  /\ recency' = Append(Without(recency, k), k)
  /\ pc' = [pc EXCEPT ![t] = "ended"]
  /\ answer' = [answer EXCEPT ![t] = Value(cache[k].read)]
  /\ UNCHANGED <<cache, inflight, future, flight>>

(* A miss, or an expired entry, which is deleted on the way.               *)
Miss(t, k) ==
  /\ Call(t, k)
  /\ ~Fresh(k)
  /\ cache' = [cache EXCEPT ![k] = None]
  /\ recency' = Without(recency, k)

(* Slip: the result of the Future is read without waiting for it.          *)
FollowWithoutAwait(t, k) ==
  /\ inflight[k] # None
  /\ Miss(t, k)
  /\ flight' = [flight EXCEPT ![t] = inflight[k]]
  /\ pc' = [pc EXCEPT ![t] = "ended"]
  /\ answer' = [answer EXCEPT ![t] = future[inflight[k]]]
  /\ UNCHANGED <<inflight, future>>

(* await inflight: suspends while the Future is pending and raises at once *)
(* when a follower's cancellation has cancelled it.                        *)
Follow(t, k) ==
  /\ inflight[k] # None
  /\ Miss(t, k)
  /\ flight' = [flight EXCEPT ![t] = inflight[k]]
  /\ IF future[inflight[k]] = Pending
     THEN /\ pc' = [pc EXCEPT ![t] = "following"]
          /\ UNCHANGED answer
     ELSE /\ pc' = [pc EXCEPT ![t] = "ended"]
          /\ answer' = [answer EXCEPT ![t] = future[inflight[k]]]
  /\ UNCHANGED <<inflight, future>>

(* Slip: a caller looks for a Future that is pending, not for any Future.  *)
LeadUnlessPending(t, k) ==
  /\ IF inflight[k] = None THEN TRUE ELSE future[inflight[k]] # Pending
  /\ Miss(t, k)
  /\ future' = [future EXCEPT ![t] = Pending]
  /\ inflight' = [inflight EXCEPT ![k] = t]
  /\ flight' = [flight EXCEPT ![t] = t]
  /\ pc' = [pc EXCEPT ![t] = "leading"]
  /\ UNCHANGED answer

Lead(t, k) ==
  /\ inflight[k] = None
  /\ Miss(t, k)
  /\ future' = [future EXCEPT ![t] = Pending]
  /\ inflight' = [inflight EXCEPT ![k] = t]
  /\ flight' = [flight EXCEPT ![t] = t]
  /\ pc' = [pc EXCEPT ![t] = "leading"]
  /\ UNCHANGED answer

-----------------------------------------------------------------------------
(* The leader resumes with what the inner provider did.                    *)

LeaderEnds(t, outcome, result) ==
  /\ pc[t] = "leading"
  /\ inflight' = [inflight EXCEPT ![key[t]] = None]
  /\ pc' = [pc EXCEPT ![t] = "ended"]
  /\ inner' = [inner EXCEPT ![t] = outcome]
  /\ answer' = [answer EXCEPT ![t] = result]
  /\ UNCHANGED <<now, key, asked, flight, cancelled>>

(* set_result, set_exception and cancel() are reached only if not done().  *)
Resolve(t, result) ==
  future' = [future EXCEPT ![t] = IF future[t] = Pending THEN result ELSE @]

(* self._cache[lookup] = ...: a key already there keeps its place.         *)
Stored(k) == IF cache[k] = None THEN Append(recency, k) ELSE recency

(* Slip: the table may hold one entry too many.                            *)
KeptOneMore(order) ==
  IF Len(order) > MaxEntries + 1
  THEN SubSeq(order, Len(order) - MaxEntries, Len(order))
  ELSE order

(* popitem(last=False) while the table is too long.                        *)
Kept(order) ==
  IF Len(order) > MaxEntries
  THEN SubSeq(order, Len(order) - MaxEntries + 1, Len(order))
  ELSE order

(* Slip: the entry is dated from the end of the load.                      *)
LeaderSucceedsDatedNow(t, read) ==
  /\ LeaderEnds(t, "returned", Value(read))
  /\ read \in asked[t] .. now
  /\ recency' = Kept(Stored(key[t]))
  /\ cache' = [k \in Keys |->
       IF k \notin ToSet(recency') THEN None
       ELSE IF k = key[t] THEN [born |-> now, read |-> read]
       ELSE cache[k]]
  /\ Resolve(t, Value(read))

(* The value was read while the load was under way; the entry is dated     *)
(* from the start of the leader's call.                                    *)
LeaderSucceeds(t, read) ==
  /\ LeaderEnds(t, "returned", Value(read))
  /\ read \in asked[t] .. now
  /\ recency' = Kept(Stored(key[t]))
  /\ cache' = [k \in Keys |->
       IF k \notin ToSet(recency') THEN None
       ELSE IF k = key[t] THEN [born |-> asked[t], read |-> read]
       ELSE cache[k]]
  /\ Resolve(t, Value(read))

(* Slip: one handler cancels the Future whatever the inner provider raised.*)
LeaderFailsAsCancelled(t) ==
  /\ LeaderEnds(t, "raised", Failed)
  /\ Resolve(t, Cancelled)
  /\ UNCHANGED store

(* future.exception() at the end of the handler raises CancelledError in   *)
(* place of the failure when a follower has cancelled the Future.          *)
LeaderFails(t) ==
  /\ LeaderEnds(t, "raised", IF future[t] = Pending THEN Failed ELSE Cancelled)
  /\ Resolve(t, Failed)
  /\ UNCHANGED store

(* Slip: a cancelled leader leaves its Future unresolved.                  *)
LeaderCancelledInSilence(t) ==
  /\ t \in cancelled \/ InnerCancels
  /\ LeaderEnds(t, "cancelled", Cancelled)
  /\ UNCHANGED <<store, future>>

LeaderCancelled(t) ==
  /\ t \in cancelled \/ InnerCancels
  /\ LeaderEnds(t, "cancelled", Cancelled)
  /\ Resolve(t, Cancelled)
  /\ UNCHANGED store

-----------------------------------------------------------------------------
(* Followers and cancellation.                                             *)

(* The event loop wakes a follower whose Future is done; a cancellation    *)
(* requested after that takes precedence over the result.                  *)
FollowerResumes(t) ==
  /\ pc[t] = "following"
  /\ future[flight[t]] # Pending
  /\ pc' = [pc EXCEPT ![t] = "ended"]
  /\ answer' = [answer EXCEPT ![t] =
       IF t \in cancelled THEN Cancelled ELSE future[flight[t]]]
  /\ UNCHANGED <<now, store, inflight, future, key, asked, flight, cancelled,
                 inner>>

(* task.cancel() on a leader is thrown into the inner provider, which      *)
(* normally lets it out but may also answer.                               *)
CancelLeader(t) ==
  /\ pc[t] = "leading"
  /\ cancelled' = cancelled \cup {t}
  /\ UNCHANGED <<now, store, inflight, future, pc, key, asked, flight, inner,
                 answer>>

(* task.cancel() on a waiting follower cancels the Future it awaits, if    *)
(* that is still pending.                                                  *)
CancelFollower(t) ==
  /\ pc[t] = "following"
  /\ cancelled' = cancelled \cup {t}
  /\ Resolve(flight[t], Cancelled)
  /\ UNCHANGED <<now, store, inflight, pc, key, asked, flight, inner, answer>>

-----------------------------------------------------------------------------
LeaderResumes(t) ==
  \/ \E read \in Times : LeaderSucceeds(t, read)
  \/ LeaderFails(t)
  \/ LeaderCancelled(t)

Next ==
  \/ Tick
  \/ \E t \in Tasks :
       \/ \E k \in Keys : Hit(t, k) \/ Follow(t, k) \/ Lead(t, k)
       \/ LeaderResumes(t)
       \/ FollowerResumes(t)
       \/ CancelLeader(t)
       \/ CancelFollower(t)

(* The inner provider answers in the end, and the event loop runs a task   *)
(* it has woken.                                                           *)
Fairness ==
  \A t \in Tasks : WF_vars(LeaderResumes(t)) /\ WF_vars(FollowerResumes(t))

Spec == Init /\ [][Next]_vars /\ Fairness
-----------------------------------------------------------------------------
(* What the provider promises.                                             *)

TypeOK ==
  /\ now \in Times
  /\ cache \in [Keys -> CacheEntries \cup {None}]
  /\ recency \in Seq(Keys)
  /\ inflight \in [Keys -> Tasks \cup {None}]
  /\ future \in [Tasks -> Results \cup {Pending, None}]
  /\ pc \in [Tasks -> {"idle", "leading", "following", "ended"}]
  /\ key \in [Tasks -> Keys \cup {None}]
  /\ asked \in [Tasks -> Times \cup {None}]
  /\ flight \in [Tasks -> Tasks \cup {None}]
  /\ cancelled \subseteq Tasks
  /\ inner \in [Tasks -> {"none", "returned", "raised", "cancelled"}]
  /\ answer \in [Tasks -> Results \cup {None}]

(* Of all the tasks in the provider, at most one per key is inside the     *)
(* inner provider, cancellations and failures of its followers or of       *)
(* earlier leaders notwithstanding.                                        *)
OneLoadPerKey ==
  \A t, u \in Tasks :
    pc[t] = "leading" /\ pc[u] = "leading" /\ key[t] = key[u] => t = u

(* The table never outgrows max_entries between two steps, its order and   *)
(* its contents agree, and a key is never cached and being loaded at once. *)
CacheWellFormed ==
  /\ Len(recency) <= MaxEntries
  /\ \A i, j \in DOMAIN recency : recency[i] = recency[j] => i = j
  /\ \A k \in Keys : cache[k] # None <=> \E i \in DOMAIN recency : recency[i] = k
  /\ \A k \in Keys : cache[k] # None => inflight[k] = None

(* A value handed out was returned by the inner provider for that very     *)
(* key.  From the cache, it was read less than TTL before the call; from a *)
(* flight, it was read after that flight began.                            *)
ValuesAreFresh ==
  \A t \in Tasks :
    answer[t] # None /\ answer[t].kind = "value" =>
      /\ \E u \in Tasks :
           /\ flight[u] = u
           /\ key[u] = key[t]
           /\ inner[u] = "returned"
           /\ answer[u] = answer[t]
      /\ IF flight[t] = None
         THEN asked[t] - answer[t].read < TTL
         ELSE asked[flight[t]] <= answer[t].read

(* A failure reaches only the calls of the flight that failed, so it is    *)
(* not cached; and a call that ends cancelled was cancelled itself or      *)
(* shares its flight with a task that was.                                 *)
TroubleStaysInTheFlight ==
  \A t \in Tasks :
    /\ answer[t] = Failed => flight[t] # None /\ inner[flight[t]] = "raised"
    /\ answer[t] = Cancelled =>
         \/ InnerCancels
         \/ flight[t] # None /\ \E u \in cancelled : flight[u] = flight[t]

(* Nobody waits for a Future that will not be resolved: every call ends.   *)
EveryCallEnds == \A t \in Tasks : pc[t] # "idle" ~> pc[t] = "ended"

(* The provider implements SharedLoads: cache, in-flight map and Futures   *)
(* together behave as loads shared by the calls that overlap them.         *)
CallOf ==
  [t \in Tasks |-> IF pc[t] = "idle" THEN None
                   ELSE [key |-> key[t], at |-> asked[t]]]

LoadOf ==
  [k \in Keys |->
     IF \E t \in Tasks : pc[t] = "leading" /\ key[t] = k
     THEN CHOOSE t \in Tasks : pc[t] = "leading" /\ key[t] = k
     ELSE None]

Promise == INSTANCE SharedLoads WITH call <- CallOf, load <- LoadOf, source <- flight

ImplementsSharedLoads == Promise!Spec

-----------------------------------------------------------------------------
(* The inductive invariant the theorems rest on.                           *)

(* What a task has and has not before, during and after its call.          *)
CallsInOrder ==
  \A t \in Tasks :
    /\ pc[t] = "idle" => key[t] = None /\ flight[t] = None /\ future[t] = None
    /\ pc[t] # "idle" => key[t] \in Keys /\ asked[t] \in 0 .. now
    /\ pc[t] # "ended" => answer[t] = None /\ inner[t] = "none"
    /\ pc[t] = "following" => flight[t] # None

(* _inflight holds the Futures of the tasks that lead and nothing else.    *)
InflightIsLed ==
  /\ \A k \in Keys : inflight[k] # None =>
       pc[inflight[k]] = "leading" /\ key[inflight[k]] = k
  /\ \A t \in Tasks : pc[t] = "leading" =>
       /\ inflight[key[t]] = t
       /\ flight[t] = t
       /\ future[t] \in {Pending, Cancelled}

(* A call goes through the Future of a leader for the same key.            *)
FlightsAreLed ==
  \A t \in Tasks : flight[t] # None =>
    /\ flight[flight[t]] = flight[t]
    /\ key[flight[t]] = key[t]
    /\ future[flight[t]] # None

CancelledBy(f) == InnerCancels \/ \E u \in cancelled : flight[u] = f

(* What the state of a Future says of its flight.                          *)
FuturesTell ==
  \A f \in Tasks : future[f] # None =>
    /\ flight[f] = f
    /\ future[f] = Pending => pc[f] = "leading"
    /\ future[f] = Cancelled => CancelledBy(f)
    /\ future[f] = Failed => inner[f] = "raised"
    /\ future[f].kind = "value" =>
         /\ inner[f] = "returned"
         /\ answer[f] = future[f]
         /\ asked[f] <= future[f].read

(* An entry was loaded for its key, by the leader it is dated from.        *)
EntriesWereLoaded ==
  \A k \in Keys : cache[k] # None =>
    \E u \in Tasks :
      /\ flight[u] = u
      /\ key[u] = k
      /\ inner[u] = "returned"
      /\ answer[u] = Value(cache[k].read)
      /\ cache[k].born <= cache[k].read

Inv ==
  /\ TypeOK
  /\ CallsInOrder
  /\ InflightIsLed
  /\ FlightsAreLed
  /\ FuturesTell
  /\ EntriesWereLoaded
  /\ ValuesAreFresh
  /\ TroubleStaysInTheFlight

-----------------------------------------------------------------------------
(* A statement of the source the code does not keep.                       *)

(* cached.py:21-25: followers await the leader's Future and receive the    *)
(* same result.  So a follower that was not cancelled has its leader's     *)
(* value; in the code a sibling's cancellation takes it away.              *)
FollowersReceiveTheResult ==
  \A t \in Tasks :
    /\ pc[t] = "ended"
    /\ flight[t] \notin {t, None}
    /\ t \notin cancelled
    /\ inner[flight[t]] = "returned"
    => answer[t] = answer[flight[t]]
=============================================================================
