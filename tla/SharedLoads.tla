----------------------------- MODULE SharedLoads -----------------------------
(***************************************************************************)
(* What CachedEntitlementProvider promises its callers, without saying how *)
(* it keeps it: no cache table, no in-flight map and no futures here.      *)
(*                                                                         *)
(* A call for a key is answered with a value the inner provider gave for   *)
(* that key and that is less than TTL old, or with the outcome of the one  *)
(* load of that key that is in progress.  A value is known by the time at  *)
(* which the inner provider read it.                                       *)
(***************************************************************************)
EXTENDS Integers

CONSTANTS Keys, Tasks, TTL, MaxTime, None

VARIABLES
  now,
  call,      \* per task: what it asked and when, or None
  load,      \* per key: the task whose load is in progress, or None
  source,    \* per task: the load its answer comes from, None for the cache
  answer     \* per task: what its caller received, or None

vars == <<now, call, load, source, answer>>

Value(read) == [kind |-> "value", read |-> read]
Failed == [kind |-> "failed", read |-> 0]
Cancelled == [kind |-> "cancelled", read |-> 0]

Init ==
  /\ now = 0
  /\ call = [t \in Tasks |-> None]
  /\ load = [k \in Keys |-> None]
  /\ source = [t \in Tasks |-> None]
  /\ answer = [t \in Tasks |-> None]

Tick ==
  /\ now < MaxTime
  /\ now' = now + 1
  /\ UNCHANGED <<call, load, source, answer>>

Ask(t, k) ==
  /\ call[t] = None
  /\ call' = [call EXCEPT ![t] = [key |-> k, at |-> now]]
  /\ UNCHANGED now

(* A value some earlier load of the key answered with, still fresh.        *)
AnswerFromCache(t, k) ==
  /\ Ask(t, k)
  /\ \E u \in Tasks :
       /\ source[u] = u
       /\ call[u].key = k
       /\ answer[u] # None
       /\ answer[u].kind = "value"
       /\ now - answer[u].read < TTL
       /\ answer' = [answer EXCEPT ![t] = answer[u]]
  /\ UNCHANGED <<load, source>>

(* One load per key at a time.                                             *)
StartLoad(t, k) ==
  /\ Ask(t, k)
  /\ load[k] = None
  /\ load' = [load EXCEPT ![k] = t]
  /\ source' = [source EXCEPT ![t] = t]
  /\ UNCHANGED answer

JoinLoad(t, k) ==
  /\ Ask(t, k)
  /\ load[k] # None
  /\ source' = [source EXCEPT ![t] = load[k]]
  /\ answer' \in {answer, [answer EXCEPT ![t] = Cancelled]}
  /\ UNCHANGED load

FinishLoad(t) ==
  /\ call[t] # None
  /\ load[call[t].key] = t
  /\ load' = [load EXCEPT ![call[t].key] = None]
  /\ \E result \in {Value(read) : read \in call[t].at .. now}
                     \cup {Failed, Cancelled} :
       answer' = [answer EXCEPT ![t] = result]
  /\ UNCHANGED <<now, call, source>>

(* A caller that joined a load receives what the load brought, or is       *)
(* cancelled with it or before it.                                         *)
Share(t) ==
  /\ answer[t] = None
  /\ source[t] \notin {None, t}
  /\ \/ answer' = [answer EXCEPT ![t] = Cancelled]
     \/ /\ answer[source[t]] # None
        /\ answer' = [answer EXCEPT ![t] = answer[source[t]]]
  /\ UNCHANGED <<now, call, load, source>>

Next ==
  \/ Tick
  \/ \E t \in Tasks :
       \/ \E k \in Keys :
            AnswerFromCache(t, k) \/ StartLoad(t, k) \/ JoinLoad(t, k)
       \/ FinishLoad(t)
       \/ Share(t)

Spec == Init /\ [][Next]_vars
=============================================================================
