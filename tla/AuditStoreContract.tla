------------------------- MODULE AuditStoreContract -------------------------
(***************************************************************************)
(* What the engine relies on when it awaits AuditStore.write: a write that *)
(* returns has persisted its entry.  A write that raised or was cancelled  *)
(* may have persisted it, or may do so later; no entry is persisted that   *)
(* nobody wrote, none twice, and none is taken back.                       *)
(***************************************************************************)
CONSTANT Writes

VARIABLES state, persisted

vars == <<state, persisted>>

Init ==
  /\ state = [w \in Writes |-> "idle"]
  /\ persisted = {}

Begin(w) ==
  /\ state[w] = "idle"
  /\ state' = [state EXCEPT ![w] = "open"]
  /\ UNCHANGED persisted

Persist(w) ==
  /\ state[w] # "idle"
  /\ w \notin persisted
  /\ persisted' = persisted \cup {w}
  /\ UNCHANGED state

Return(w) ==
  /\ state[w] = "open"
  /\ w \in persisted
  /\ state' = [state EXCEPT ![w] = "returned"]
  /\ UNCHANGED persisted

Raise(w) ==
  /\ state[w] = "open"
  /\ state' = [state EXCEPT ![w] = "raised"]
  /\ UNCHANGED persisted

Cancel(w) ==
  /\ state[w] = "open"
  /\ state' = [state EXCEPT ![w] = "cancelled"]
  /\ UNCHANGED persisted

(* The process dies: nobody learns how the open writes end.                *)
Crash ==
  /\ state' = [w \in Writes |-> IF state[w] = "open" THEN "lost" ELSE state[w]]
  /\ UNCHANGED persisted

Next ==
  \/ \E w \in Writes : Begin(w) \/ Persist(w) \/ Return(w) \/ Raise(w) \/ Cancel(w)
  \/ Crash

Spec == Init /\ [][Next]_vars
=============================================================================
