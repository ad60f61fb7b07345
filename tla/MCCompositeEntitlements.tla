----------------------- MODULE MCCompositeEntitlements -----------------------
(***************************************************************************)
(* A small instance of CompositeEntitlements: a tier provider whose        *)
(* tier_for may raise, a stub that knows nobody, a remote provider, and a  *)
(* cached one whose source stops granting a feature while the clock runs.  *)
(***************************************************************************)
EXTENDS CompositeEntitlements, TLC

CONSTANTS c1, c2, alice, tier, null, stub, remote, cached, export, share

MCComposites == {{}, {null}, {tier, stub, cached}, {remote, cached}}

MCHolds ==
  tier :> TierTable([k \in Keys |-> "pro"], "pro" :> {export})
    @@ null :> NullTable
    @@ stub :> NullTable
    @@ remote :> (alice :> {export})

MCGrants ==
  [k \in Keys |-> [time \in 0 .. MaxTime |-> IF time = 0 THEN {share} ELSE {}]]
=============================================================================
