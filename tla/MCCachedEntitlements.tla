------------------------ MODULE MCCachedEntitlements ------------------------
(***************************************************************************)
(* Small instances of CachedEntitlements.                                  *)
(***************************************************************************)
EXTENDS CachedEntitlements
=============================================================================
