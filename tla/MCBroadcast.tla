---------------------------- MODULE MCBroadcast -----------------------------
(***************************************************************************)
(* Broadcast on its own, with publishers that may publish any policy.      *)
(***************************************************************************)
EXTENDS Broadcast

FairSpec == BSpec /\ BFairness
=============================================================================
