---------------------------- MODULE MCCRDSource -----------------------------
(***************************************************************************)
(* Instances of CRDSource: both kinds changing, or one of them.            *)
(***************************************************************************)
EXTENDS CRDSource

MCValues == (0..MaxVersion) \X (0..MaxVersion)
MCFirst == <<0, 0>>
=============================================================================
