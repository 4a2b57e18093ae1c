--------------------------- MODULE MCBroadcastHub ---------------------------
(***************************************************************************)
(* Instances of BroadcastHub.                                              *)
(***************************************************************************)
EXTENDS BroadcastHub, TLC

Interchangeable == Permutations(Handlers)
=============================================================================
