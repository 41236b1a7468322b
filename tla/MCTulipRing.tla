---------------------------- MODULE MCTulipRing ----------------------------
(* TulipRing on rings of a few descriptors, small enough to wrap twice. *)
EXTENDS TulipRing
=============================================================================
