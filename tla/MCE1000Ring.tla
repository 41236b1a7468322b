---------------------------- MODULE MCE1000Ring ----------------------------
(* E1000Ring on rings of a few descriptors, small enough to wrap twice. *)
EXTENDS E1000Ring
=============================================================================
