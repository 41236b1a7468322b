---------------------------- MODULE MCNetvscInit ----------------------------
(* NetvscInit with a host that has no subchannels and one that has. *)
EXTENDS NetvscInit
=============================================================================
