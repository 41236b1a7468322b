--------------------------- MODULE MCSynicMessage ---------------------------
(* Instances of SynicMessage: messages are numbered 1..MaxMessages. *)
EXTENDS SynicMessage
=============================================================================
