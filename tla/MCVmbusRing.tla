---------------------------- MODULE MCVmbusRing ----------------------------
(* A ring of 13 words.  Packets take 3 to 12 words, so that up to three    *)
(* fit, later ones wrap in their header, payload or trailer, and a packet  *)
(* that leaves exactly one word, or none, is offered.  Transfer-page       *)
(* packets have the longest header that the scratch buffer of recv_packet  *)
(* holds (7 ranges) and the shortest that it does not (8).                 *)
EXTENDS VmbusRing

MCPayloadLens == {0, 9}
MCXferRanges == {7, 8}
=============================================================================
