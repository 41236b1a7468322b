-------------------------- MODULE MCNetvscDataPath --------------------------
(* Constants of the NetVSC data-path runs *)
EXTENDS NetvscDataPath

TwoSlots == {1, 2}
ThreeSlots == {1, 2, 3}
Frames == [kind : {"frame", "status"}, ranges : {<<1>>, <<2>>}]

(* Single ranges, a range with another behind it, and with RawRanges = 2 a *)
(* packet of more ranges than `raw` holds                                  *)
AllMessages ==
  [kind : {"frame", "long", "keepalive"}, ranges : {<<1>>, <<2>>, <<1, 2>>}]
  \cup [kind : {"frame", "keepalive"}, ranges : {<<1, 2, 3>>}]
  \cup [kind : {"outside"}, ranges : {<<1, 2>>}]
=============================================================================
