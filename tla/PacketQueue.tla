---------------------------- MODULE PacketQueue ----------------------------
(***************************************************************************)
(* What one direction of a VMBus channel promises its two ends: a FIFO of  *)
(* packets.  A packet is put in whole, and taken out once, in order; the   *)
(* receiver gets the part of it that its receive operation selects.        *)
(* VmbusRing is shown to implement this specification.                     *)
(***************************************************************************)
EXTENDS Sequences

CONSTANTS Packet,           \* the packets a sender may put in
          Delivered(_, _)   \* Delivered(p, raw): what a receive hands over

VARIABLES queue,            \* packets put in and not yet taken out
          received          \* what the receiver was handed, in order

vars == <<queue, received>>

Init == queue = << >> /\ received = << >>

(* The packet put in is the last one of the new queue *)
Put ==
  /\ queue' # << >>
  /\ LET p == queue'[Len(queue')]
     IN p \in Packet /\ queue' = Append(queue, p)
  /\ UNCHANGED received

Take(raw) ==
  /\ queue # << >>
  /\ queue' = Tail(queue)
  /\ received' = Append(received, Delivered(Head(queue), raw))

Next == Put \/ (\E raw \in BOOLEAN : Take(raw))

Spec == Init /\ [][Next]_vars
=============================================================================
