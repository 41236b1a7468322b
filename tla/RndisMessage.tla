---------------------------- MODULE RndisMessage ----------------------------
(***************************************************************************)
(* The RNDIS data message and how a frame is found in it.  A message is    *)
(* its length and the two fields of its rndis_packet that the code reads,  *)
(* with the place where its frame really lies.  Places are in bytes from   *)
(* the start of the message; the field DataOffset counts from the end of   *)
(* the 8-byte header.                                                      *)
(***************************************************************************)
EXTENDS Naturals, FiniteSetsExt

RNDIS_HEADER_SIZE == 8
PacketStructSize == 36    \* size_of::<rndis_packet>()
RNDIS_PACKET_HDR_SIZE == PacketStructSize + RNDIS_HEADER_SIZE
RX_FRAME_MAX == 1600

(* A message of the host, external: per-packet information, such as a VLAN *)
(* tag, may lie between the rndis_packet and the frame.                    *)
PacketMessage(ppi, len) ==
  [data_offset |-> PacketStructSize + ppi, data_len |-> len,
   at |-> RNDIS_PACKET_HDR_SIZE + ppi, bytes |-> RNDIS_PACKET_HDR_SIZE + ppi + len]

(* The frame itself, and a piece of a message that is none *)
FrameOf(m) == [from |-> m.at, len |-> m.data_len]
NoPiece == [from |-> 0, len |-> 0]

(* What parse_xfer_page_packet copies of it: as much as a PendingRx holds *)
CopyLen(m) == Min({m.bytes, RX_FRAME_MAX})

Mutant_extract_eth_frame(m, rndis_len) ==
  LET frame_start == m.data_offset
  IN IF frame_start + m.data_len <= rndis_len /\ m.data_len <= RX_FRAME_MAX
       THEN [from |-> frame_start, len |-> m.data_len] ELSE NoPiece

(* extract_eth_frame: the piece of the first rndis_len bytes that the two  *)
(* fields announce, if it lies within them                                 *)
extract_eth_frame(m, rndis_len) ==
  LET frame_start == RNDIS_HEADER_SIZE + m.data_offset
  IN IF /\ rndis_len >= RNDIS_PACKET_HDR_SIZE
        /\ frame_start + m.data_len <= rndis_len /\ m.data_len <= RX_FRAME_MAX
       THEN [from |-> frame_start, len |-> m.data_len] ELSE NoPiece
=============================================================================
