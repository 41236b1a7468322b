------------------------ MODULE NetvscDataPath_proof ------------------------
(***************************************************************************)
(* The NetVSC data path for any number of slots, ranges, packets and       *)
(* frames, and rings of any size: slots come back once and not before they *)
(* were copied, frames reach the stack in order and whole, section 0 is    *)
(* not overwritten but after a keepalive reply, and a token is never       *)
(* handed out in vain.                                                     *)
(*                                                                         *)
(* The inductive invariant is the conjunction of five parts, each kept by  *)
(* every step given the others: TypeOK, Control (the task and pump_channel *)
(* hand over to each other), Slotted (who has a slot, and what is in it),  *)
(* Ordered (message numbers along the path) and Sectioned (what is in      *)
(* flight from section 0).  KeptOnTheWay follows the contents of a slot.   *)
(***************************************************************************)
EXTENDS NetvscDataPath, TLAPS

Pumping == {"parse", "complete", "dispatch"}

(* The task is in a readiness predicate while pump_channel runs, and holds *)
(* a token only with a frame and a free section behind it.                 *)
Control ==
  /\ pump_pc # "off" => pc \in {"has_rx_packet", "receive_tx_ready", "has_tx_space"}
  /\ pc \in {"receive_tx_ready", "rx_token"} => pending_rx # None
  /\ pc \in {"rx_token", "tx_token"} => send_section_free
  /\ pc # "tx_recheck"
  /\ pump_pc \in Pumping => pending_rx = None

(* A transfer-page packet has a first range, where the message it          *)
(* announces lies until it is copied.                                      *)
Announces(p) ==
  p.type = "xfer" /\ p.ranges # << >> /\ recv_buf[Head(p.ranges)].n = p.n

Slotted ==
  /\ SlotAccounted
  /\ \A i \in 1 .. Len(rx_ring) : Announces(rx_ring[i]) \/ rx_ring[i].ranges = << >>
  /\ \A i \in 1 .. Len(rx_ring) : rx_ring[i].type = "xfer" => Announces(rx_ring[i])
  /\ pump_pc \in Pumping => pump_desc.type = "xfer" /\ pump_desc.ranges # << >>
  /\ pump_pc = "parse" => Announces(pump_desc)
  /\ CopiedBeforeReturned

(* The numbers of the messages on their way, from the stack back to the    *)
(* host, ascend.                                                           *)
Before(n) ==
  /\ \A i \in 1 .. Len(delivered) : delivered[i].n < n
  /\ pending_rx # None => pending_rx.n < n

Ordered ==
  /\ DeliveredInOrder
  /\ pending_rx # None => \A i \in 1 .. Len(delivered) : delivered[i].n < pending_rx.n
  /\ pump_pc \in Pumping => Before(pump_desc.n) /\ pump_desc.n <= xfers
  /\ \A i \in 1 .. Len(rx_ring) : rx_ring[i].type = "xfer" =>
       /\ Before(rx_ring[i].n) /\ rx_ring[i].n <= xfers
       /\ pump_pc \in Pumping => pump_desc.n < rx_ring[i].n
       /\ \A j \in 1 .. Len(rx_ring) :
            i < j /\ rx_ring[j].type = "xfer" => rx_ring[i].n < rx_ring[j].n
  /\ Before(xfers + 1)

(* Where the contents of slot s are, until the stack has them *)
OnTheWay(s) ==
  \/ \E i \in 1 .. Len(rx_ring) : s \in Range(rx_ring[i].ranges)
  \/ pump_pc = "parse" /\ s \in Range(pump_desc.ranges)
  \/ pump_pc \in {"complete", "dispatch"} /\ s \in Range(pump_desc.ranges)
     /\ pump_data = recv_buf[s]
  \/ pending_rx = Whole(s)
  \/ \E i \in 1 .. Len(delivered) : delivered[i] = Whole(s)

KeptOnTheWay == \A s \in Slots \ (lost \cup unread) : Fits(s) => OnTheWay(s)

Posted(i) == tx_ring[i].type = "rndis"
Done(i) == rx_ring[i].type = "comp"

(* Without an overlap at most one message is in flight, and it is what     *)
(* section 0 holds.                                                        *)
OneInFlight ==
  /\ \A i, j \in 1 .. Len(tx_ring) : Posted(i) /\ Posted(j) => i = j
  /\ \A i, j \in 1 .. Len(rx_ring) : Done(i) /\ Done(j) => i = j
  /\ \A i \in 1 .. Len(tx_ring), j \in 1 .. Len(rx_ring) : ~(Posted(i) /\ Done(j))
  /\ \A i \in 1 .. Len(tx_ring) : Posted(i) => tx_ring[i].posted = send_buf
  /\ pc = "post" => ~InFlight /\ send_buf = [kind |-> "tx", n |-> txs]

Replied ==
  \/ \E i \in 1 .. Len(wire) : wire[i].posted.kind = "reply"
  \/ \E i \in 1 .. Len(tx_ring) : tx_ring[i].posted.kind = "reply"

Sectioned ==
  /\ ~overlap => OneInFlight
  /\ \A i \in 1 .. Len(tx_ring) : ~Posted(i) => tx_ring[i].posted = None
  /\ SectionKept
  /\ ~Replied => ~overlap /\ (send_section_free => ~InFlight)
-----------------------------------------------------------------------------
(* Sequences: their elements and lengths *)
LEMMA SeqType ==
  ASSUME NEW S, NEW q \in Seq(S)
  PROVE  /\ Len(q) \in Nat /\ DOMAIN q = 1 .. Len(q)
         /\ \A i \in 1 .. Len(q) : q[i] \in S
         /\ q # << >> => Len(q) # 0
OBVIOUS

(* A packet put into a ring is its last one, ... *)
LEMMA RingPut ==
  ASSUME NEW S, NEW q \in Seq(S), NEW x \in S
  PROVE  /\ Len(q) \in Nat /\ Append(q, x) \in Seq(S) /\ Len(Append(q, x)) = Len(q) + 1
         /\ Append(q, x)[Len(q) + 1] = x
         /\ \A i \in 1 .. Len(q) : Append(q, x)[i] = q[i]
OBVIOUS

(* ... and one taken out is the first. *)
LEMMA RingTake ==
  ASSUME NEW S, NEW q \in Seq(S), q # << >>
  PROVE  /\ Len(q) \in Nat \ {0} /\ Head(q) \in S /\ q[1] = Head(q)
         /\ Tail(q) \in Seq(S) /\ Len(Tail(q)) = Len(q) - 1
         /\ \A i \in 1 .. Len(q) - 1 : Tail(q)[i] = q[i + 1]
<1>1. Len(q) \in Nat \ {0}
  BY SeqType
<1> QED BY <1>1

(* The ranges of a packet are a sequence of slots, ... *)
LEMMA RangesType ==
  ASSUME NEW r \in Ranges
  PROVE  /\ r \in Seq(Slots) /\ DOMAIN r = 1 .. Len(r)
         /\ Range(r) \subseteq Slots
         /\ r # << >> => /\ 1 \in DOMAIN r /\ r[1] = Head(r) /\ Head(r) \in Slots
                         /\ Head(r) \in Range(r)
                         /\ Range(Tail(r)) \subseteq Slots
                         /\ \A s \in Range(r) : s = Head(r) \/ s \in Range(Tail(r))
<1>1. PICK m \in 0 .. MaxRanges : r \in [1 .. m -> Slots]
  BY DEF Ranges
<1>2. r \in Seq(Slots) /\ Len(r) \in Nat /\ DOMAIN r = 1 .. Len(r)
  BY <1>1, BoundsAssumption
<1>3. Range(r) \subseteq Slots
  BY <1>1 DEF Range
<1>4. ASSUME r # << >>
      PROVE  /\ 1 \in DOMAIN r /\ r[1] = Head(r) /\ Head(r) \in Slots
             /\ Head(r) \in Range(r)
             /\ Range(Tail(r)) \subseteq Slots
             /\ \A s \in Range(r) : s = Head(r) \/ s \in Range(Tail(r))
  <2>1. Len(r) >= 1 /\ 1 \in DOMAIN r /\ r[1] = Head(r)
    BY <1>2, <1>4, SeqType
  <2>2. Head(r) \in Slots /\ Head(r) \in Range(r)
    BY <1>1, <2>1 DEF Range
  <2>3. /\ Tail(r) \in Seq(Slots) /\ Len(Tail(r)) = Len(r) - 1
        /\ \A i \in 1 .. Len(Tail(r)) : Tail(r)[i] = r[i + 1]
    BY <1>2, <1>4, RingTake
  <2>4. DOMAIN Tail(r) = 1 .. Len(Tail(r))
    BY <2>3, SeqType
  <2>5. Range(Tail(r)) \subseteq Slots
    BY <2>3, <2>4, SeqType DEF Range
  <2>6. ASSUME NEW s \in Range(r) PROVE s = Head(r) \/ s \in Range(Tail(r))
    <3>1. PICK i \in 1 .. Len(r) : s = r[i]
      BY <1>2 DEF Range
    <3>2. CASE i = 1
      BY <2>1, <3>1, <3>2
    <3>3. CASE i # 1
      <4>1. i - 1 \in 1 .. Len(Tail(r)) /\ i - 1 + 1 = i
        BY <1>2, <2>3, <3>1, <3>3
      <4>2. Tail(r)[i - 1] = s
        BY <2>3, <3>1, <4>1
      <4> QED BY <2>4, <4>1, <4>2, Zenon DEF Range
    <3> QED BY <3>2, <3>3
  <2> QED BY <2>1, <2>2, <2>5, <2>6
<1> QED BY <1>2, <1>3, <1>4

(* ... and a packet may have none. *)
LEMMA NoRanges == << >> \in Ranges /\ Range(<< >>) = {}
<1>1. << >> \in [1 .. 0 -> Slots] /\ 0 \in 0 .. MaxRanges
  BY BoundsAssumption
<1>2. << >> \in Ranges
  BY <1>1 DEF Ranges
<1> QED BY <1>2 DEF Range

(* The packets that are put into the two rings *)
LEMMA MessageTypes ==
  /\ \A r \in Ranges, n \in Nat : XferPages(r, n) \in RxMessage
  /\ InBand \in RxMessage /\ TxComplete \in RxMessage
  /\ \A r \in Ranges : Completion(r) \in TxMessage
  /\ \A c \in Content : RndisPkt(c) \in TxMessage
  /\ None \in Content
BY NoRanges DEF XferPages, InBand, TxComplete, Completion, RndisPkt, RxMessage, TxMessage,
   None, Content, Kinds

(* A frame in pending_rx is not an empty pending_rx. *)
LEMMA PieceIsSome ==
  ASSUME NEW c, NEW piece
  PROVE  Piece(c, piece) # None
<1>1. "frame" \in DOMAIN Piece(c, piece) /\ "frame" \notin DOMAIN None
  BY DEF Piece, None
<1> QED BY <1>1

(* What extract_eth_frame returns is a piece of a message, and the whole   *)
(* frame of a message that fits into a PendingRx.                          *)
LEMMA ExtractedPiece ==
  /\ Extracted \in [from : Nat, len : Nat]
  /\ pump_data.kind = "frame" => Extracted = FrameOf(Packets["frame"]) /\ Extracted # NoPiece
<1>1. /\ RNDIS_PACKET_HDR_SIZE = 44 /\ RX_FRAME_MAX = 1600 /\ RNDIS_HEADER_SIZE = 8
      /\ PacketStructSize = 36
  BY DEF RNDIS_PACKET_HDR_SIZE, RX_FRAME_MAX, RNDIS_HEADER_SIZE, PacketStructSize
<1>2. /\ PacketMessage(32, 1524) = [data_offset |-> 68, data_len |-> 1524, at |-> 76, bytes |-> 1600]
      /\ PacketMessage(0, 1557) = [data_offset |-> 36, data_len |-> 1557, at |-> 44, bytes |-> 1601]
  BY <1>1 DEF PacketMessage
<1>3. /\ DOMAIN Packets = {"frame", "long"}
      /\ Packets["frame"] = [data_offset |-> 68, data_len |-> 1524, at |-> 76, bytes |-> 1600]
      /\ Packets["long"] = [data_offset |-> 36, data_len |-> 1557, at |-> 44, bytes |-> 1601]
  BY <1>1, <1>2 DEF Packets
<1>4. \A m \in {Packets["frame"], Packets["long"]} : \A n :
        extract_eth_frame(m, n) \in [from : Nat, len : Nat]
  BY <1>1, <1>3 DEF extract_eth_frame, NoPiece
<1>5. Extracted \in [from : Nat, len : Nat]
  BY <1>3, <1>4 DEF Extracted, NoPiece
<1>6. CopyLen(Packets["frame"]) = 1600
  <2>1. CopyLen(Packets["frame"]) = Min({1600})
    BY <1>1, <1>3 DEF CopyLen
  <2>2. Min({1600}) = 1600
    BY DEF Min
  <2> QED BY <2>1, <2>2
<1>7. pump_data.kind = "frame" => Extracted = extract_eth_frame(Packets["frame"], 1600)
  BY <1>3, <1>6 DEF Extracted
<1>8. extract_eth_frame(Packets["frame"], 1600) = [from |-> 76, len |-> 1524]
  BY <1>1, <1>3 DEF extract_eth_frame
<1>9. FrameOf(Packets["frame"]) = [from |-> 76, len |-> 1524]
  BY <1>3 DEF FrameOf
<1>10. [from |-> 76, len |-> 1524] # NoPiece
  BY DEF NoPiece
<1> QED BY <1>5, <1>7, <1>8, <1>9, <1>10
-----------------------------------------------------------------------------
(* A packet that pump_channel takes off the ring *)
LEMMA TakeRx ==
  ASSUME TypeOK, rx_ring # << >>, rx_ring' = Tail(rx_ring)
  PROVE  /\ Head(rx_ring) \in RxMessage /\ Head(rx_ring).ranges \in Ranges
         /\ rx_ring' \in Seq(RxMessage) /\ Len(rx_ring') <= RingCap
         /\ Len(rx_ring) \in Nat \ {0} /\ Len(rx_ring') = Len(rx_ring) - 1
         /\ rx_ring[1] = Head(rx_ring)
         /\ \A i \in 1 .. Len(rx_ring') :
              rx_ring'[i] = rx_ring[i + 1] /\ i + 1 \in 1 .. Len(rx_ring)
<1>1. /\ Len(rx_ring) \in Nat \ {0} /\ Head(rx_ring) \in RxMessage
      /\ rx_ring[1] = Head(rx_ring)
      /\ rx_ring' \in Seq(RxMessage) /\ Len(rx_ring') = Len(rx_ring) - 1
      /\ \A i \in 1 .. Len(rx_ring) - 1 : rx_ring'[i] = rx_ring[i + 1]
  BY RingTake DEF TypeOK
<1>2. Head(rx_ring).ranges \in Ranges
  BY <1>1 DEF RxMessage
<1>3. Len(rx_ring) <= RingCap /\ RingCap \in Nat
  BY BoundsAssumption DEF TypeOK
<1> QED BY <1>1, <1>2, <1>3

(* A packet that the host puts into it *)
LEMMA PutRx ==
  ASSUME TypeOK, NEW m \in RxMessage, Len(rx_ring) < RingCap, rx_ring' = Append(rx_ring, m)
  PROVE  /\ rx_ring' \in Seq(RxMessage) /\ Len(rx_ring') <= RingCap
         /\ Len(rx_ring) \in Nat /\ Len(rx_ring') = Len(rx_ring) + 1
         /\ rx_ring'[Len(rx_ring) + 1] = m
         /\ \A i \in 1 .. Len(rx_ring) : rx_ring'[i] = rx_ring[i]
<1>1. /\ rx_ring' \in Seq(RxMessage) /\ Len(rx_ring) \in Nat
      /\ Len(rx_ring') = Len(rx_ring) + 1
      /\ rx_ring'[Len(rx_ring) + 1] = m
      /\ \A i \in 1 .. Len(rx_ring) : rx_ring'[i] = rx_ring[i]
  BY RingPut DEF TypeOK
<1> QED BY <1>1, BoundsAssumption

(* The same for what the guest sends *)
LEMMA TakeTx ==
  ASSUME TypeOK, tx_ring # << >>, tx_ring' = Tail(tx_ring)
  PROVE  /\ Head(tx_ring) \in TxMessage /\ Head(tx_ring).ranges \in Ranges
         /\ Head(tx_ring).posted \in Content
         /\ tx_ring' \in Seq(TxMessage) /\ Len(tx_ring') <= RingCap
         /\ Len(tx_ring) \in Nat \ {0} /\ Len(tx_ring') = Len(tx_ring) - 1
         /\ tx_ring[1] = Head(tx_ring)
         /\ \A i \in 1 .. Len(tx_ring') :
              tx_ring'[i] = tx_ring[i + 1] /\ i + 1 \in 1 .. Len(tx_ring)
<1>1. /\ Len(tx_ring) \in Nat \ {0} /\ Head(tx_ring) \in TxMessage
      /\ tx_ring[1] = Head(tx_ring)
      /\ tx_ring' \in Seq(TxMessage) /\ Len(tx_ring') = Len(tx_ring) - 1
      /\ \A i \in 1 .. Len(tx_ring) - 1 : tx_ring'[i] = tx_ring[i + 1]
  BY RingTake DEF TypeOK
<1>2. Head(tx_ring).ranges \in Ranges /\ Head(tx_ring).posted \in Content
  BY <1>1 DEF TxMessage
<1>3. Len(tx_ring) <= RingCap /\ RingCap \in Nat
  BY BoundsAssumption DEF TypeOK
<1> QED BY <1>1, <1>2, <1>3

(* ... as it puts a packet into its ring *)
LEMMA PutTx ==
  ASSUME TypeOK, NEW m \in TxMessage, RoomToSend, tx_ring' = Append(tx_ring, m)
  PROVE  /\ tx_ring' \in Seq(TxMessage) /\ Len(tx_ring') <= RingCap
         /\ Len(tx_ring) \in Nat /\ Len(tx_ring') = Len(tx_ring) + 1
         /\ tx_ring'[Len(tx_ring) + 1] = m
         /\ \A i \in 1 .. Len(tx_ring) : tx_ring'[i] = tx_ring[i]
<1>1. /\ tx_ring' \in Seq(TxMessage) /\ Len(tx_ring) \in Nat
      /\ Len(tx_ring') = Len(tx_ring) + 1
      /\ tx_ring'[Len(tx_ring) + 1] = m
      /\ \A i \in 1 .. Len(tx_ring) : tx_ring'[i] = tx_ring[i]
  BY RingPut DEF TypeOK
<1> QED BY <1>1, BoundsAssumption DEF RoomToSend

(* The steps of the network task keep the types. *)
LEMMA TaskType ==
  ASSUME TypeOK, Task
  PROVE  TypeOK'
<1> USE DEF TypeOK, deviceVars, pumpVars, hostVars, history, CallPump
<1>1. CASE receive
  BY <1>1 DEF receive
<1>2. CASE transmit
  BY <1>2 DEF transmit
<1>3. CASE has_rx_packet
  BY <1>3 DEF has_rx_packet
<1>4. CASE has_tx_space
  BY <1>4 DEF has_tx_space
<1>5. CASE recv_with
  <2>1. CASE pending_rx = None
    BY <1>5, <2>1 DEF recv_with
  <2>2. CASE pending_rx # None
    <3>1. pending_rx \in PendingRx
      BY <2>2
    <3>2. Append(delivered, pending_rx) \in Seq(PendingRx)
      BY <3>1, RingPut
    <3> QED BY <1>5, <2>2, <3>2, Zenon DEF recv_with
  <2> QED BY <2>1, <2>2
<1>6. CASE DropTxToken
  BY <1>6 DEF DropTxToken
<1>7. CASE transmit_with
  <2>1. [kind |-> "tx", n |-> txs + 1] \in Content /\ txs + 1 \in Nat
    BY DEF Content
  <2>2. send_buf' \in Content /\ txs' \in Nat
    BY <1>7, <2>1 DEF transmit_with
  <2>3. overlap' \in BOOLEAN
    <3>1. overlap' = overlap \/ overlap' = (overlap \/ InFlight)
      BY <1>7 DEF transmit_with, Overlap
    <3> QED BY <3>1, Zenon
  <2>4. pc' \in {"post", "tx_recheck", "panic"} /\ pump_pc' \in {pump_pc, "loop"}
    BY <1>7 DEF transmit_with
  <2>5. UNCHANGED <<rx_ring, tx_ring, send_section_free, pending_rx, pump_desc,
                    pump_data, hostVars, delivered, lost, unread, forgotten, stuck>>
    BY <1>7 DEF transmit_with
  <2> QED BY <2>2, <2>3, <2>4, <2>5
<1>8. CASE transmit_post
  <2>1. [kind |-> "tx", n |-> txs] \in Content
    BY DEF Content
  <2>2. CASE RoomToSend
    <3>1. RndisPkt([kind |-> "tx", n |-> txs]) \in TxMessage
      BY <2>1, MessageTypes
    <3>2. tx_ring' \in Seq(TxMessage) /\ Len(tx_ring') <= RingCap
      <4>1. tx_ring' = Append(tx_ring, RndisPkt([kind |-> "tx", n |-> txs]))
        BY <1>8, <2>2 DEF transmit_post
      <4> QED BY <2>2, <3>1, <4>1, PutTx
    <3>3. /\ pc' = "idle" /\ send_section_free' = FALSE
          /\ UNCHANGED <<rx_ring, send_buf, pending_rx, pumpVars, hostVars, txs,
                         delivered, history>>
      BY <1>8, <2>2 DEF transmit_post
    <3> QED BY <3>2, <3>3, Zenon
  <2>3. CASE ~RoomToSend
    BY <1>8, <2>3, ZenonT(30) DEF transmit_post
  <2> QED BY <2>2, <2>3
<1> QED BY <1>1, <1>2, <1>3, <1>4, <1>5, <1>6, <1>7, <1>8 DEF Task, Call

(* ... as do the steps of pump_channel, ... *)
LEMMA PumpType ==
  ASSUME TypeOK, Pump, pump_pc = "parse" => pump_desc.ranges # << >>
  PROVE  TypeOK'
<1> USE DEF TypeOK, deviceVars, pumpVars, hostVars, history, PumpReturn
<1>1. CASE PumpEmpty
  BY <1>1 DEF PumpEmpty
<1>2. CASE PumpSlotFull
  <2>1. /\ rx_ring' \in Seq(RxMessage) /\ Len(rx_ring') <= RingCap
        /\ Head(rx_ring).ranges \in Ranges
    BY <1>2, TakeRx DEF PumpSlotFull
  <2>2. lost' \subseteq Slots
    BY <1>2, <2>1, RangesType DEF PumpSlotFull
  <2> QED BY <1>2, <2>1, <2>2 DEF PumpSlotFull
<1>3. CASE PumpXfer
  <2>1. /\ rx_ring' \in Seq(RxMessage) /\ Len(rx_ring') <= RingCap
        /\ Head(rx_ring) \in RxMessage
    BY <1>3, TakeRx DEF PumpXfer
  <2> QED BY <1>3, <2>1 DEF PumpXfer
<1>4. CASE PumpTxComplete
  <2>1. rx_ring' \in Seq(RxMessage) /\ Len(rx_ring') <= RingCap
    BY <1>4, TakeRx DEF PumpTxComplete
  <2> QED BY <1>4, <2>1 DEF PumpTxComplete
<1>5. CASE PumpInBand
  <2>1. rx_ring' \in Seq(RxMessage) /\ Len(rx_ring') <= RingCap
    BY <1>5, TakeRx DEF PumpInBand
  <2> QED BY <1>5, <2>1 DEF PumpInBand
<1>6. CASE parse_xfer_page_packet
  <2>1. pump_desc.ranges \in Ranges /\ pump_desc.ranges # << >>
    BY <1>6 DEF RxMessage, parse_xfer_page_packet
  <2>2. /\ Head(pump_desc.ranges) \in Slots /\ Range(Tail(pump_desc.ranges)) \subseteq Slots
        /\ Range(pump_desc.ranges) \subseteq Slots
    BY <1>6, <2>1, RangesType
  <2>3. pump_data' \in Content /\ unread' \subseteq Slots
    BY <1>6, <2>2, MessageTypes DEF parse_xfer_page_packet
  <2> QED BY <1>6, <2>3 DEF parse_xfer_page_packet
<1>7. CASE send_completion
  <2>1. pump_desc.ranges \in Ranges
    BY DEF RxMessage
  <2>2. CASE RoomToSend
    <3>1. Completion(pump_desc.ranges) \in TxMessage
      BY <2>1, MessageTypes
    <3>2. tx_ring' \in Seq(TxMessage) /\ Len(tx_ring') <= RingCap
      BY <1>7, <2>2, <3>1, PutTx DEF send_completion
    <3> QED BY <1>7, <2>2, <3>2 DEF send_completion
  <2>3. CASE ~RoomToSend
    <3>1. Range(pump_desc.ranges) \subseteq Slots
      BY <2>1, RangesType
    <3> QED BY <1>7, <2>3, <3>1 DEF send_completion
  <2> QED BY <2>2, <2>3
<1>8. CASE PumpFrame
  <2>1. Piece(pump_data, Extracted) \in PendingRx
    BY ExtractedPiece DEF Piece, PendingRx, Content, Kinds
  <2> QED BY <1>8, <2>1 DEF PumpFrame
<1>9. CASE send_rndis_control_inner
  <2> DEFINE reply == [kind |-> "reply", n |-> pump_data.n]
             sent == send_section_free /\ RoomToSend
  <2>1. reply \in Content /\ pump_data.n \in Nat
    BY DEF Content
  <2>2. RndisPkt(reply) \in TxMessage
    BY <2>1, MessageTypes
  <2>3. /\ send_buf' \in {send_buf, reply}
        /\ overlap' = overlap \/ overlap' = (overlap \/ InFlight)
        /\ tx_ring' = IF sent THEN Append(tx_ring, RndisPkt(reply)) ELSE tx_ring
        /\ forgotten' = IF sent THEN forgotten ELSE forgotten \cup {pump_data.n}
        /\ pump_pc' = "loop"
        /\ UNCHANGED <<rx_ring, send_section_free, pending_rx, pc, pump_desc,
                 pump_data, hostVars, txs, delivered, lost, unread, stuck>>
    BY <1>9 DEF send_rndis_control_inner, Overlap
  <2>4. overlap' \in BOOLEAN
    BY <2>3, Zenon
  <2>5. tx_ring' \in Seq(TxMessage) /\ Len(tx_ring') <= RingCap
    <3> HIDE DEF reply
    <3>1. CASE sent
      BY <2>2, <2>3, <3>1, PutTx
    <3>2. CASE ~sent
      BY <2>3, <3>2
    <3> QED BY <3>1, <3>2
  <2>6. send_buf' \in Content /\ forgotten' \subseteq Nat
    BY <2>1, <2>3
  <2> HIDE DEF reply, sent
  <2> QED BY <2>3, <2>4, <2>5, <2>6
<1>10. CASE PumpOther
  BY <1>10 DEF PumpOther
<1> QED BY <1>1, <1>2, <1>3, <1>4, <1>5, <1>6, <1>7, <1>8, <1>9, <1>10 DEF Pump

(* A packet of the host has a kind and ranges. *)
LEMMA HostCases ==
  ASSUME Host
  PROVE  \/ \E kind \in Kinds, ranges \in Ranges : HostXfer(kind, ranges)
         \/ HostInBand \/ HostTakesBack \/ HostTransmits
<1>1. ASSUME NEW m \in Messages, HostXfer(m.kind, m.ranges)
      PROVE  \E kind \in Kinds, ranges \in Ranges : HostXfer(kind, ranges)
  <2>1. m.kind \in Kinds /\ m.ranges \in Ranges
    BY MessagesAssumption
  <2> QED BY <1>1, <2>1, Zenon
<1> QED BY <1>1 DEF Host

(* ... and those of the host. *)
LEMMA HostType ==
  ASSUME TypeOK, Host
  PROVE  TypeOK'
<1> USE DEF TypeOK, deviceVars, pumpVars, hostVars, history
<1>1. ASSUME NEW kind \in Kinds, NEW ranges \in Ranges, HostXfer(kind, ranges)
      PROVE  TypeOK'
  <2>1. Range(ranges) \subseteq Slots /\ DOMAIN ranges = 1 .. Len(ranges)
        /\ Len(ranges) \in Nat
    BY RangesType
  <2>2. xfers' \in Nat /\ xfers + 1 \in Nat /\ xfers' = xfers + Len(ranges)
    BY <1>1, <2>1 DEF HostXfer
  <2>3. recv_buf' \in [Slots -> Content]
    <3> DEFINE pos(s) == CHOOSE i \in DOMAIN ranges : ranges[i] = s
               new(s) == [kind |-> IF pos(s) = 1 THEN kind ELSE "frame", n |-> xfers + pos(s)]
    <3>1. recv_buf' = [s \in Slots |->
                         IF s \notin Range(ranges) THEN recv_buf[s] ELSE new(s)]
      BY <1>1 DEF HostXfer
    <3>2. ASSUME NEW s \in Range(ranges) PROVE new(s) \in Content
      <4>1. pos(s) \in 1 .. Len(ranges)
        BY <2>1 DEF Range
      <4>2. xfers + pos(s) \in Nat
        BY <2>1, <4>1
      <4>3. DOMAIN Packets = {"frame", "long"}
        BY DEF Packets
      <4> HIDE DEF pos
      <4> QED BY <4>2, <4>3 DEF Content, Kinds
    <3> HIDE DEF new
    <3> QED BY <3>1, <3>2
  <2>4. XferPages(ranges, xfers + 1) \in RxMessage
    BY <2>2, MessageTypes
  <2>5. rx_ring' \in Seq(RxMessage) /\ Len(rx_ring') <= RingCap
    BY <1>1, <2>4, PutRx DEF HostXfer
  <2>6. host_free' \subseteq Slots /\ unread' \subseteq Slots
    BY <1>1 DEF HostXfer
  <2>7. UNCHANGED <<tx_ring, deviceVars, pc, pumpVars, txs, delivered, wire,
                 lost, forgotten, stuck, overlap>>
    BY <1>1 DEF HostXfer
  <2> QED BY <2>2, <2>3, <2>5, <2>6, <2>7
<1>2. CASE HostInBand
  <2>1. rx_ring' \in Seq(RxMessage) /\ Len(rx_ring') <= RingCap
    BY <1>2, MessageTypes, PutRx DEF HostInBand
  <2>2. xfers' \in Nat
    BY <1>2 DEF HostInBand
  <2> QED BY <1>2, <2>1, <2>2 DEF HostInBand
<1>3. CASE HostTakesBack
  <2>1. tx_ring' \in Seq(TxMessage) /\ Len(tx_ring') <= RingCap
        /\ Head(tx_ring).ranges \in Ranges
    BY <1>3, TakeTx DEF HostTakesBack
  <2>2. host_free' \subseteq Slots
    BY <1>3, <2>1, RangesType DEF HostTakesBack
  <2> QED BY <1>3, <2>1, <2>2 DEF HostTakesBack
<1>4. CASE HostTransmits
  <2>1. tx_ring' \in Seq(TxMessage) /\ Len(tx_ring') <= RingCap
        /\ Head(tx_ring).posted \in Content
    BY <1>4, TakeTx DEF HostTransmits
  <2>2. rx_ring' \in Seq(RxMessage) /\ Len(rx_ring') <= RingCap
    BY <1>4, MessageTypes, PutRx DEF HostTransmits
  <2>3. wire' \in Seq([posted : Content, read : Content])
    <3>1. [posted |-> Head(tx_ring).posted, read |-> send_buf]
            \in [posted : Content, read : Content]
      BY <2>1
    <3>2. wire' = Append(wire, [posted |-> Head(tx_ring).posted, read |-> send_buf])
      BY <1>4 DEF HostTransmits
    <3> QED BY <3>1, <3>2, RingPut
  <2>4. UNCHANGED <<deviceVars, pc, pumpVars, recv_buf, host_free, xfers, txs,
                 delivered, history>>
    BY <1>4 DEF HostTransmits
  <2> QED BY <2>1, <2>2, <2>3, <2>4
<1> QED BY <1>1, <1>2, <1>3, <1>4, HostCases
-----------------------------------------------------------------------------
(* Every step keeps Control, and the expects of NicNetvsc are reached by   *)
(* transmit_post alone, on a full ring.                                    *)
LEMMA ControlStep ==
  ASSUME TypeOK, Control, [Next]_vars
  PROVE  Control' /\ (pc # "panic" /\ pc' = "panic" => ~RoomToSend)
<1> USE DEF Control, Pumping, deviceVars, pumpVars, CallPump, PumpReturn
<1>1. CASE Task
  <2>1. CASE receive \/ transmit
    BY <2>1 DEF receive, transmit
  <2>2. CASE has_rx_packet
    BY <2>2 DEF has_rx_packet
  <2>3. CASE has_tx_space
    BY <2>3 DEF has_tx_space
  <2>4. CASE recv_with
    BY <2>4 DEF recv_with
  <2>5. CASE DropTxToken
    BY <2>5 DEF DropTxToken
  <2>6. CASE transmit_with
    <3>1. pc = "tx_token" /\ send_section_free
      BY <2>6 DEF transmit_with
    <3>2. pc' = "post" /\ UNCHANGED <<pump_pc, pending_rx, send_section_free>>
      BY <2>6, <3>1 DEF transmit_with
    <3> QED BY <3>1, <3>2
  <2>7. CASE transmit_post
    BY <2>7 DEF transmit_post
  <2> QED BY <1>1, <2>1, <2>2, <2>3, <2>4, <2>5, <2>6, <2>7 DEF Task, Call
<1>2. CASE Pump
  <2>1. UNCHANGED pc
    BY <1>2 DEF Pump, PumpEmpty, PumpSlotFull, PumpXfer, PumpTxComplete,
      PumpInBand, parse_xfer_page_packet, send_completion, PumpFrame,
      send_rndis_control_inner, PumpOther
  <2>2. CASE PumpEmpty \/ PumpSlotFull
    BY <2>1, <2>2 DEF PumpEmpty, PumpSlotFull
  <2>3. CASE PumpXfer \/ parse_xfer_page_packet \/ send_completion
    BY <2>1, <2>3 DEF PumpXfer, parse_xfer_page_packet, send_completion
  <2>4. CASE PumpTxComplete \/ PumpInBand
    BY <2>1, <2>4 DEF PumpTxComplete, PumpInBand
  <2>5. CASE PumpFrame \/ PumpOther
    BY <2>1, <2>5 DEF PumpFrame, PumpOther
  <2>6. CASE send_rndis_control_inner
    BY <2>1, <2>6 DEF send_rndis_control_inner
  <2> QED BY <1>2, <2>2, <2>3, <2>4, <2>5, <2>6 DEF Pump
<1>3. CASE Host \/ Halted \/ UNCHANGED vars
  <2>1. UNCHANGED <<pc, pump_pc, pending_rx, send_section_free>>
    BY <1>3 DEF Host, HostXfer, HostInBand, HostTakesBack, HostTransmits,
      Halted, vars
  <2> QED BY <2>1
<1> QED BY <1>1, <1>2, <1>3 DEF Next
-----------------------------------------------------------------------------
(* A step that leaves section 0 alone and puts no message in flight keeps  *)
(* Sectioned: what is in a ring afterwards was there before, up to dt or   *)
(* dr places further back, or says nothing about the section.              *)
LEMMA SectionUntouched ==
  ASSUME TypeOK, Sectioned, NEW dt \in 0 .. 1, NEW dr \in 0 .. 1,
         UNCHANGED <<send_buf, send_section_free, overlap, wire, txs>>,
         pc' = "post" => pc = "post",
         \A i \in 1 .. Len(tx_ring') :
           \/ i + dt \in 1 .. Len(tx_ring) /\ tx_ring'[i] = tx_ring[i + dt]
           \/ tx_ring'[i].type # "rndis" /\ tx_ring'[i].posted = None,
         \A i \in 1 .. Len(rx_ring') : rx_ring'[i].type = "comp" =>
           i + dr \in 1 .. Len(rx_ring) /\ rx_ring[i + dr].type = "comp",
         Replied => Replied'
  PROVE  Sectioned'
<1>1. ASSUME InFlight' PROVE InFlight
  <2>1. CASE \E i \in 1 .. Len(tx_ring') : tx_ring'[i].type = "rndis"
    BY <2>1 DEF InFlight
  <2>2. CASE \E i \in 1 .. Len(rx_ring') : rx_ring'[i].type = "comp"
    BY <2>2 DEF InFlight
  <2> QED BY <1>1, <2>1, <2>2 DEF InFlight
<1>2. ASSUME NEW i \in 1 .. Len(tx_ring'), tx_ring'[i].type = "rndis"
      PROVE  i + dt \in 1 .. Len(tx_ring) /\ tx_ring'[i] = tx_ring[i + dt]
  BY <1>2
<1>3. (~overlap => OneInFlight)'
  <2> SUFFICES ASSUME ~overlap, OneInFlight PROVE OneInFlight'
    BY DEF Sectioned
  <2>1. \A i, j \in 1 .. Len(tx_ring') :
          tx_ring'[i].type = "rndis" /\ tx_ring'[j].type = "rndis" => i = j
    <3> SUFFICES ASSUME NEW i \in 1 .. Len(tx_ring'), NEW j \in 1 .. Len(tx_ring'),
                        tx_ring'[i].type = "rndis", tx_ring'[j].type = "rndis"
                 PROVE  i = j
      OBVIOUS
    <3>1. i + dt = j + dt
      BY <1>2 DEF OneInFlight, Posted
    <3> QED BY <3>1
  <2>2. \A i, j \in 1 .. Len(rx_ring') :
          rx_ring'[i].type = "comp" /\ rx_ring'[j].type = "comp" => i = j
    <3> SUFFICES ASSUME NEW i \in 1 .. Len(rx_ring'), NEW j \in 1 .. Len(rx_ring'),
                        rx_ring'[i].type = "comp", rx_ring'[j].type = "comp"
                 PROVE  i = j
      OBVIOUS
    <3>1. i + dr = j + dr
      BY Zenon DEF OneInFlight, Done
    <3> QED BY <3>1
  <2>3. \A i \in 1 .. Len(tx_ring'), j \in 1 .. Len(rx_ring') :
          ~(tx_ring'[i].type = "rndis" /\ rx_ring'[j].type = "comp")
    BY <1>2 DEF OneInFlight, Posted, Done
  <2>4. \A i \in 1 .. Len(tx_ring') :
          tx_ring'[i].type = "rndis" => tx_ring'[i].posted = send_buf'
    BY <1>2 DEF OneInFlight, Posted
  <2>5. pc' = "post" => ~InFlight' /\ send_buf' = [kind |-> "tx", n |-> txs']
    BY <1>1 DEF OneInFlight
  <2> QED BY <2>1, <2>2, <2>3, <2>4, <2>5 DEF OneInFlight, Posted, Done
<1>4. \A i \in 1 .. Len(tx_ring') : tx_ring'[i].type # "rndis" => tx_ring'[i].posted = None
  BY DEF Sectioned, Posted
<1>5. None.kind = "none"
  BY DEF None
<1>6. SectionKept'
  <2>1. TransmitsWhatWasPosted'
    BY DEF Sectioned, SectionKept, TransmitsWhatWasPosted
  <2>2. FreeMeansIdle'
    BY <1>5 DEF Sectioned, SectionKept, FreeMeansIdle
  <2>3. OverlapNeedsReply'
    BY DEF Sectioned, SectionKept, OverlapNeedsReply, Replied
  <2> QED BY <2>1, <2>2, <2>3 DEF SectionKept
<1>7. (~Replied => ~overlap /\ (send_section_free => ~InFlight))'
  BY <1>1 DEF Sectioned
<1> QED BY <1>3, <1>4, <1>6, <1>7, SMTT(30) DEF Sectioned, Posted

(* ... and so does one that touches neither the section nor a ring. *)
LEMMA SectionFrame ==
  ASSUME TypeOK, Sectioned, pc' = "post" => pc = "post",
         UNCHANGED <<send_buf, send_section_free, overlap, wire, txs, tx_ring, rx_ring>>
  PROVE  Sectioned'
<1>1. Replied => Replied'
  BY DEF Replied
<1>2. /\ \A i \in 1 .. Len(tx_ring') :
           i + 0 \in 1 .. Len(tx_ring) /\ tx_ring'[i] = tx_ring[i + 0]
      /\ \A i \in 1 .. Len(rx_ring') : rx_ring'[i].type = "comp" =>
           i + 0 \in 1 .. Len(rx_ring) /\ rx_ring[i + 0].type = "comp"
  OBVIOUS
<1> QED BY <1>1, <1>2, SectionUntouched

(* A message is posted from section 0 after it was built there: with none  *)
(* other in flight unless they overlap, and as what the section holds.     *)
LEMMA SectionPosted ==
  ASSUME TypeOK, Sectioned, NEW c \in Content, RoomToSend,
         tx_ring' = Append(tx_ring, RndisPkt(c)), UNCHANGED <<rx_ring, wire>>,
         overlap => overlap', pc' # "post",
         ~overlap' => ~InFlight /\ send_buf' = c,
         overlap' => Replied \/ c.kind = "reply",
         c.kind # "tx" \/ ~send_section_free',
         c.kind = "reply" \/ ~send_section_free',
         send_section_free' => send_section_free
  PROVE  Sectioned'
<1>1. /\ Len(tx_ring) \in Nat /\ Len(tx_ring') = Len(tx_ring) + 1
      /\ tx_ring'[Len(tx_ring) + 1] = RndisPkt(c)
      /\ \A i \in 1 .. Len(tx_ring) : tx_ring'[i] = tx_ring[i]
  BY MessageTypes, PutTx
<1>2. RndisPkt(c).type = "rndis" /\ RndisPkt(c).posted = c
  BY DEF RndisPkt
<1>3. \A i \in 1 .. Len(tx_ring') : i \in 1 .. Len(tx_ring) \/ i = Len(tx_ring) + 1
  BY <1>1
<1>4. (~overlap => OneInFlight)'
  <2> SUFFICES ASSUME ~overlap' PROVE OneInFlight'
    OBVIOUS
  <2>1. /\ \A i \in 1 .. Len(tx_ring) : tx_ring[i].type # "rndis"
        /\ \A i \in 1 .. Len(rx_ring) : rx_ring[i].type # "comp"
    BY DEF InFlight
  <2>2. \A i \in 1 .. Len(tx_ring') : tx_ring'[i].type = "rndis" => i = Len(tx_ring) + 1
    BY <1>1, <1>3, <2>1
  <2> QED BY <1>1, <1>2, <2>1, <2>2 DEF OneInFlight, Posted, Done
<1>5. \A i \in 1 .. Len(tx_ring') : tx_ring'[i].type # "rndis" => tx_ring'[i].posted = None
  BY <1>1, <1>2, <1>3 DEF Sectioned, Posted
<1>6. Replied \/ c.kind = "reply" <=> Replied'
  <2>1. Len(tx_ring) + 1 \in 1 .. Len(tx_ring')
        /\ \A i \in 1 .. Len(tx_ring) : i \in 1 .. Len(tx_ring')
    BY <1>1
  <2> QED BY <1>1, <1>2, <1>3, <2>1 DEF Replied
<1>7. SectionKept'
  <2>1. TransmitsWhatWasPosted'
    BY DEF Sectioned, SectionKept, TransmitsWhatWasPosted
  <2>2. FreeMeansIdle'
    BY <1>1, <1>2, <1>3 DEF Sectioned, SectionKept, FreeMeansIdle
  <2>3. OverlapNeedsReply'
    BY <1>6 DEF OverlapNeedsReply, Replied
  <2> QED BY <2>1, <2>2, <2>3 DEF SectionKept
<1>8. (~Replied => ~overlap /\ (send_section_free => ~InFlight))'
  BY <1>6
<1> QED BY <1>4, <1>5, <1>7, <1>8 DEF Sectioned, Posted

(* The network task keeps Sectioned: transmit_with writes section 0 when   *)
(* send_section_free is set, and transmit_post posts what it wrote.        *)
LEMMA TaskSection ==
  ASSUME TypeOK, Control, Sectioned, Task
  PROVE  Sectioned'
<1> USE DEF deviceVars, hostVars, history, CallPump
<1>1. CASE receive \/ transmit \/ has_rx_packet \/ has_tx_space \/ recv_with \/ DropTxToken
  <2>1. /\ UNCHANGED <<send_buf, send_section_free, overlap, wire, txs, tx_ring, rx_ring>>
        /\ pc' = "post" => pc = "post"
    BY <1>1 DEF receive, transmit, has_rx_packet, has_tx_space, recv_with, DropTxToken
  <2> QED BY <2>1, SectionFrame
<1>2. CASE transmit_with
  <2>1. pc = "tx_token" /\ send_section_free
    BY <1>2 DEF transmit_with, Control
  <2>2. /\ send_buf' = [kind |-> "tx", n |-> txs + 1] /\ txs' = txs + 1
        /\ pc' = "post" /\ overlap' = (overlap \/ InFlight)
        /\ UNCHANGED <<rx_ring, tx_ring, send_section_free, wire>>
    BY <1>2, <2>1 DEF transmit_with, Overlap
  <2>3. (Replied' <=> Replied) /\ (InFlight' <=> InFlight)
    BY <2>2 DEF Replied, InFlight
  <2>4. InFlight => Replied
    BY <2>1 DEF Sectioned
  <2>5. (~overlap => OneInFlight)'
    BY <2>2, <2>3, Zenon DEF Sectioned, OneInFlight, Posted, Done, InFlight
  <2>6. SectionKept'
    <3>1. TransmitsWhatWasPosted'
      BY <2>2, Zenon DEF Sectioned, SectionKept, TransmitsWhatWasPosted
    <3>2. FreeMeansIdle'
      BY <2>2, Zenon DEF Sectioned, SectionKept, FreeMeansIdle
    <3>3. OverlapNeedsReply'
      BY <2>2, <2>3, <2>4, Zenon DEF Sectioned, SectionKept, OverlapNeedsReply, Replied
    <3> QED BY <3>1, <3>2, <3>3 DEF SectionKept
  <2>7. (~Replied => ~overlap /\ (send_section_free => ~InFlight))'
    BY <2>2, <2>3, <2>4, ZenonT(30) DEF Sectioned
  <2> QED BY <2>2, <2>5, <2>6, <2>7 DEF Sectioned, Posted
<1>3. CASE transmit_post
  <2> DEFINE c == [kind |-> "tx", n |-> txs]
  <2>1. /\ pc = "post" /\ send_section_free' = FALSE /\ pc' # "post"
        /\ UNCHANGED <<rx_ring, send_buf, wire, overlap, txs>>
    BY <1>3 DEF transmit_post
  <2>2. ~overlap' => ~InFlight /\ send_buf' = c
    BY <2>1 DEF Sectioned, OneInFlight
  <2>3. overlap' => Replied
    BY <2>1 DEF Sectioned, SectionKept, OverlapNeedsReply, Replied
  <2>4. CASE RoomToSend
    <3>1. c \in Content /\ c.kind = "tx"
      BY DEF Content, TypeOK
    <3>2. tx_ring' = Append(tx_ring, RndisPkt(c))
      BY <1>3, <2>4 DEF transmit_post
    <3> HIDE DEF c
    <3> QED BY <2>1, <2>2, <2>3, <2>4, <3>1, <3>2, SectionPosted
  <2>5. CASE ~RoomToSend
    <3>1. UNCHANGED tx_ring
      BY <1>3, <2>5 DEF transmit_post
    <3>2. (Replied' <=> Replied) /\ (InFlight' <=> InFlight)
      BY <2>1, <3>1 DEF Replied, InFlight
    <3>3. (~overlap => OneInFlight)'
      BY <2>1, <3>1, <3>2 DEF Sectioned, OneInFlight, Posted, Done, InFlight
    <3>4. SectionKept'
      BY <2>1, <3>1 DEF Sectioned, SectionKept, TransmitsWhatWasPosted, FreeMeansIdle,
        OverlapNeedsReply
    <3>5. (~Replied => ~overlap /\ (send_section_free => ~InFlight))'
      BY <2>1, <3>2 DEF Sectioned
    <3> QED BY <3>1, <3>3, <3>4, <3>5 DEF Sectioned, Posted
  <2> QED BY <2>4, <2>5
<1> QED BY <1>1, <1>2, <1>3 DEF Task, Call

(* pump_channel keeps it: a completion frees the section that the one      *)
(* message in flight was posted from, and a reply, which goes through the  *)
(* section whenever it is marked free, is on record when it overlaps.      *)
LEMMA PumpSection ==
  ASSUME TypeOK, Control, Sectioned, Pump
  PROVE  Sectioned'
<1> USE DEF deviceVars, hostVars, history, PumpReturn
<1>1. CASE PumpEmpty \/ parse_xfer_page_packet \/ PumpFrame \/ PumpOther
  <2>1. UNCHANGED <<send_buf, send_section_free, overlap, wire, txs, tx_ring, rx_ring, pc>>
    BY <1>1, SMTT(30) DEF PumpEmpty, parse_xfer_page_packet, PumpFrame, PumpOther
  <2> QED BY <2>1, SectionFrame, SMTT(30)
<1>2. CASE PumpSlotFull \/ PumpXfer \/ PumpInBand
  <2>1. /\ UNCHANGED <<send_buf, send_section_free, overlap, wire, txs, tx_ring, pc>>
        /\ rx_ring # << >> /\ rx_ring' = Tail(rx_ring)
    BY <1>2 DEF PumpSlotFull, PumpXfer, PumpInBand
  <2>2. Replied => Replied'
    BY <2>1 DEF Replied
  <2>3. \A i \in 1 .. Len(rx_ring') :
          rx_ring'[i] = rx_ring[i + 1] /\ i + 1 \in 1 .. Len(rx_ring)
    BY <2>1, TakeRx
  <2>4. \A i \in 1 .. Len(tx_ring') :
          i + 0 \in 1 .. Len(tx_ring) /\ tx_ring'[i] = tx_ring[i + 0]
    BY <2>1
  <2> QED BY <2>1, <2>2, <2>3, <2>4, SectionUntouched
<1>3. CASE PumpTxComplete
  <2>1. /\ rx_ring # << >> /\ Head(rx_ring).type = "comp" /\ rx_ring' = Tail(rx_ring)
        /\ send_section_free' = TRUE /\ pc' # "post"
        /\ UNCHANGED <<tx_ring, send_buf, pc, txs, wire, overlap>>
    BY <1>3 DEF PumpTxComplete, Control
  <2>2. /\ Len(rx_ring) \in Nat \ {0} /\ rx_ring[1] = Head(rx_ring)
        /\ \A i \in 1 .. Len(rx_ring') :
             rx_ring'[i] = rx_ring[i + 1] /\ i + 1 \in 1 .. Len(rx_ring)
    BY <2>1, TakeRx
  <2>3. 1 \in 1 .. Len(rx_ring) /\ Done(1)
    BY <2>1, <2>2 DEF Done
  <2>4. ASSUME OneInFlight
        PROVE  /\ \A i \in 1 .. Len(tx_ring') : tx_ring'[i].type # "rndis"
               /\ \A i \in 1 .. Len(rx_ring') : rx_ring'[i].type # "comp"
    <3>1. \A i \in 1 .. Len(tx_ring) : ~Posted(i)
      BY <2>3, <2>4 DEF OneInFlight
    <3>2. ASSUME NEW i \in 1 .. Len(rx_ring'), rx_ring'[i].type = "comp" PROVE FALSE
      <4>1. i + 1 \in 1 .. Len(rx_ring) /\ Done(i + 1)
        BY <2>2, <3>2 DEF Done
      <4>2. i + 1 = 1
        BY <2>3, <2>4, <4>1 DEF OneInFlight
      <4> QED BY <4>2
    <3> QED BY <2>1, <3>1, <3>2 DEF Posted
  <2>5. (~overlap => OneInFlight)'
    BY <2>1, <2>4 DEF Sectioned, OneInFlight, Posted, Done
  <2>6. None.kind = "none" /\ \A i \in 1 .. Len(tx_ring) : ~Posted(i) => tx_ring[i].posted = None
    BY DEF None, Sectioned
  <2>7. SectionKept'
    <3>1. TransmitsWhatWasPosted'
      BY <2>1 DEF Sectioned, SectionKept, TransmitsWhatWasPosted
    <3>2. FreeMeansIdle'
      BY <2>1, <2>4, <2>6 DEF Sectioned, FreeMeansIdle, Posted
    <3>3. OverlapNeedsReply'
      BY <2>1 DEF Sectioned, SectionKept, OverlapNeedsReply
    <3> QED BY <3>1, <3>2, <3>3 DEF SectionKept
  <2>8. (~Replied => ~overlap /\ (send_section_free => ~InFlight))'
    <3>1. Replied' <=> Replied
      BY <2>1 DEF Replied
    <3> QED BY <2>1, <2>4, <3>1 DEF Sectioned, InFlight
  <2> QED BY <2>1, <2>5, <2>6, <2>7, <2>8 DEF Sectioned, Posted
<1>4. CASE send_completion
  <2>1. /\ UNCHANGED <<send_buf, send_section_free, overlap, wire, txs, rx_ring, pc>>
        /\ \A i \in 1 .. Len(rx_ring') : rx_ring'[i].type = "comp" =>
             i + 0 \in 1 .. Len(rx_ring) /\ rx_ring[i + 0].type = "comp"
    BY <1>4 DEF send_completion
  <2>2. CASE RoomToSend
    <3>1. pump_desc.ranges \in Ranges
      BY DEF RxMessage, TypeOK
    <3>2. /\ Len(tx_ring) \in Nat /\ Len(tx_ring') = Len(tx_ring) + 1
          /\ tx_ring'[Len(tx_ring) + 1] = Completion(pump_desc.ranges)
          /\ \A i \in 1 .. Len(tx_ring) : tx_ring'[i] = tx_ring[i]
      BY <1>4, <2>2, <3>1, MessageTypes, PutTx DEF send_completion
    <3>3. Completion(pump_desc.ranges).type = "comp"
          /\ Completion(pump_desc.ranges).posted = None
      BY DEF Completion
    <3>4. \A i \in 1 .. Len(tx_ring') :
            \/ i + 0 \in 1 .. Len(tx_ring) /\ tx_ring'[i] = tx_ring[i + 0]
            \/ tx_ring'[i].type # "rndis" /\ tx_ring'[i].posted = None
      BY <3>2, <3>3
    <3>5. Replied => Replied'
      <4>1. \A i \in 1 .. Len(tx_ring) : i \in 1 .. Len(tx_ring')
        BY <3>2
      <4> QED BY <2>1, <3>2, <4>1 DEF Replied
    <3> QED BY <2>1, <3>4, <3>5, SectionUntouched
  <2>3. CASE ~RoomToSend
    <3>1. UNCHANGED tx_ring
      BY <1>4, <2>3 DEF send_completion
    <3> QED BY <2>1, <3>1, SectionFrame
  <2> QED BY <2>2, <2>3
<1>5. CASE send_rndis_control_inner
  <2> DEFINE reply == [kind |-> "reply", n |-> pump_data.n]
  <2>1. /\ UNCHANGED <<rx_ring, send_section_free, txs, wire, pc>> /\ pc # "post"
        /\ send_section_free => send_buf' = reply /\ overlap' = (overlap \/ InFlight)
        /\ ~send_section_free => UNCHANGED <<send_buf, overlap, tx_ring>>
        /\ send_section_free =>
             tx_ring' = IF RoomToSend THEN Append(tx_ring, RndisPkt(reply)) ELSE tx_ring
    BY <1>5 DEF send_rndis_control_inner, Overlap, Control
  <2>2. reply \in Content /\ reply.kind = "reply"
    BY DEF Content, TypeOK
  <2> HIDE DEF reply
  <2>3. send_section_free => (InFlight => Replied)
    BY DEF Sectioned
  <2>4. overlap => Replied
    BY DEF Sectioned, SectionKept, OverlapNeedsReply, Replied
  <2>5. CASE send_section_free /\ RoomToSend
    BY <2>1, <2>2, <2>5, SectionPosted, Zenon
  <2>6. CASE send_section_free /\ ~RoomToSend
    <3>1. UNCHANGED tx_ring
      BY <2>1, <2>6
    <3>2. (Replied' <=> Replied) /\ (InFlight' <=> InFlight)
      BY <2>1, <3>1 DEF Replied, InFlight
    <3>3. (~overlap => OneInFlight)'
      BY <2>1, <2>6, <3>1, <3>2, Zenon DEF Sectioned, OneInFlight, Posted, Done, InFlight
    <3>4. SectionKept'
      <4>1. TransmitsWhatWasPosted'
        BY <2>1, <2>6, Zenon DEF Sectioned, SectionKept, TransmitsWhatWasPosted
      <4>2. FreeMeansIdle'
        BY <2>1, <2>6, <3>1, Zenon DEF Sectioned, SectionKept, FreeMeansIdle
      <4>3. OverlapNeedsReply'
        BY <2>1, <2>3, <2>4, <2>6, <3>2, Zenon DEF OverlapNeedsReply, Replied
      <4> QED BY <4>1, <4>2, <4>3 DEF SectionKept
    <3>5. (~Replied => ~overlap /\ (send_section_free => ~InFlight))'
      BY <2>1, <2>3, <2>4, <2>6, <3>2, Zenon
    <3> QED BY <3>1, <3>3, <3>4, <3>5 DEF Sectioned, Posted
  <2>7. CASE ~send_section_free
    BY <2>1, <2>7, SectionFrame
  <2> QED BY <2>5, <2>6, <2>7 DEF TypeOK
<1> QED BY <1>1, <1>2, <1>3, <1>4, <1>5 DEF Pump

(* The host keeps it: it reads the section when it takes the message that  *)
(* was posted from it, and completes it once.                              *)
LEMMA HostSection ==
  ASSUME TypeOK, Sectioned, Host
  PROVE  Sectioned'
<1> USE DEF deviceVars, history
<1>1. ASSUME NEW m \in RxMessage, m.type # "comp", Len(rx_ring) < RingCap,
             rx_ring' = Append(rx_ring, m),
             UNCHANGED <<send_buf, send_section_free, overlap, wire, txs, tx_ring, pc>>
      PROVE  Sectioned'
  <2>1. /\ Len(rx_ring) \in Nat /\ Len(rx_ring') = Len(rx_ring) + 1
        /\ rx_ring'[Len(rx_ring) + 1] = m
        /\ \A i \in 1 .. Len(rx_ring) : rx_ring'[i] = rx_ring[i]
    BY <1>1, PutRx
  <2>2. \A i \in 1 .. Len(rx_ring') : rx_ring'[i].type = "comp" =>
          i + 0 \in 1 .. Len(rx_ring) /\ rx_ring[i + 0].type = "comp"
    <3>1. \A i \in 1 .. Len(rx_ring') : i \in 1 .. Len(rx_ring) \/ i = Len(rx_ring) + 1
      BY <2>1
    <3> QED BY <1>1, <2>1, <3>1
  <2>3. Replied => Replied'
    BY <1>1 DEF Replied
  <2>4. \A i \in 1 .. Len(tx_ring') :
          i + 0 \in 1 .. Len(tx_ring) /\ tx_ring'[i] = tx_ring[i + 0]
    BY <1>1
  <2> QED BY <1>1, <2>2, <2>3, <2>4, SectionUntouched
<1>2. ASSUME NEW kind \in Kinds, NEW ranges \in Ranges, HostXfer(kind, ranges)
      PROVE  Sectioned'
  <2>1. xfers + 1 \in Nat
    BY DEF TypeOK
  <2>2. XferPages(ranges, xfers + 1) \in RxMessage
    BY <2>1, MessageTypes
  <2>3. XferPages(ranges, xfers + 1).type # "comp"
    BY DEF XferPages
  <2>4. /\ Len(rx_ring) < RingCap /\ rx_ring' = Append(rx_ring, XferPages(ranges, xfers + 1))
        /\ UNCHANGED <<send_buf, send_section_free, overlap, wire, txs, tx_ring, pc>>
    BY <1>2 DEF HostXfer
  <2> QED BY <1>1, <2>2, <2>3, <2>4
<1>3. CASE HostInBand
  <2>1. InBand \in RxMessage /\ InBand.type # "comp"
    BY MessageTypes DEF InBand
  <2> QED BY <1>1, <1>3, <2>1 DEF HostInBand
<1>4. CASE HostTakesBack
  <2>1. /\ tx_ring # << >> /\ Head(tx_ring).type = "comp" /\ tx_ring' = Tail(tx_ring)
        /\ UNCHANGED <<send_buf, send_section_free, overlap, wire, txs, rx_ring, pc>>
    BY <1>4 DEF HostTakesBack
  <2>2. /\ Len(tx_ring) \in Nat \ {0} /\ Len(tx_ring') = Len(tx_ring) - 1
        /\ tx_ring[1] = Head(tx_ring)
        /\ \A i \in 1 .. Len(tx_ring') :
             tx_ring'[i] = tx_ring[i + 1] /\ i + 1 \in 1 .. Len(tx_ring)
    BY <2>1, TakeTx
  <2>3. Head(tx_ring).posted = None /\ None.kind = "none"
    <3>1. 1 \in 1 .. Len(tx_ring) /\ ~Posted(1)
      BY <2>1, <2>2 DEF Posted
    <3> QED BY <2>2, <3>1 DEF Sectioned, None
  <2>4. ASSUME Replied PROVE Replied'
    <3>1. CASE \E i \in 1 .. Len(wire) : wire[i].posted.kind = "reply"
      BY <2>1, <3>1 DEF Replied
    <3>2. ASSUME NEW i \in 1 .. Len(tx_ring), tx_ring[i].posted.kind = "reply"
          PROVE  Replied'
      <4>1. i # 1
        BY <2>2, <2>3, <3>2
      <4>2. i - 1 \in 1 .. Len(tx_ring') /\ (i - 1) + 1 = i
        BY <2>2, <4>1
      <4>3. tx_ring'[i - 1] = tx_ring[i]
        BY <2>2, <4>2
      <4> QED BY <3>2, <4>2, <4>3 DEF Replied
    <3> QED BY <2>4, <3>1, <3>2 DEF Replied
  <2>5. \A i \in 1 .. Len(rx_ring') : rx_ring'[i].type = "comp" =>
          i + 0 \in 1 .. Len(rx_ring) /\ rx_ring[i + 0].type = "comp"
    BY <2>1
  <2> QED BY <2>1, <2>2, <2>4, <2>5, SectionUntouched
<1>5. CASE HostTransmits
  <2> DEFINE w == [posted |-> Head(tx_ring).posted, read |-> send_buf]
  <2>1. /\ tx_ring # << >> /\ Head(tx_ring).type = "rndis" /\ tx_ring' = Tail(tx_ring)
        /\ Len(rx_ring) < RingCap /\ rx_ring' = Append(rx_ring, TxComplete)
        /\ wire' = Append(wire, w)
        /\ UNCHANGED <<send_buf, send_section_free, overlap, txs, pc>>
    BY <1>5 DEF HostTransmits
  <2>2. /\ Len(tx_ring) \in Nat \ {0} /\ Len(tx_ring') = Len(tx_ring) - 1
        /\ tx_ring[1] = Head(tx_ring) /\ Head(tx_ring).posted \in Content
        /\ \A i \in 1 .. Len(tx_ring') :
             tx_ring'[i] = tx_ring[i + 1] /\ i + 1 \in 1 .. Len(tx_ring)
    BY <2>1, TakeTx
  <2>3. /\ Len(rx_ring) \in Nat /\ Len(rx_ring') = Len(rx_ring) + 1
        /\ rx_ring'[Len(rx_ring) + 1] = TxComplete
        /\ \A i \in 1 .. Len(rx_ring) : rx_ring'[i] = rx_ring[i]
    BY <2>1, MessageTypes, PutRx
  <2>4. w.posted = tx_ring[1].posted /\ w.read = send_buf
        /\ w \in [posted : Content, read : Content]
    BY <2>2 DEF TypeOK
  <2> HIDE DEF w
  <2>5. /\ Len(wire) \in Nat /\ Len(wire') = Len(wire) + 1 /\ wire'[Len(wire) + 1] = w
        /\ \A i \in 1 .. Len(wire) : wire'[i] = wire[i]
    BY <2>1, <2>4, RingPut DEF TypeOK
  <2>6. 1 \in 1 .. Len(tx_ring) /\ Posted(1) /\ InFlight
    BY <2>1, <2>2 DEF Posted, InFlight
  <2>7. (~overlap => OneInFlight)'
    <3> SUFFICES ASSUME ~overlap, OneInFlight PROVE OneInFlight'
      BY <2>1 DEF Sectioned
    <3>1. ASSUME NEW i \in 1 .. Len(tx_ring'), tx_ring'[i].type = "rndis" PROVE FALSE
      <4>1. i + 1 \in 1 .. Len(tx_ring) /\ Posted(i + 1)
        BY <2>2, <3>1 DEF Posted
      <4>2. i + 1 = 1
        BY <2>6, <4>1 DEF OneInFlight
      <4> QED BY <4>2
    <3>2. \A i \in 1 .. Len(rx_ring) : rx_ring[i].type # "comp"
      BY <2>6 DEF OneInFlight, Done
    <3>3. \A i \in 1 .. Len(rx_ring') : rx_ring'[i].type = "comp" => i = Len(rx_ring) + 1
      <4>1. \A i \in 1 .. Len(rx_ring') : i \in 1 .. Len(rx_ring) \/ i = Len(rx_ring) + 1
        BY <2>3
      <4> QED BY <2>3, <3>2, <4>1
    <3>4. pc' # "post"
      BY <2>1, <2>6 DEF OneInFlight
    <3> QED BY <3>1, <3>3, <3>4 DEF OneInFlight, Posted, Done
  <2>8. \A i \in 1 .. Len(tx_ring') : tx_ring'[i].type # "rndis" => tx_ring'[i].posted = None
    BY <2>2 DEF Sectioned, Posted
  <2>9. Replied <=> Replied'
    <3>1. Len(wire) + 1 \in 1 .. Len(wire')
          /\ \A i \in 1 .. Len(wire) : i \in 1 .. Len(wire')
      BY <2>5
    <3>2. ASSUME Replied PROVE Replied'
      <4>1. CASE \E i \in 1 .. Len(wire) : wire[i].posted.kind = "reply"
        BY <2>5, <3>1, <4>1 DEF Replied
      <4>2. ASSUME NEW i \in 1 .. Len(tx_ring), tx_ring[i].posted.kind = "reply"
            PROVE  Replied'
        <5>1. CASE i = 1
          BY <2>4, <2>5, <3>1, <4>2, <5>1 DEF Replied
        <5>2. CASE i # 1
          <6>1. i - 1 \in 1 .. Len(tx_ring') /\ (i - 1) + 1 = i
            BY <2>2, <5>2
          <6>2. tx_ring'[i - 1] = tx_ring[i]
            BY <2>2, <6>1
          <6> QED BY <4>2, <6>1, <6>2 DEF Replied
        <5> QED BY <5>1, <5>2
      <4> QED BY <3>2, <4>1, <4>2 DEF Replied
    <3>3. ASSUME Replied' PROVE Replied
      <4>1. ASSUME NEW i \in 1 .. Len(wire'), wire'[i].posted.kind = "reply" PROVE Replied
        <5>1. i \in 1 .. Len(wire) \/ i = Len(wire) + 1
          BY <2>5
        <5> QED BY <2>4, <2>5, <2>6, <4>1, <5>1 DEF Replied
      <4>2. ASSUME NEW i \in 1 .. Len(tx_ring'), tx_ring'[i].posted.kind = "reply"
            PROVE  Replied
        BY <2>2, <4>2, ZenonT(30) DEF Replied
      <4> QED BY <3>3, <4>1, <4>2 DEF Replied
    <3> QED BY <3>2, <3>3
  <2>10. SectionKept'
    <3>1. TransmitsWhatWasPosted'
      <4> SUFFICES ASSUME ~overlap, NEW i \in 1 .. Len(wire')
                   PROVE  wire'[i].read = wire'[i].posted
        BY <2>1 DEF TransmitsWhatWasPosted
      <4>1. i \in 1 .. Len(wire) \/ i = Len(wire) + 1
        BY <2>5
      <4>2. tx_ring[1].posted = send_buf
        BY <2>6 DEF Sectioned, OneInFlight
      <4> QED BY <2>4, <2>5, <4>1, <4>2 DEF Sectioned, SectionKept, TransmitsWhatWasPosted
    <3>2. FreeMeansIdle'
      BY <2>1, <2>2 DEF Sectioned, SectionKept, FreeMeansIdle
    <3>3. OverlapNeedsReply'
      BY <2>1, <2>9 DEF Sectioned, SectionKept, OverlapNeedsReply, Replied
    <3> QED BY <3>1, <3>2, <3>3 DEF SectionKept
  <2>11. (~Replied => ~overlap /\ (send_section_free => ~InFlight))'
    BY <2>1, <2>6, <2>9 DEF Sectioned
  <2> QED BY <2>7, <2>8, <2>10, <2>11 DEF Sectioned, Posted
<1> QED BY <1>2, <1>3, <1>4, <1>5, HostCases
-----------------------------------------------------------------------------
(* How many of a ring's packets are in P *)
Count(q, P) == Number({i \in 1 .. Len(q) : q[i] \in P})

(* What the numbers say of a set *)
LEMMA NumberIs ==
  ASSUME NEW S
  PROVE  /\ Number(S) \in 0 .. 2
         /\ Number(S) = 0 <=> S = {}
         /\ Number(S) <= 1 => \A x, y \in S : x = y
         /\ S # {} /\ (\A x, y \in S : x = y) => Number(S) = 1
<1>1. Number(S) \in 0 .. 2 /\ (Number(S) = 0 <=> S = {})
  BY DEF Number
<1>2. ASSUME Number(S) <= 1, NEW x \in S, NEW y \in S PROVE x = y
  BY <1>2 DEF Number
<1>3. ASSUME NEW x \in S, \A y, z \in S : y = z PROVE Number(S) = 1
  <2>1. S = {x}
    BY <1>3
  <2> QED BY <2>1, Zenon DEF Number
<1> QED BY <1>1, <1>2, <1>3

(* A count is a number, and not zero when a packet is in P. *)
LEMMA CountIsNat ==
  ASSUME NEW S, NEW q \in Seq(S), NEW P
  PROVE  Count(q, P) \in Nat /\ \A i \in 1 .. Len(q) : q[i] \in P => Count(q, P) >= 1
<1> DEFINE I == {i \in 1 .. Len(q) : q[i] \in P}
<1>1. Number(I) \in 0 .. 2 /\ (Number(I) = 0 <=> I = {})
  BY NumberIs, Zenon
<1>2. \A i \in 1 .. Len(q) : q[i] \in P => i \in I
  OBVIOUS
<1>3. Count(q, P) = Number(I)
  BY DEF Count
<1> HIDE DEF I
<1> QED BY <1>1, <1>2, <1>3

(* A packet put into the ring adds one if it is in P, ... *)
LEMMA CountPut ==
  ASSUME NEW S, NEW q \in Seq(S), NEW x \in S, NEW P, Count(q, P) <= 1
  PROVE  Count(Append(q, x), P) = IF x \in P THEN Count(q, P) + 1 ELSE Count(q, P)
<1> DEFINE n == Len(q)
           a == Append(q, x)
           I == {i \in 1 .. n : q[i] \in P}
           J == {i \in 1 .. Len(a) : a[i] \in P}
<1>1. /\ n \in Nat /\ Len(a) = n + 1 /\ a[n + 1] = x
      /\ \A i \in 1 .. n : a[i] = q[i]
  BY RingPut
<1>2. CASE x \in P
  <2>1. J = I \cup {n + 1} /\ n + 1 \notin I
    <3> HIDE DEF n, a
    <3> QED BY <1>1, <1>2
  <2>2. Count(q, P) = Number(I) /\ Count(a, P) = Number(J)
    BY DEF Count
  <2> HIDE DEF I, J, n, a
  <2>3. CASE I = {}
    <3>1. J = {n + 1}
      BY <2>1, <2>3
    <3>2. Number(J) = 1 /\ Number(I) = 0
      BY <2>3, <3>1, NumberIs
    <3> QED BY <1>2, <2>2, <3>2 DEF a
  <2>4. CASE I # {}
    <3>1. Number(I) = 1
      BY <2>2, <2>4, NumberIs
    <3>2. Number(J) = 2
      <4>1. PICK i \in I : i \in J /\ n + 1 \in J /\ i # n + 1
        BY <2>1, <2>4
      <4> QED BY <4>1, NumberIs
    <3> QED BY <1>2, <2>2, <3>1, <3>2 DEF a
  <2> QED BY <2>3, <2>4
<1>3. CASE x \notin P
  <2>1. J = I
    <3> HIDE DEF n, a
    <3> QED BY <1>1, <1>3
  <2> QED BY <1>3, <2>1, ZenonT(30) DEF Count
<1> QED BY <1>2, <1>3

(* ... and one taken out takes one away, as long as there are not several. *)
LEMMA CountTake ==
  ASSUME NEW S, NEW q \in Seq(S), q # << >>, NEW P, Count(q, P) <= 1
  PROVE  Count(Tail(q), P) = IF Head(q) \in P THEN Count(q, P) - 1 ELSE Count(q, P)
<1> DEFINE n == Len(q)
           t == Tail(q)
           I == {i \in 1 .. n : q[i] \in P}
           J == {i \in 1 .. Len(t) : t[i] \in P}
<1>1. /\ n \in Nat \ {0} /\ q[1] = Head(q) /\ t \in Seq(S) /\ Len(t) = n - 1
      /\ \A i \in 1 .. n - 1 : t[i] = q[i + 1]
  BY RingTake
<1>2. \A i, j \in I : i = j
  BY NumberIs, Zenon DEF Count
<1>3. \A j \in J : j \in 1 .. n - 1 /\ j + 1 \in I
  <2> HIDE DEF n, t
  <2> QED BY <1>1
<1>4. 1 \in I <=> Head(q) \in P
  <2> HIDE DEF n
  <2> QED BY <1>1
<1>5. I \subseteq Nat
  OBVIOUS
<1>6. Count(q, P) = Number(I) /\ Count(t, P) = Number(J)
  BY DEF Count
<1>7. \A i \in I : i # 1 => i - 1 \in J
  <2> SUFFICES ASSUME NEW i \in I, i # 1 PROVE i - 1 \in J
    OBVIOUS
  <2> HIDE DEF n, t
  <2>1. i \in 1 .. n /\ q[i] \in P
    OBVIOUS
  <2>2. i - 1 \in 1 .. n - 1 /\ (i - 1) + 1 = i
    BY <1>1, <2>1
  <2>3. t[i - 1] = q[i]
    BY <1>1, <2>2
  <2> QED BY <1>1, <2>1, <2>2, <2>3
<1> HIDE DEF I, J, n, t
<1>8. CASE Head(q) \in P
  <2>1. J = {}
    <3>1. ASSUME NEW j \in J PROVE FALSE
      BY <1>2, <1>3, <1>4, <1>8, <3>1
    <3> QED BY <3>1
  <2>2. Number(J) = 0 /\ Number(I) = 1
    BY <1>2, <1>4, <1>8, <2>1, NumberIs
  <2> QED BY <1>6, <1>8, <2>2 DEF t
<1>9. CASE Head(q) \notin P
  <2>1. CASE I = {}
    <3>1. J = {}
      BY <1>3, <2>1
    <3> QED BY <1>6, <1>9, <2>1, <3>1 DEF t
  <2>2. CASE I # {}
    <3>1. PICK i \in I : TRUE
      BY <2>2
    <3>2. i - 1 \in J
      BY <1>4, <1>7, <1>9, <3>1
    <3>3. \A j, k \in J : j = k
      <4>1. ASSUME NEW j \in J, NEW k \in J PROVE j = k
        <5>1. j + 1 = k + 1 /\ j \in Int /\ k \in Int
          BY <1>2, <1>3
        <5> QED BY <5>1
      <4> QED BY <4>1
    <3>4. Number(I) = 1 /\ Number(J) = 1
      BY <1>2, <2>2, <3>2, <3>3, NumberIs
    <3> QED BY <1>6, <1>9, <3>4 DEF t
  <2> QED BY <2>1, <2>2
<1> QED BY <1>8, <1>9
-----------------------------------------------------------------------------
(* The packets that announce slot s, and the completions that return it *)
Announcing(s) == {p \in RxMessage : p.type = "xfer" /\ s \in Range(p.ranges)}
Returning(s) == {m \in TxMessage : m.type = "comp" /\ s \in Range(m.ranges)}

HostHas(s) == IF s \in host_free THEN 1 ELSE 0
PumpHas(s) ==
  IF pump_pc \in {"parse", "complete"} /\ s \in Range(pump_desc.ranges) THEN 1 ELSE 0
RxHas(s) == Count(rx_ring, Announcing(s))
TxHas(s) == Count(tx_ring, Returning(s))

(* A slot is held by the host, the ring, pump_channel and the completions. *)
LEMMA HoldersAre ==
  ASSUME TypeOK, TypeOK', NEW s \in Slots
  PROVE  /\ Holders(s) = HostHas(s) + RxHas(s) + PumpHas(s) + TxHas(s)
         /\ RxHas(s) \in Nat /\ TxHas(s) \in Nat
         /\ Holders(s)' = HostHas(s)' + RxHas(s)' + PumpHas(s)' + TxHas(s)'
         /\ RxHas(s)' \in Nat /\ TxHas(s)' \in Nat
<1>1. ASSUME NEW q \in Seq(RxMessage)
      PROVE  /\ Count(q, Announcing(s)) \in Nat
             /\ Number({i \in 1 .. Len(q) : q[i].type = "xfer" /\ s \in Range(q[i].ranges)})
                  = Count(q, Announcing(s))
  <2>1. Len(q) \in Nat /\ \A i \in 1 .. Len(q) : q[i] \in RxMessage
    BY SeqType
  <2>2. {i \in 1 .. Len(q) : q[i].type = "xfer" /\ s \in Range(q[i].ranges)}
          = {i \in 1 .. Len(q) : q[i] \in Announcing(s)}
    BY <2>1 DEF Announcing
  <2>3. Count(q, Announcing(s)) \in Nat
    BY CountIsNat, Zenon
  <2> QED BY <2>2, <2>3, Zenon DEF Count
<1>2. ASSUME NEW q \in Seq(TxMessage)
      PROVE  /\ Count(q, Returning(s)) \in Nat
             /\ Number({i \in 1 .. Len(q) : q[i].type = "comp" /\ s \in Range(q[i].ranges)})
                  = Count(q, Returning(s))
  <2>1. Len(q) \in Nat /\ \A i \in 1 .. Len(q) : q[i] \in TxMessage
    BY SeqType
  <2>2. {i \in 1 .. Len(q) : q[i].type = "comp" /\ s \in Range(q[i].ranges)}
          = {i \in 1 .. Len(q) : q[i] \in Returning(s)}
    BY <2>1 DEF Returning
  <2>3. Count(q, Returning(s)) \in Nat
    BY CountIsNat, Zenon
  <2> QED BY <2>2, <2>3, ZenonT(30) DEF Count
<1>3. /\ rx_ring \in Seq(RxMessage) /\ rx_ring' \in Seq(RxMessage)
      /\ tx_ring \in Seq(TxMessage) /\ tx_ring' \in Seq(TxMessage)
  BY DEF TypeOK
<1>4. Holders(s) = HostHas(s) + RxHas(s) + PumpHas(s) + TxHas(s)
      /\ RxHas(s) \in Nat /\ TxHas(s) \in Nat
  <2>1. /\ Number({i \in 1 .. Len(rx_ring) :
             rx_ring[i].type = "xfer" /\ s \in Range(rx_ring[i].ranges)}) = RxHas(s)
        /\ RxHas(s) \in Nat
    BY <1>1, <1>3 DEF RxHas
  <2>2. /\ Number({i \in 1 .. Len(tx_ring) :
             tx_ring[i].type = "comp" /\ s \in Range(tx_ring[i].ranges)}) = TxHas(s)
        /\ TxHas(s) \in Nat
    BY <1>2, <1>3 DEF TxHas
  <2> QED BY <2>1, <2>2 DEF Holders, HostHas, PumpHas
<1>5. Holders(s)' = HostHas(s)' + RxHas(s)' + PumpHas(s)' + TxHas(s)'
      /\ RxHas(s)' \in Nat /\ TxHas(s)' \in Nat
  <2>1. /\ Number({i \in 1 .. Len(rx_ring') :
             rx_ring'[i].type = "xfer" /\ s \in Range(rx_ring'[i].ranges)}) = RxHas(s)'
        /\ RxHas(s)' \in Nat
    BY <1>1, <1>3 DEF RxHas
  <2>2. /\ Number({i \in 1 .. Len(tx_ring') :
             tx_ring'[i].type = "comp" /\ s \in Range(tx_ring'[i].ranges)}) = TxHas(s)'
        /\ TxHas(s)' \in Nat
    BY <1>2, <1>3, Zenon DEF TxHas
  <2> QED BY <2>1, <2>2 DEF Holders, HostHas, PumpHas
<1> QED BY <1>4, <1>5

(* So a slot that one of them has, none of the others has, and it is       *)
(* neither lost nor stuck.                                                 *)
LEMMA HeldOnce ==
  ASSUME TypeOK, TypeOK', SlotAccounted, NEW s \in Slots
  PROVE  /\ HostHas(s) + RxHas(s) + PumpHas(s) + TxHas(s)
              = IF s \in lost \cup stuck THEN 0 ELSE 1
         /\ HostHas(s) \in Nat /\ RxHas(s) \in Nat /\ PumpHas(s) \in Nat /\ TxHas(s) \in Nat
         /\ \A i \in 1 .. Len(rx_ring) :
              rx_ring[i].type = "xfer" /\ s \in Range(rx_ring[i].ranges) => RxHas(s) >= 1
         /\ \A i \in 1 .. Len(tx_ring) :
              tx_ring[i].type = "comp" /\ s \in Range(tx_ring[i].ranges) => TxHas(s) >= 1
<1>1. HostHas(s) \in Nat /\ PumpHas(s) \in Nat
  BY DEF HostHas, PumpHas
<1>2. RxHas(s) \in Nat /\ TxHas(s) \in Nat
      /\ HostHas(s) + RxHas(s) + PumpHas(s) + TxHas(s)
           = IF s \in lost \cup stuck THEN 0 ELSE 1
  BY HoldersAre DEF SlotAccounted
<1>3. rx_ring \in Seq(RxMessage) /\ tx_ring \in Seq(TxMessage)
  BY DEF TypeOK
<1>4. /\ \A i \in 1 .. Len(rx_ring) : rx_ring[i] \in RxMessage
      /\ \A i \in 1 .. Len(tx_ring) : tx_ring[i] \in TxMessage
  BY <1>3, SeqType
<1>5. ASSUME NEW i \in 1 .. Len(rx_ring),
             rx_ring[i].type = "xfer", s \in Range(rx_ring[i].ranges)
      PROVE  RxHas(s) >= 1
  <2>1. rx_ring[i] \in Announcing(s)
    BY <1>4, <1>5 DEF Announcing
  <2> QED BY <1>3, <2>1, CountIsNat, Zenon DEF RxHas
<1>6. ASSUME NEW i \in 1 .. Len(tx_ring),
             tx_ring[i].type = "comp", s \in Range(tx_ring[i].ranges)
      PROVE  TxHas(s) >= 1
  <2>1. tx_ring[i] \in Returning(s)
    BY <1>4, <1>6 DEF Returning
  <2> QED BY <1>3, <2>1, CountIsNat, ZenonT(30) DEF TxHas
<1> QED BY <1>1, <1>2, <1>5, <1>6, Zenon

(* How a packet put into or taken out of the guest's receive ring changes  *)
(* who has slot s: one that announces the slot counts, others do not, ...  *)
LEMMA RxMoves ==
  ASSUME TypeOK, TypeOK', SlotAccounted, NEW s \in Slots
  PROVE  /\ \A m \in RxMessage : rx_ring' = Append(rx_ring, m) =>
              RxHas(s)' = RxHas(s) + IF m.type = "xfer" /\ s \in Range(m.ranges) THEN 1 ELSE 0
         /\ rx_ring # << >> /\ rx_ring' = Tail(rx_ring) =>
              /\ RxHas(s)' = RxHas(s) - IF Head(rx_ring).type = "xfer"
                                            /\ s \in Range(Head(rx_ring).ranges) THEN 1 ELSE 0
              /\ Head(rx_ring).type = "xfer" /\ s \in Range(Head(rx_ring).ranges)
                   => RxHas(s) >= 1
<1>1. rx_ring \in Seq(RxMessage)
  BY DEF TypeOK
<1>2. RxHas(s) \in Nat /\ RxHas(s) <= 1
  BY HeldOnce
<1>3. ASSUME NEW m \in RxMessage, rx_ring' = Append(rx_ring, m)
      PROVE  RxHas(s)' = RxHas(s) + IF m.type = "xfer" /\ s \in Range(m.ranges) THEN 1 ELSE 0
  <2>1. m \in Announcing(s) <=> m.type = "xfer" /\ s \in Range(m.ranges)
    BY DEF Announcing
  <2>2. RxHas(s)' = IF m \in Announcing(s) THEN RxHas(s) + 1 ELSE RxHas(s)
    BY <1>1, <1>2, <1>3, CountPut DEF RxHas
  <2> QED BY <1>2, <2>1, <2>2
<1>4. ASSUME rx_ring # << >>, rx_ring' = Tail(rx_ring)
      PROVE  /\ RxHas(s)' = RxHas(s) - IF Head(rx_ring).type = "xfer"
                                            /\ s \in Range(Head(rx_ring).ranges) THEN 1 ELSE 0
             /\ Head(rx_ring).type = "xfer" /\ s \in Range(Head(rx_ring).ranges)
                  => RxHas(s) >= 1
  <2>1. Head(rx_ring) \in RxMessage /\ rx_ring[1] = Head(rx_ring) /\ 1 \in 1 .. Len(rx_ring)
    BY <1>4, TakeRx
  <2>2. Head(rx_ring) \in Announcing(s)
          <=> Head(rx_ring).type = "xfer" /\ s \in Range(Head(rx_ring).ranges)
    BY <2>1 DEF Announcing
  <2>3. RxHas(s)' = IF Head(rx_ring) \in Announcing(s) THEN RxHas(s) - 1 ELSE RxHas(s)
    BY <1>1, <1>2, <1>4, CountTake DEF RxHas
  <2>4. Head(rx_ring) \in Announcing(s) => RxHas(s) >= 1
    BY <1>1, <2>1, CountIsNat, ZenonT(30) DEF RxHas
  <2> QED BY <1>2, <2>2, <2>3, <2>4
<1> QED BY <1>3, <1>4, ZenonT(30)

(* ... and the same for the transmit ring and the completions that hand    *)
(* slot s back.                                                            *)
LEMMA TxMoves ==
  ASSUME TypeOK, TypeOK', SlotAccounted, NEW s \in Slots
  PROVE  /\ \A m \in TxMessage : tx_ring' = Append(tx_ring, m) =>
              TxHas(s)' = TxHas(s) + IF m.type = "comp" /\ s \in Range(m.ranges) THEN 1 ELSE 0
         /\ tx_ring # << >> /\ tx_ring' = Tail(tx_ring) =>
              /\ TxHas(s)' = TxHas(s) - IF Head(tx_ring).type = "comp"
                                            /\ s \in Range(Head(tx_ring).ranges) THEN 1 ELSE 0
              /\ Head(tx_ring).type = "comp" /\ s \in Range(Head(tx_ring).ranges)
                   => TxHas(s) >= 1
<1>1. tx_ring \in Seq(TxMessage)
  BY DEF TypeOK
<1>2. TxHas(s) \in Nat /\ TxHas(s) <= 1
  BY HeldOnce
<1>3. ASSUME NEW m \in TxMessage, tx_ring' = Append(tx_ring, m)
      PROVE  TxHas(s)' = TxHas(s) + IF m.type = "comp" /\ s \in Range(m.ranges) THEN 1 ELSE 0
  <2>1. m \in Returning(s) <=> m.type = "comp" /\ s \in Range(m.ranges)
    BY DEF Returning
  <2>2. TxHas(s)' = IF m \in Returning(s) THEN TxHas(s) + 1 ELSE TxHas(s)
    BY <1>1, <1>2, <1>3, CountPut DEF TxHas
  <2> QED BY <1>2, <2>1, <2>2
<1>4. ASSUME tx_ring # << >>, tx_ring' = Tail(tx_ring)
      PROVE  /\ TxHas(s)' = TxHas(s) - IF Head(tx_ring).type = "comp"
                                            /\ s \in Range(Head(tx_ring).ranges) THEN 1 ELSE 0
             /\ Head(tx_ring).type = "comp" /\ s \in Range(Head(tx_ring).ranges)
                  => TxHas(s) >= 1
  <2>1. Head(tx_ring) \in TxMessage /\ tx_ring[1] = Head(tx_ring) /\ 1 \in 1 .. Len(tx_ring)
    BY <1>4, TakeTx
  <2>2. Head(tx_ring) \in Returning(s)
          <=> Head(tx_ring).type = "comp" /\ s \in Range(Head(tx_ring).ranges)
    BY <2>1 DEF Returning
  <2>3. TxHas(s)' = IF Head(tx_ring) \in Returning(s) THEN TxHas(s) - 1 ELSE TxHas(s)
    BY <1>1, <1>2, <1>4, CountTake DEF TxHas
  <2>4. Head(tx_ring) \in Returning(s) => TxHas(s) >= 1
    BY <1>1, <2>1, CountIsNat, ZenonT(30) DEF TxHas
  <2> QED BY <1>2, <2>2, <2>3, <2>4
<1> QED BY <1>3, <1>4, ZenonT(30)

(* Nobody gains or loses a slot when its count stays, ... *)
LEMMA AccountKept ==
  ASSUME TypeOK, TypeOK', SlotAccounted, UNCHANGED <<lost, stuck>>,
         \A s \in Slots : /\ HostHas(s)' = HostHas(s) /\ RxHas(s)' = RxHas(s)
                          /\ PumpHas(s)' = PumpHas(s) /\ TxHas(s)' = TxHas(s)
  PROVE  SlotAccounted'
BY HoldersAre, HeldOnce DEF SlotAccounted

(* ... as in every step of the network task and the steps of pump_channel  *)
(* that take no transfer-page packet and send no completion.               *)
LEMMA AccountUntouched ==
  ASSUME TypeOK, TypeOK', SlotAccounted,
         UNCHANGED <<host_free, lost, stuck>>,
         \A s \in Slots : PumpHas(s)' = PumpHas(s),
         \/ UNCHANGED rx_ring
         \/ rx_ring # << >> /\ rx_ring' = Tail(rx_ring) /\ Head(rx_ring).type # "xfer",
         \/ UNCHANGED tx_ring
         \/ \E c \in Content : tx_ring' = Append(tx_ring, RndisPkt(c))
  PROVE  SlotAccounted'
<1> SUFFICES ASSUME NEW s \in Slots
             PROVE  HostHas(s)' = HostHas(s) /\ RxHas(s)' = RxHas(s) /\ TxHas(s)' = TxHas(s)
  BY AccountKept
<1>1. HostHas(s)' = HostHas(s)
  BY DEF HostHas
<1>2. RxHas(s) \in Nat /\ TxHas(s) \in Nat
  BY HoldersAre
<1>3. RxHas(s)' = RxHas(s)
  <2>1. CASE UNCHANGED rx_ring
    BY <2>1 DEF RxHas
  <2>2. CASE rx_ring # << >> /\ rx_ring' = Tail(rx_ring) /\ Head(rx_ring).type # "xfer"
    <3>1. RxHas(s)' = RxHas(s) - 0
      BY <2>2, RxMoves
    <3> QED BY <1>2, <3>1
  <2> QED BY <2>1, <2>2
<1>4. TxHas(s)' = TxHas(s)
  <2>1. CASE UNCHANGED tx_ring
    BY <2>1 DEF TxHas
  <2>2. ASSUME NEW c \in Content, tx_ring' = Append(tx_ring, RndisPkt(c))
        PROVE  TxHas(s)' = TxHas(s)
    <3>1. RndisPkt(c) \in TxMessage /\ RndisPkt(c).type # "comp"
      BY MessageTypes DEF RndisPkt
    <3>2. TxHas(s)' = TxHas(s) + 0
      BY <2>2, <3>1, TxMoves
    <3> QED BY <1>2, <3>2
  <2> QED BY <2>1, <2>2
<1> QED BY <1>1, <1>3, <1>4

(* The steps of the network task, which handles no slot *)
LEMMA TaskAccount ==
  ASSUME TypeOK, TypeOK', SlotAccounted, Task, Control
  PROVE  SlotAccounted'
<1> USE DEF deviceVars, pumpVars, hostVars, history, CallPump
<1>1. UNCHANGED <<host_free, lost, stuck, rx_ring, pump_desc>>
  BY DEF Task, Call, receive, transmit, has_rx_packet, has_tx_space, recv_with, DropTxToken,
    transmit_with, transmit_post
<1>2. \/ UNCHANGED tx_ring
      \/ \E c \in Content : tx_ring' = Append(tx_ring, RndisPkt(c))
  <2>1. CASE transmit_post
    <3>1. [kind |-> "tx", n |-> txs] \in Content
      BY DEF Content, TypeOK
    <3> QED BY <2>1, <3>1 DEF transmit_post
  <2>2. CASE ~transmit_post
    BY <2>2 DEF Task, Call, receive, transmit, has_rx_packet, has_tx_space, recv_with, DropTxToken,
      transmit_with
  <2> QED BY <2>1, <2>2
<1>3. pump_pc' = pump_pc \/ (pump_pc = "off" /\ pump_pc' = "loop")
  <2>1. CASE receive \/ transmit
    BY <2>1 DEF receive, transmit, Control, TypeOK
  <2>2. CASE has_rx_packet
    BY <2>2 DEF has_rx_packet
  <2>3. CASE transmit_with
    BY <2>3 DEF transmit_with
  <2>4. CASE has_tx_space \/ recv_with \/ DropTxToken \/ transmit_post
    BY <2>4 DEF has_tx_space, recv_with, DropTxToken, transmit_post
  <2> QED BY <2>1, <2>2, <2>3, <2>4 DEF Task, Call
<1>4. \A s \in Slots : PumpHas(s)' = PumpHas(s)
  BY <1>1, <1>3 DEF PumpHas
<1> QED BY <1>1, <1>2, <1>4, AccountUntouched

(* pump_channel: a slot is on it from PumpXfer to send_completion. *)
LEMMA PumpAccount ==
  ASSUME TypeOK, TypeOK', SlotAccounted, Pump
  PROVE  SlotAccounted'
<1> USE DEF deviceVars, pumpVars, hostVars, history, PumpReturn
<1>1. CASE PumpEmpty \/ PumpFrame \/ PumpOther
  <2>1. /\ UNCHANGED <<host_free, lost, stuck, rx_ring, tx_ring, pump_desc>>
        /\ pump_pc \notin {"parse", "complete"} /\ pump_pc' \notin {"parse", "complete"}
    BY <1>1 DEF PumpEmpty, PumpFrame, PumpOther
  <2>2. \A s \in Slots : PumpHas(s)' = PumpHas(s)
    BY <2>1 DEF PumpHas
  <2> QED BY <2>1, <2>2, AccountUntouched
<1>2. CASE PumpTxComplete \/ PumpInBand
  <2>1. /\ UNCHANGED <<host_free, lost, stuck, tx_ring, pump_desc, pump_pc>>
        /\ rx_ring # << >> /\ rx_ring' = Tail(rx_ring) /\ Head(rx_ring).type # "xfer"
    BY <1>2 DEF PumpTxComplete, PumpInBand
  <2>2. \A s \in Slots : PumpHas(s)' = PumpHas(s)
    BY <2>1 DEF PumpHas
  <2> QED BY <2>1, <2>2, AccountUntouched
<1>3. CASE parse_xfer_page_packet
  <2>1. /\ UNCHANGED <<host_free, lost, stuck, rx_ring, tx_ring, pump_desc>>
        /\ pump_pc = "parse" /\ pump_pc' = "complete"
    BY <1>3 DEF parse_xfer_page_packet
  <2>2. \A s \in Slots : PumpHas(s)' = PumpHas(s)
    BY <2>1 DEF PumpHas
  <2> QED BY <2>1, <2>2, AccountUntouched
<1>4. CASE send_rndis_control_inner
  <2>1. /\ UNCHANGED <<host_free, lost, stuck, rx_ring, pump_desc>>
        /\ pump_pc = "dispatch" /\ pump_pc' = "loop"
        /\ \/ UNCHANGED tx_ring
           \/ tx_ring' = Append(tx_ring, RndisPkt([kind |-> "reply", n |-> pump_data.n]))
    BY <1>4 DEF send_rndis_control_inner
  <2>2. \A s \in Slots : PumpHas(s)' = PumpHas(s)
    BY <2>1 DEF PumpHas
  <2>3. [kind |-> "reply", n |-> pump_data.n] \in Content
    BY DEF Content, TypeOK
  <2> QED BY <2>1, <2>2, <2>3, AccountUntouched
<1>5. CASE PumpSlotFull
  <2>1. /\ UNCHANGED <<host_free, stuck, tx_ring>>
        /\ pump_pc = "loop" /\ pump_pc' = "off"
        /\ rx_ring # << >> /\ rx_ring' = Tail(rx_ring) /\ Head(rx_ring).type = "xfer"
        /\ lost' = lost \cup Range(Head(rx_ring).ranges)
    BY <1>5, ZenonT(30) DEF PumpSlotFull
  <2> SUFFICES ASSUME NEW s \in Slots
               PROVE  HostHas(s)' + RxHas(s)' + PumpHas(s)' + TxHas(s)'
                        = IF s \in lost' \cup stuck' THEN 0 ELSE 1
    BY HoldersAre DEF SlotAccounted
  <2>2. HostHas(s)' = HostHas(s) /\ PumpHas(s)' = 0 /\ PumpHas(s) = 0 /\ TxHas(s)' = TxHas(s)
    BY <2>1 DEF HostHas, PumpHas, TxHas
  <2>3. CASE s \in Range(Head(rx_ring).ranges)
    <3>1. RxHas(s)' = RxHas(s) - 1 /\ RxHas(s) >= 1
      BY <2>1, <2>3, RxMoves
    <3>2. s \in lost'
      BY <2>1, <2>3
    <3> QED BY <2>2, <3>1, <3>2, HeldOnce, SMTT(30)
  <2>4. CASE s \notin Range(Head(rx_ring).ranges)
    <3>1. RxHas(s)' = RxHas(s) - 0
      BY <2>1, <2>4, RxMoves
    <3>2. s \in lost' \cup stuck' <=> s \in lost \cup stuck
      BY <2>1, <2>4
    <3> QED BY <2>2, <3>1, <3>2, HeldOnce, SMTT(30)
  <2> QED BY <2>3, <2>4, SMTT(30)
<1>6. CASE PumpXfer
  <2>1. /\ UNCHANGED <<host_free, stuck, lost, tx_ring>>
        /\ pump_pc = "loop" /\ pump_pc' = "parse" /\ pump_desc' = Head(rx_ring)
        /\ rx_ring # << >> /\ rx_ring' = Tail(rx_ring) /\ Head(rx_ring).type = "xfer"
    BY <1>6 DEF PumpXfer
  <2> SUFFICES ASSUME NEW s \in Slots
               PROVE  HostHas(s)' + RxHas(s)' + PumpHas(s)' + TxHas(s)'
                        = IF s \in lost \cup stuck THEN 0 ELSE 1
    BY <2>1, HoldersAre DEF SlotAccounted
  <2>2. HostHas(s)' = HostHas(s) /\ PumpHas(s) = 0 /\ TxHas(s)' = TxHas(s)
    BY <2>1 DEF HostHas, PumpHas, TxHas
  <2>3. CASE s \in Range(Head(rx_ring).ranges)
    <3>1. RxHas(s)' = RxHas(s) - 1 /\ RxHas(s) >= 1
      <4>1. /\ RxHas(s)' = RxHas(s) - IF Head(rx_ring).type = "xfer"
                                          /\ s \in Range(Head(rx_ring).ranges) THEN 1 ELSE 0
            /\ Head(rx_ring).type = "xfer" /\ s \in Range(Head(rx_ring).ranges)
                 => RxHas(s) >= 1
        BY <2>1, RxMoves, ZenonT(30)
      <4> QED BY <2>1, <2>3, <4>1
    <3>2. PumpHas(s)' = 1
      BY <2>1, <2>3, ZenonT(30) DEF PumpHas
    <3> QED BY <2>2, <3>1, <3>2, HeldOnce, SMTT(30)
  <2>4. CASE s \notin Range(Head(rx_ring).ranges)
    <3>1. RxHas(s)' = RxHas(s) - 0
      BY <2>1, <2>4, RxMoves
    <3>2. PumpHas(s)' = 0
      BY <2>1, <2>4 DEF PumpHas
    <3> QED BY <2>2, <3>1, <3>2, HeldOnce, SMTT(30)
  <2> QED BY <2>3, <2>4
<1>7. CASE send_completion
  <2>1. /\ UNCHANGED <<host_free, lost, rx_ring, pump_desc>>
        /\ pump_pc = "complete" /\ pump_pc' = "dispatch"
    BY <1>7 DEF send_completion
  <2> SUFFICES ASSUME NEW s \in Slots
               PROVE  HostHas(s)' + RxHas(s)' + PumpHas(s)' + TxHas(s)'
                        = IF s \in lost' \cup stuck' THEN 0 ELSE 1
    BY HoldersAre DEF SlotAccounted
  <2>2. /\ HostHas(s)' = HostHas(s) /\ RxHas(s)' = RxHas(s) /\ PumpHas(s)' = 0
        /\ PumpHas(s) = IF s \in Range(pump_desc.ranges) THEN 1 ELSE 0
    BY <2>1 DEF HostHas, PumpHas, RxHas
  <2>3. CASE RoomToSend
    <3>1. UNCHANGED stuck /\ tx_ring' = Append(tx_ring, Completion(pump_desc.ranges))
      BY <1>7, <2>3 DEF send_completion
    <3>2. pump_desc.ranges \in Ranges
      BY DEF TypeOK, RxMessage
    <3>3. /\ Completion(pump_desc.ranges) \in TxMessage
          /\ Completion(pump_desc.ranges).type = "comp"
          /\ Completion(pump_desc.ranges).ranges = pump_desc.ranges
      BY <3>2, MessageTypes DEF Completion
    <3>4. TxHas(s)' = TxHas(s) + IF s \in Range(pump_desc.ranges) THEN 1 ELSE 0
      BY <3>1, <3>3, TxMoves
    <3> QED BY <2>1, <2>2, <3>1, <3>4, HeldOnce
  <2>4. CASE ~RoomToSend
    <3>1. UNCHANGED tx_ring /\ stuck' = stuck \cup Range(pump_desc.ranges)
      BY <1>7, <2>4 DEF send_completion
    <3>2. TxHas(s)' = TxHas(s)
      BY <3>1 DEF TxHas
    <3> QED BY <2>1, <2>2, <3>1, <3>2, HeldOnce
  <2> QED BY <2>3, <2>4
<1> QED BY <1>1, <1>2, <1>3, <1>4, <1>5, <1>6, <1>7 DEF Pump

(* The host lends the slots it has, and gets back those that a completion  *)
(* returns.                                                                *)
LEMMA HostAccount ==
  ASSUME TypeOK, TypeOK', SlotAccounted, Host
  PROVE  SlotAccounted'
<1> USE DEF deviceVars, pumpVars, hostVars, history
<1>1. ASSUME NEW kind \in Kinds, NEW ranges \in Ranges, HostXfer(kind, ranges)
      PROVE  SlotAccounted'
  <2> DEFINE m == XferPages(ranges, xfers + 1)
  <2>1. /\ UNCHANGED <<lost, stuck, tx_ring, pump_pc, pump_desc>>
        /\ host_free' = host_free \ Range(ranges) /\ Range(ranges) \subseteq host_free
        /\ rx_ring' = Append(rx_ring, m)
    BY <1>1 DEF HostXfer
  <2>2. m.type = "xfer" /\ m.ranges = ranges /\ m \in RxMessage
    <3>1. xfers + 1 \in Nat
      BY DEF TypeOK
    <3> QED BY <3>1, MessageTypes DEF XferPages
  <2> HIDE DEF m
  <2> SUFFICES ASSUME NEW s \in Slots
               PROVE  HostHas(s)' + RxHas(s)' + PumpHas(s)' + TxHas(s)'
                        = IF s \in lost \cup stuck THEN 0 ELSE 1
    BY <2>1, HoldersAre DEF SlotAccounted
  <2>3. PumpHas(s)' = PumpHas(s) /\ TxHas(s)' = TxHas(s)
    BY <2>1, SMTT(30) DEF PumpHas, TxHas
  <2>4. RxHas(s)' = RxHas(s) + IF s \in Range(ranges) THEN 1 ELSE 0
    BY <2>1, <2>2, RxMoves, ZenonT(30)
  <2>5. HostHas(s) = HostHas(s)' + IF s \in Range(ranges) THEN 1 ELSE 0
    BY <2>1 DEF HostHas
  <2>6. HostHas(s)' \in Nat
    BY DEF HostHas
  <2> QED BY <2>3, <2>4, <2>5, <2>6, HeldOnce
<1>2. CASE HostInBand
  <2>1. /\ UNCHANGED <<host_free, lost, stuck, tx_ring, pump_pc, pump_desc>>
        /\ rx_ring' = Append(rx_ring, InBand)
    BY <1>2 DEF HostInBand
  <2>2. InBand \in RxMessage /\ InBand.type # "xfer"
    BY MessageTypes DEF InBand
  <2>3. ASSUME NEW s \in Slots
        PROVE  /\ HostHas(s)' = HostHas(s) /\ PumpHas(s)' = PumpHas(s)
               /\ TxHas(s)' = TxHas(s) /\ RxHas(s)' = RxHas(s)
    <3>1. RxHas(s)' = RxHas(s) + IF InBand.type = "xfer" /\ s \in Range(InBand.ranges)
                                   THEN 1 ELSE 0
      BY <2>1, <2>2, RxMoves, Zenon
    <3>2. RxHas(s)' = RxHas(s)
      BY <2>2, <3>1, HoldersAre
    <3> QED BY <2>1, <3>2 DEF HostHas, PumpHas, TxHas
  <2> QED BY <2>1, <2>3, AccountKept
<1>3. CASE HostTakesBack
  <2>1. /\ UNCHANGED <<lost, stuck, rx_ring, pump_pc, pump_desc>>
        /\ tx_ring # << >> /\ tx_ring' = Tail(tx_ring) /\ Head(tx_ring).type = "comp"
        /\ host_free' = host_free \cup Range(Head(tx_ring).ranges)
    BY <1>3, ZenonT(30) DEF HostTakesBack
  <2> SUFFICES ASSUME NEW s \in Slots
               PROVE  HostHas(s)' + RxHas(s)' + PumpHas(s)' + TxHas(s)'
                        = IF s \in lost \cup stuck THEN 0 ELSE 1
    BY <2>1, HoldersAre DEF SlotAccounted
  <2>2. PumpHas(s)' = PumpHas(s) /\ RxHas(s)' = RxHas(s)
    BY <2>1 DEF PumpHas, RxHas
  <2>3. CASE s \in Range(Head(tx_ring).ranges)
    <3>1. TxHas(s)' = TxHas(s) - 1 /\ TxHas(s) >= 1
      BY <2>1, <2>3, TxMoves
    <3>2. HostHas(s)' = 1
      BY <2>1, <2>3 DEF HostHas
    <3> QED BY <2>2, <3>1, <3>2, HeldOnce
  <2>4. CASE s \notin Range(Head(tx_ring).ranges)
    <3>1. TxHas(s)' = TxHas(s) - 0
      BY <2>1, <2>4, TxMoves
    <3>2. HostHas(s)' = HostHas(s)
      BY <2>1, <2>4 DEF HostHas
    <3> QED BY <2>2, <3>1, <3>2, HeldOnce
  <2> QED BY <2>3, <2>4
<1>4. CASE HostTransmits
  <2>1. /\ UNCHANGED <<host_free, lost, stuck, pump_pc, pump_desc>>
        /\ rx_ring' = Append(rx_ring, TxComplete)
        /\ tx_ring # << >> /\ tx_ring' = Tail(tx_ring) /\ Head(tx_ring).type # "comp"
    BY <1>4 DEF HostTransmits
  <2>2. TxComplete \in RxMessage /\ TxComplete.type # "xfer"
    BY MessageTypes DEF TxComplete
  <2>3. ASSUME NEW s \in Slots
        PROVE  /\ HostHas(s)' = HostHas(s) /\ PumpHas(s)' = PumpHas(s)
               /\ TxHas(s)' = TxHas(s) /\ RxHas(s)' = RxHas(s)
    <3>1. RxHas(s)' = RxHas(s) + 0
      BY <2>1, <2>2, RxMoves
    <3>2. TxHas(s)' = TxHas(s) - 0
      BY <2>1, TxMoves
    <3> QED BY <2>1, <3>1, <3>2, HoldersAre, SMTT(30) DEF HostHas, PumpHas
  <2> QED BY <2>1, <2>3, AccountKept
<1> QED BY <1>1, <1>2, <1>3, <1>4, HostCases
-----------------------------------------------------------------------------
(* What the host fills is what it announces: the message in the first      *)
(* range has the packet's number, and no other slot is written.            *)
LEMMA HostFills ==
  ASSUME TypeOK, NEW kind \in Kinds, NEW ranges \in Ranges, HostXfer(kind, ranges)
  PROVE  /\ recv_buf'[Head(ranges)].n = xfers + 1
         /\ \A s \in Slots \ Range(ranges) : recv_buf'[s] = recv_buf[s]
         /\ Range(ranges) \subseteq host_free
<1> DEFINE pos(s) == CHOOSE i \in DOMAIN ranges : ranges[i] = s
<1>1. /\ recv_buf' = [s \in Slots |->
            IF s \notin Range(ranges) THEN recv_buf[s]
            ELSE [kind |-> IF pos(s) = 1 THEN kind ELSE "frame", n |-> xfers + pos(s)]]
      /\ ranges # << >> /\ Range(ranges) \subseteq host_free /\ IsInjective(ranges)
  BY DEF HostXfer
<1>2. /\ 1 \in DOMAIN ranges /\ ranges[1] = Head(ranges) /\ Head(ranges) \in Slots
      /\ Head(ranges) \in Range(ranges)
  BY <1>1, RangesType
<1>3. pos(Head(ranges)) = 1
  <2>1. pos(Head(ranges)) \in DOMAIN ranges /\ ranges[pos(Head(ranges))] = ranges[1]
    BY <1>2
  <2> HIDE DEF pos
  <2> QED BY <1>1, <1>2, <2>1 DEF IsInjective
<1>4. recv_buf'[Head(ranges)]
        = [kind |-> IF pos(Head(ranges)) = 1 THEN kind ELSE "frame", n |-> xfers + pos(Head(ranges))]
  <2> HIDE DEF pos
  <2> QED BY <1>1, <1>2
<1>5. recv_buf'[Head(ranges)].n = xfers + 1
  <2>1. recv_buf'[Head(ranges)].n = xfers + pos(Head(ranges))
    <3> HIDE DEF pos
    <3> QED BY <1>4
  <2> QED BY <1>3, <2>1, ZenonT(30)
<1>6. \A s \in Slots \ Range(ranges) : recv_buf'[s] = recv_buf[s]
  <2> HIDE DEF pos
  <2> QED BY <1>1
<1> QED BY <1>1, <1>5, <1>6

(* A step that fills no slot and announces none keeps Slotted as long as   *)
(* the account is kept and pump_channel's packet is.                       *)
LEMMA SlottedKept ==
  ASSUME TypeOK, Slotted, SlotAccounted', UNCHANGED recv_buf, NEW d \in 0 .. 1,
         \A i \in 1 .. Len(rx_ring') :
           \/ i + d \in 1 .. Len(rx_ring) /\ rx_ring'[i] = rx_ring[i + d]
           \/ rx_ring'[i].type # "xfer" /\ rx_ring'[i].ranges = << >>,
         pump_pc' \in Pumping => pump_desc'.type = "xfer" /\ pump_desc'.ranges # << >>,
         pump_pc' = "parse" => Announces(pump_desc'),
         CopiedBeforeReturned'
  PROVE  Slotted'
<1>1. \A p : Announces(p)' <=> Announces(p)
  BY DEF Announces
<1>2. \A i \in 1 .. Len(rx_ring') : Announces(rx_ring'[i]) \/ rx_ring'[i].ranges = << >>
  BY DEF Slotted
<1>3. \A i \in 1 .. Len(rx_ring') : rx_ring'[i].type = "xfer" => Announces(rx_ring'[i])
  BY DEF Slotted
<1>4. Announces(pump_desc)' <=> Announces(pump_desc')
  BY DEF Announces
<1>5. \A i \in 1 .. Len(rx_ring') : Announces(rx_ring[i])' <=> Announces(rx_ring'[i])
  BY DEF Announces
<1> QED BY <1>2, <1>3, <1>4, <1>5 DEF Slotted

(* The network task leaves the slots alone. *)
LEMMA TaskSlots ==
  ASSUME TypeOK, TypeOK', Control, Slotted, Task
  PROVE  Slotted'
<1>1. SlotAccounted'
  BY TaskAccount DEF Slotted
<1>2. UNCHANGED <<recv_buf, rx_ring, pump_desc, pump_data>>
      /\ (pump_pc' = pump_pc \/ pump_pc' = "loop")
  BY DEF Task, Call, receive, transmit, has_rx_packet, has_tx_space, recv_with, DropTxToken,
    transmit_with, transmit_post, deviceVars, pumpVars, hostVars, CallPump
<1>3. \A i \in 1 .. Len(rx_ring') :
        i + 0 \in 1 .. Len(rx_ring) /\ rx_ring'[i] = rx_ring[i + 0]
  BY <1>2
<1>4. /\ pump_pc' \in Pumping => pump_desc'.type = "xfer" /\ pump_desc'.ranges # << >>
      /\ pump_pc' = "parse" => Announces(pump_desc')
      /\ CopiedBeforeReturned'
  BY <1>2 DEF Slotted, CopiedBeforeReturned, Pumping
<1> QED BY <1>1, <1>2, <1>3, <1>4, SlottedKept

(* pump_channel copies the message its packet announced before the slot    *)
(* can go back.                                                            *)
LEMMA PumpSlots ==
  ASSUME TypeOK, TypeOK', Slotted, Pump
  PROVE  Slotted'
<1> USE DEF deviceVars, pumpVars, hostVars, history, PumpReturn
<1>1. SlotAccounted'
  BY PumpAccount, SMTT(30) DEF Slotted
<1>2. UNCHANGED recv_buf
  BY ZenonT(30) DEF Pump, PumpEmpty, PumpSlotFull, PumpXfer, PumpTxComplete, PumpInBand,
    parse_xfer_page_packet, send_completion, PumpFrame, send_rndis_control_inner, PumpOther
<1>3. CASE PumpEmpty \/ PumpFrame \/ PumpOther \/ send_rndis_control_inner
  <2>1. UNCHANGED rx_ring /\ pump_pc' \in {"off", "loop"}
    BY <1>3 DEF PumpEmpty, PumpFrame, PumpOther, send_rndis_control_inner
  <2>2. \A i \in 1 .. Len(rx_ring') :
          i + 0 \in 1 .. Len(rx_ring) /\ rx_ring'[i] = rx_ring[i + 0]
    BY <2>1
  <2>3. pump_pc' \notin Pumping /\ pump_pc' # "parse" /\ CopiedBeforeReturned'
    BY <2>1 DEF Pumping, CopiedBeforeReturned
  <2> QED BY <1>1, <1>2, <2>2, <2>3, 0 \in 0 .. 1, SlottedKept
<1>4. CASE PumpSlotFull \/ PumpTxComplete \/ PumpInBand
  <2>1. rx_ring # << >> /\ rx_ring' = Tail(rx_ring) /\ pump_pc' \in {"off", "loop"}
    BY <1>4 DEF PumpSlotFull, PumpTxComplete, PumpInBand
  <2>2. \A i \in 1 .. Len(rx_ring') :
          i + 1 \in 1 .. Len(rx_ring) /\ rx_ring'[i] = rx_ring[i + 1]
    BY <2>1, TakeRx
  <2>3. pump_pc' \notin Pumping /\ pump_pc' # "parse" /\ CopiedBeforeReturned'
    BY <2>1, SMTT(30) DEF Pumping, CopiedBeforeReturned
  <2> QED BY <1>1, <1>2, <2>2, <2>3, 1 \in 0 .. 1, SlottedKept
<1>5. CASE PumpXfer
  <2>1. /\ rx_ring # << >> /\ rx_ring' = Tail(rx_ring) /\ pump_pc' = "parse"
        /\ Head(rx_ring).type = "xfer" /\ pump_desc' = Head(rx_ring)
    BY <1>5 DEF PumpXfer
  <2>2. /\ \A i \in 1 .. Len(rx_ring') :
             i + 1 \in 1 .. Len(rx_ring) /\ rx_ring'[i] = rx_ring[i + 1]
        /\ 1 \in 1 .. Len(rx_ring) /\ rx_ring[1] = Head(rx_ring)
    BY <2>1, TakeRx
  <2>3. Announces(Head(rx_ring))
    BY <2>1, <2>2 DEF Slotted
  <2>4. Head(rx_ring).ranges # << >>
    BY <2>3 DEF Announces
  <2>5. CopiedBeforeReturned'
    BY <2>1 DEF CopiedBeforeReturned
  <2> QED BY <1>1, <1>2, <2>1, <2>2, <2>3, <2>4, <2>5, 1 \in 0 .. 1, SlottedKept
<1>6. CASE parse_xfer_page_packet
  <2>1. /\ UNCHANGED <<rx_ring, pump_desc>> /\ pump_pc = "parse" /\ pump_pc' = "complete"
        /\ pump_data' \in {None, recv_buf[Head(pump_desc.ranges)]}
    BY <1>6 DEF parse_xfer_page_packet
  <2>2. \A i \in 1 .. Len(rx_ring') :
          i + 0 \in 1 .. Len(rx_ring) /\ rx_ring'[i] = rx_ring[i + 0]
    BY <2>1
  <2>3. Announces(pump_desc)
    BY <2>1 DEF Slotted
  <2>4. /\ pump_desc.type = "xfer" /\ pump_desc.ranges # << >>
        /\ pump_data' # None => pump_data'.n = pump_desc.n
    BY <2>1, <2>3 DEF Announces
  <2> QED BY <1>1, <1>2, <2>1, <2>2, <2>4, SlottedKept DEF CopiedBeforeReturned
<1>7. CASE send_completion
  <2>1. /\ UNCHANGED <<rx_ring, pump_desc, pump_data>>
        /\ pump_pc = "complete" /\ pump_pc' = "dispatch"
    BY <1>7 DEF send_completion
  <2>2. \A i \in 1 .. Len(rx_ring') :
          i + 0 \in 1 .. Len(rx_ring) /\ rx_ring'[i] = rx_ring[i + 0]
    BY <2>1
  <2>3. pump_desc.type = "xfer" /\ pump_desc.ranges # << >> /\ CopiedBeforeReturned'
    BY <2>1 DEF Slotted, Pumping, CopiedBeforeReturned
  <2> QED BY <1>1, <1>2, <2>1, <2>2, <2>3, SlottedKept
<1> QED BY <1>3, <1>4, <1>5, <1>6, <1>7 DEF Pump

(* The host fills the slots it has, and no packet on its way announces one *)
(* of those.                                                               *)
LEMMA HostSlots ==
  ASSUME TypeOK, TypeOK', Slotted, Host
  PROVE  Slotted'
<1> USE DEF deviceVars, pumpVars, hostVars, history
<1>1. SlotAccounted' /\ SlotAccounted
  BY HostAccount DEF Slotted
<1>2. ASSUME NEW kind \in Kinds, NEW ranges \in Ranges, HostXfer(kind, ranges)
      PROVE  Slotted'
  <2> DEFINE m == XferPages(ranges, xfers + 1)
  <2>1. UNCHANGED <<pump_pc, pump_desc, pump_data>> /\ ranges # << >>
        /\ rx_ring' = Append(rx_ring, m) /\ Len(rx_ring) < RingCap
    BY <1>2 DEF HostXfer
  <2>2. m \in RxMessage /\ m.type = "xfer" /\ m.ranges = ranges /\ m.n = xfers + 1
    <3>1. xfers + 1 \in Nat
      BY DEF TypeOK
    <3> QED BY <3>1, MessageTypes DEF XferPages
  <2> HIDE DEF m
  <2>3. /\ Len(rx_ring) \in Nat /\ Len(rx_ring') = Len(rx_ring) + 1
        /\ rx_ring'[Len(rx_ring) + 1] = m
        /\ \A i \in 1 .. Len(rx_ring) : rx_ring'[i] = rx_ring[i]
    BY <2>1, <2>2, PutRx
  <2>4. /\ recv_buf'[Head(ranges)].n = xfers + 1
        /\ \A s \in Slots \ Range(ranges) : recv_buf'[s] = recv_buf[s]
        /\ Range(ranges) \subseteq host_free
    BY <1>2, HostFills
  <2>5. ASSUME NEW p \in RxMessage, Announces(p),
               (p = pump_desc /\ pump_pc = "parse") \/ (\E i \in 1 .. Len(rx_ring) : p = rx_ring[i])
        PROVE  recv_buf'[Head(p.ranges)].n = p.n
    <3> DEFINE s == Head(p.ranges)
    <3>1. p.type = "xfer" /\ p.ranges \in Ranges /\ p.ranges # << >> /\ recv_buf[s].n = p.n
      BY <2>5 DEF Announces, RxMessage
    <3>2. s \in Slots /\ s \in Range(p.ranges)
      BY <3>1, RangesType
    <3> HIDE DEF s
    <3>3. RxHas(s) >= 1 \/ PumpHas(s) >= 1
      <4>1. CASE p = pump_desc /\ pump_pc = "parse"
        BY <3>2, <4>1 DEF PumpHas
      <4>2. CASE \E i \in 1 .. Len(rx_ring) : p = rx_ring[i]
        BY <1>1, <3>1, <3>2, <4>2, HeldOnce
      <4> QED BY <2>5, <4>1, <4>2
    <3>4. HostHas(s) # 1
      BY <1>1, <3>2, <3>3, HeldOnce
    <3>5. s \notin Range(ranges)
      BY <2>4, <3>4 DEF HostHas
    <3> QED BY <2>4, <3>1, <3>2, <3>5 DEF s
  <2>6. \A i \in 1 .. Len(rx_ring) : rx_ring[i] \in RxMessage
    BY SeqType DEF TypeOK
  <2>7. ASSUME NEW i \in 1 .. Len(rx_ring')
        PROVE  /\ Announces(rx_ring[i])' \/ rx_ring'[i].ranges = << >>
               /\ rx_ring'[i].type = "xfer" => Announces(rx_ring[i])'
    <3>1. CASE i \in 1 .. Len(rx_ring)
      <4>1. rx_ring'[i] = rx_ring[i]
        BY <2>3, <3>1
      <4>2. Announces(rx_ring[i]) => recv_buf'[Head(rx_ring[i].ranges)].n = rx_ring[i].n
        BY <2>5, <2>6, <3>1
      <4>3. Announces(rx_ring[i]) => Announces(rx_ring[i])'
        BY <4>1, <4>2 DEF Announces
      <4> QED BY <3>1, <4>1, <4>3 DEF Slotted
    <3>2. CASE i = Len(rx_ring) + 1
      <4>1. rx_ring'[i] = m
        BY <2>3, <3>2
      <4> QED BY <2>1, <2>2, <2>4, <4>1 DEF Announces
    <3> QED BY <2>3, <3>1, <3>2
  <2>8. pump_pc' = "parse" => Announces(pump_desc)'
    <3> SUFFICES ASSUME pump_pc = "parse" PROVE Announces(pump_desc)'
      BY <2>1
    <3>1. Announces(pump_desc) /\ pump_desc \in RxMessage
      BY DEF Slotted, TypeOK
    <3>2. recv_buf'[Head(pump_desc.ranges)].n = pump_desc.n
      BY <2>5, <3>1, SMTT(30)
    <3> QED BY <2>1, <3>1, <3>2 DEF Announces
  <2> QED BY <1>1, <2>1, <2>7, <2>8 DEF Slotted, CopiedBeforeReturned
<1>3. CASE HostInBand \/ HostTransmits
  <2>1. UNCHANGED <<pump_pc, pump_desc, pump_data, recv_buf>> /\ Len(rx_ring) < RingCap
        /\ \E m \in {InBand, TxComplete} : rx_ring' = Append(rx_ring, m)
    BY <1>3 DEF HostInBand, HostTransmits
  <2>2. PICK m \in {InBand, TxComplete} : rx_ring' = Append(rx_ring, m)
    BY <2>1
  <2>3. m \in RxMessage /\ m.type # "xfer" /\ m.ranges = << >>
    BY MessageTypes DEF InBand, TxComplete
  <2>4. /\ Len(rx_ring) \in Nat /\ Len(rx_ring') = Len(rx_ring) + 1
        /\ rx_ring'[Len(rx_ring) + 1] = m
        /\ \A i \in 1 .. Len(rx_ring) : rx_ring'[i] = rx_ring[i]
    BY <2>1, <2>2, <2>3, PutRx
  <2>5. \A i \in 1 .. Len(rx_ring') :
           \/ i + 0 \in 1 .. Len(rx_ring) /\ rx_ring'[i] = rx_ring[i + 0]
           \/ rx_ring'[i].type # "xfer" /\ rx_ring'[i].ranges = << >>
    BY <2>3, <2>4
  <2>6. /\ pump_pc' \in Pumping => pump_desc'.type = "xfer" /\ pump_desc'.ranges # << >>
        /\ pump_pc' = "parse" => Announces(pump_desc')
        /\ CopiedBeforeReturned'
    BY <2>1 DEF Slotted, CopiedBeforeReturned
  <2> QED BY <1>1, <2>1, <2>5, <2>6, SlottedKept
<1>4. CASE HostTakesBack
  <2>1. UNCHANGED <<rx_ring, pump_pc, pump_desc, pump_data, recv_buf>>
    BY <1>4 DEF HostTakesBack
  <2>2. \A i \in 1 .. Len(rx_ring') :
          i + 0 \in 1 .. Len(rx_ring) /\ rx_ring'[i] = rx_ring[i + 0]
    BY <2>1
  <2>3. /\ pump_pc' \in Pumping => pump_desc'.type = "xfer" /\ pump_desc'.ranges # << >>
        /\ pump_pc' = "parse" => Announces(pump_desc')
        /\ CopiedBeforeReturned'
    BY <2>1 DEF Slotted, CopiedBeforeReturned
  <2> QED BY <1>1, <2>1, <2>2, <2>3, SlottedKept
<1> QED BY <1>2, <1>3, <1>4, HostCases
-----------------------------------------------------------------------------
(* Message numbers are numbers. *)
LEMMA Numbers ==
  ASSUME TypeOK
  PROVE  /\ xfers \in Nat /\ pump_desc.n \in Nat /\ Len(rx_ring) \in Nat /\ Len(delivered) \in Nat
         /\ pending_rx # None => pending_rx.n \in Nat
         /\ \A i \in 1 .. Len(delivered) : delivered[i].n \in Nat
         /\ \A i \in 1 .. Len(rx_ring) : rx_ring[i] \in RxMessage /\ rx_ring[i].n \in Nat
<1>1. /\ \A i \in 1 .. Len(delivered) : delivered[i] \in PendingRx
      /\ \A i \in 1 .. Len(rx_ring) : rx_ring[i] \in RxMessage
      /\ Len(rx_ring) \in Nat /\ Len(delivered) \in Nat
  BY SeqType DEF TypeOK
<1>2. pump_desc \in RxMessage /\ xfers \in Nat /\ (pending_rx # None => pending_rx \in PendingRx)
  BY SMTT(30) DEF TypeOK
<1> QED BY <1>1, <1>2 DEF PendingRx, RxMessage

(* A step that puts no message into the path or only takes the first one   *)
(* out of it keeps the order.                                              *)
LEMMA OrderKept ==
  ASSUME TypeOK, Ordered, NEW d \in 0 .. 1, UNCHANGED <<delivered, pending_rx>>,
         xfers' \in Nat, xfers <= xfers',
         pump_pc' \in Pumping => pump_pc \in Pumping /\ pump_desc' = pump_desc,
         \A i \in 1 .. Len(rx_ring') : rx_ring'[i].type = "xfer" =>
           i + d \in 1 .. Len(rx_ring) /\ rx_ring'[i] = rx_ring[i + d]
  PROVE  Ordered'
<1>1. \A n : Before(n)' <=> Before(n)
  BY SMTT(30) DEF Before
<1>2. DeliveredInOrder' /\ (pending_rx' # None =>
                              \A i \in 1 .. Len(delivered') : delivered'[i].n < pending_rx'.n)
  BY ZenonT(30) DEF Ordered, DeliveredInOrder
<1>3. pump_pc' \in Pumping => Before(pump_desc'.n) /\ pump_desc'.n <= xfers'
  <2> SUFFICES ASSUME pump_pc' \in Pumping PROVE Before(pump_desc'.n) /\ pump_desc'.n <= xfers'
    OBVIOUS
  <2>1. Before(pump_desc.n) /\ pump_desc.n <= xfers
    BY DEF Ordered
  <2> QED BY <2>1, Numbers
<1>4. ASSUME NEW i \in 1 .. Len(rx_ring'), rx_ring'[i].type = "xfer"
      PROVE  /\ Before(rx_ring'[i].n) /\ rx_ring'[i].n <= xfers'
             /\ pump_pc' \in Pumping => pump_desc'.n < rx_ring'[i].n
             /\ \A j \in 1 .. Len(rx_ring') :
                  i < j /\ rx_ring'[j].type = "xfer" => rx_ring'[i].n < rx_ring'[j].n
  <2>1. i + d \in 1 .. Len(rx_ring) /\ rx_ring'[i] = rx_ring[i + d]
    BY <1>4
  <2>2. /\ Before(rx_ring[i + d].n) /\ rx_ring[i + d].n <= xfers
        /\ pump_pc \in Pumping => pump_desc.n < rx_ring[i + d].n
    BY <1>4, <2>1 DEF Ordered
  <2>3. rx_ring'[i].n <= xfers'
    BY <2>1, <2>2, Numbers
  <2>4. ASSUME NEW j \in 1 .. Len(rx_ring'), i < j, rx_ring'[j].type = "xfer"
        PROVE  rx_ring'[i].n < rx_ring'[j].n
    <3>1. j + d \in 1 .. Len(rx_ring) /\ rx_ring'[j] = rx_ring[j + d] /\ i + d < j + d
      BY <2>4
    <3> QED BY <1>4, <2>1, <2>4, <3>1 DEF Ordered
  <2> QED BY <2>1, <2>2, <2>3, <2>4
<1>5. Before(xfers + 1)
  BY DEF Ordered
<1>6. Before(xfers' + 1)
  BY <1>5, Numbers DEF Before
<1>7. Before(xfers + 1)'
  BY <1>6 DEF Before
<1>8. pump_pc' \in Pumping => Before(pump_desc.n)' /\ (pump_desc.n <= xfers)'
  BY <1>3 DEF Before
<1>9. \A i \in 1 .. Len(rx_ring') : Before(rx_ring'[i].n) => Before(rx_ring[i].n)'
  BY DEF Before
<1> QED BY <1>2, <1>4, <1>7, <1>8, <1>9 DEF Ordered

(* recv_with hands over the frame that follows the ones before. *)
LEMMA TaskOrder ==
  ASSUME TypeOK, Control, Ordered, Task
  PROVE  Ordered'
<1> USE DEF deviceVars, pumpVars, hostVars, history, CallPump
<1>1. CASE ~recv_with \/ pending_rx = None
  <2>1. UNCHANGED <<delivered, pending_rx, xfers, rx_ring, pump_desc>>
        /\ (pump_pc' = pump_pc \/ pump_pc' = "loop")
    <3>1. CASE receive \/ transmit \/ has_rx_packet \/ has_tx_space
      BY <3>1 DEF receive, transmit, has_rx_packet, has_tx_space
    <3>2. CASE DropTxToken \/ transmit_with \/ transmit_post
      BY <3>2 DEF DropTxToken, transmit_with, transmit_post
    <3>3. CASE recv_with
      BY <1>1, <3>3 DEF recv_with
    <3> QED BY <3>1, <3>2, <3>3 DEF Task, Call
  <2>2. \A i \in 1 .. Len(rx_ring') : rx_ring'[i].type = "xfer" =>
          i + 0 \in 1 .. Len(rx_ring) /\ rx_ring'[i] = rx_ring[i + 0]
    BY <2>1
  <2>3. xfers' \in Nat /\ xfers <= xfers'
    BY <2>1, Numbers
  <2> QED BY <2>1, <2>2, <2>3, OrderKept DEF Pumping
<1>2. CASE recv_with /\ pending_rx # None
  <2>1. /\ pending_rx' = None /\ delivered' = Append(delivered, pending_rx)
        /\ UNCHANGED <<rx_ring, xfers, pump_pc, pump_desc>> /\ pump_pc' \notin Pumping
    BY <1>2 DEF recv_with, Control, Pumping
  <2>2. /\ Len(delivered) \in Nat /\ Len(delivered') = Len(delivered) + 1
        /\ delivered'[Len(delivered) + 1] = pending_rx
        /\ \A i \in 1 .. Len(delivered) : delivered'[i] = delivered[i]
    <3>1. delivered \in Seq(PendingRx) /\ pending_rx \in PendingRx
      BY <1>2 DEF TypeOK
    <3> QED BY <2>1, <3>1, RingPut
  <2>3. \A i \in 1 .. Len(delivered') :
          \/ i \in 1 .. Len(delivered) /\ delivered'[i] = delivered[i]
          \/ i = Len(delivered) + 1 /\ delivered'[i] = pending_rx
    BY <2>2
  <2>4. \A n : Before(n) => Before(n)'
    BY <1>2, <2>1, <2>3 DEF Before
  <2>5. DeliveredInOrder'
    <3> SUFFICES ASSUME NEW i \in 1 .. Len(delivered'), NEW j \in 1 .. Len(delivered'), i < j
                 PROVE  delivered'[i].n < delivered'[j].n
      BY DEF DeliveredInOrder
    <3>1. i \in 1 .. Len(delivered) /\ delivered'[i] = delivered[i]
      BY <2>2, <2>3
    <3>2. CASE j = Len(delivered) + 1
      BY <1>2, <2>2, <3>1, <3>2 DEF Ordered
    <3>3. CASE j \in 1 .. Len(delivered)
      BY <2>2, <3>1, <3>3 DEF Ordered, DeliveredInOrder
    <3> QED BY <2>3, <3>2, <3>3
  <2>6. Before(xfers + 1)'
    <3>1. Before(xfers + 1)
      BY DEF Ordered
    <3> QED BY <2>1, <2>4, <3>1 DEF Before
  <2>7. ASSUME NEW i \in 1 .. Len(rx_ring'), rx_ring'[i].type = "xfer"
        PROVE  /\ Before(rx_ring[i].n)' /\ rx_ring'[i].n <= xfers'
               /\ \A j \in 1 .. Len(rx_ring') :
                    i < j /\ rx_ring'[j].type = "xfer" => rx_ring'[i].n < rx_ring'[j].n
    <3>1. Before(rx_ring[i].n)
      BY <2>1, <2>7 DEF Ordered
    <3>2. Before(rx_ring[i].n)'
      BY <2>1, <2>4, <3>1 DEF Before
    <3> QED BY <2>1, <2>7, <3>2, SMTT(30) DEF Ordered
  <2> QED BY <2>1, <2>5, <2>6, <2>7 DEF Ordered
<1> QED BY <1>1, <1>2

(* pump_channel works on the first message of the ring, and the frame it   *)
(* puts into pending_rx has that message's number.                         *)
LEMMA PumpOrder ==
  ASSUME TypeOK, Control, Slotted, Ordered, Pump
  PROVE  Ordered'
<1> USE DEF deviceVars, pumpVars, hostVars, history, PumpReturn
<1>1. UNCHANGED <<xfers, delivered>> /\ xfers' \in Nat /\ xfers <= xfers'
  <2>1. UNCHANGED <<xfers, delivered>>
    BY ZenonT(30) DEF Pump, PumpEmpty, PumpSlotFull, PumpXfer, PumpTxComplete, PumpInBand,
      parse_xfer_page_packet, send_completion, PumpFrame, send_rndis_control_inner, PumpOther
  <2> QED BY <2>1, Numbers, SMTT(30)
<1>2. CASE PumpEmpty \/ PumpOther \/ send_rndis_control_inner \/ parse_xfer_page_packet
           \/ send_completion
  <2>1. UNCHANGED <<pending_rx, rx_ring, pump_desc>>
        /\ (pump_pc' \in {"off", "loop"} \/ (pump_pc \in Pumping /\ pump_pc' \in Pumping))
    BY <1>2 DEF PumpEmpty, PumpOther, send_rndis_control_inner, parse_xfer_page_packet,
      send_completion, Pumping
  <2>2. \A i \in 1 .. Len(rx_ring') : rx_ring'[i].type = "xfer" =>
          i + 0 \in 1 .. Len(rx_ring) /\ rx_ring'[i] = rx_ring[i + 0]
    BY <2>1
  <2>3. pump_pc' \in Pumping => pump_pc \in Pumping /\ pump_desc' = pump_desc
    BY <2>1 DEF Pumping
  <2> QED BY <1>1, <2>1, <2>2, <2>3, OrderKept, SMTT(30)
<1>3. CASE PumpSlotFull \/ PumpTxComplete \/ PumpInBand
  <2>1. /\ rx_ring # << >> /\ rx_ring' = Tail(rx_ring) /\ pump_pc' \in {"off", "loop"}
        /\ UNCHANGED pending_rx
    BY <1>3 DEF PumpSlotFull, PumpTxComplete, PumpInBand
  <2>2. \A i \in 1 .. Len(rx_ring') : rx_ring'[i].type = "xfer" =>
          i + 1 \in 1 .. Len(rx_ring) /\ rx_ring'[i] = rx_ring[i + 1]
    BY <2>1, TakeRx
  <2>3. pump_pc' \in Pumping => pump_pc \in Pumping /\ pump_desc' = pump_desc
    BY <2>1 DEF Pumping
  <2> QED BY <1>1, <2>1, <2>2, <2>3, OrderKept
<1>4. CASE PumpXfer
  <2>1. /\ rx_ring # << >> /\ rx_ring' = Tail(rx_ring) /\ Head(rx_ring).type = "xfer"
        /\ pump_desc' = Head(rx_ring) /\ UNCHANGED pending_rx
    BY <1>4 DEF PumpXfer
  <2>2. /\ Len(rx_ring) \in Nat \ {0} /\ rx_ring[1] = Head(rx_ring)
        /\ \A i \in 1 .. Len(rx_ring') :
             rx_ring'[i] = rx_ring[i + 1] /\ i + 1 \in 1 .. Len(rx_ring)
    BY <2>1, TakeRx
  <2>3. 1 \in 1 .. Len(rx_ring) /\ rx_ring[1].type = "xfer" /\ pump_desc'.n = rx_ring[1].n
    BY <2>1, <2>2
  <2>4. \A n : Before(n) => Before(n)'
    BY <1>1, <2>1 DEF Before
  <2>5. Before(pump_desc.n)' /\ pump_desc'.n <= xfers'
    <3>1. Before(rx_ring[1].n) /\ rx_ring[1].n <= xfers
      BY <2>3 DEF Ordered
    <3> QED BY <1>1, <2>1, <2>3, <3>1 DEF Before
  <2>6. ASSUME NEW i \in 1 .. Len(rx_ring'), rx_ring'[i].type = "xfer"
        PROVE  /\ Before(rx_ring[i].n)' /\ rx_ring'[i].n <= xfers'
               /\ pump_desc'.n < rx_ring'[i].n
               /\ \A j \in 1 .. Len(rx_ring') :
                    i < j /\ rx_ring'[j].type = "xfer" => rx_ring'[i].n < rx_ring'[j].n
    <3>1. rx_ring'[i] = rx_ring[i + 1] /\ i + 1 \in 1 .. Len(rx_ring) /\ 1 < i + 1
      BY <2>2
    <3>2. Before(rx_ring[i + 1].n) /\ rx_ring[i + 1].n <= xfers
      BY <2>6, <3>1 DEF Ordered
    <3>3. rx_ring[1].n < rx_ring[i + 1].n
      BY <2>3, <2>6, <3>1 DEF Ordered
    <3>4. ASSUME NEW j \in 1 .. Len(rx_ring'), i < j, rx_ring'[j].type = "xfer"
          PROVE  rx_ring'[i].n < rx_ring'[j].n
      <4>1. rx_ring'[j] = rx_ring[j + 1] /\ j + 1 \in 1 .. Len(rx_ring) /\ i + 1 < j + 1
        BY <2>2, <3>4
      <4> QED BY <2>6, <3>1, <3>4, <4>1 DEF Ordered
    <3>5. Before(rx_ring[i].n)'
      BY <1>1, <2>1, <3>1, <3>2 DEF Before
    <3> QED BY <1>1, <2>3, <3>1, <3>2, <3>3, <3>4, <3>5
  <2>7. Before(xfers + 1)' /\ DeliveredInOrder'
        /\ (pending_rx' # None => \A i \in 1 .. Len(delivered') : delivered'[i].n < pending_rx'.n)
    BY <1>1, <2>1, SMTT(30) DEF Ordered, Before, DeliveredInOrder
  <2> QED BY <2>5, <2>6, <2>7 DEF Ordered
<1>5. CASE PumpFrame
  <2>1. /\ pump_pc = "dispatch" /\ pump_pc' = "loop" /\ UNCHANGED rx_ring
        /\ pending_rx' = Piece(pump_data, Extracted)
    BY <1>5 DEF PumpFrame
  <2>2. pending_rx'.n = pump_desc.n /\ pending_rx = None
    <3>1. pump_data # None
      <4>1. DOMAIN Packets = {"frame", "long"}
        BY DEF Packets
      <4>2. None.kind = "none"
        BY DEF None
      <4> QED BY <1>5, <4>1, <4>2, SMTT(30) DEF PumpFrame, Extracted
    <3>2. pump_data.n = pump_desc.n
      BY <2>1, <3>1 DEF Slotted, CopiedBeforeReturned
    <3> QED BY <2>1, <3>2 DEF Piece, Control, Pumping
  <2>3. Before(pump_desc.n) /\ pump_desc.n <= xfers
    BY <2>1 DEF Ordered, Pumping
  <2>4. \A n : Before(n) /\ pump_desc.n < n => Before(n)'
    BY <1>1, <2>2 DEF Before
  <2>5. DeliveredInOrder'
        /\ (pending_rx' # None => \A i \in 1 .. Len(delivered') : delivered'[i].n < pending_rx'.n)
    BY <1>1, <2>2, <2>3 DEF Ordered, Before, DeliveredInOrder
  <2>6. ASSUME NEW i \in 1 .. Len(rx_ring'), rx_ring'[i].type = "xfer"
        PROVE  /\ Before(rx_ring[i].n)' /\ rx_ring'[i].n <= xfers'
               /\ \A j \in 1 .. Len(rx_ring') :
                    i < j /\ rx_ring'[j].type = "xfer" => rx_ring'[i].n < rx_ring'[j].n
    <3>1. /\ Before(rx_ring[i].n) /\ rx_ring[i].n <= xfers /\ pump_desc.n < rx_ring[i].n
          /\ \A j \in 1 .. Len(rx_ring) :
                    i < j /\ rx_ring[j].type = "xfer" => rx_ring[i].n < rx_ring[j].n
      BY <2>1, <2>6, ZenonT(30) DEF Ordered, Pumping
    <3>2. Before(rx_ring[i].n)'
      BY <1>1, <2>1, <2>2, <3>1, ZenonT(30) DEF Before
    <3> QED BY <1>1, <2>1, <3>1, <3>2, SMTT(30)
  <2>7. Before(xfers + 1)'
    <3>1. Before(xfers + 1) /\ pump_desc.n < xfers + 1
      BY <2>3, Numbers DEF Ordered
    <3> QED BY <1>1, <2>2, <3>1 DEF Before
  <2> QED BY <2>1, <2>5, <2>6, <2>7 DEF Ordered, Pumping
<1> QED BY <1>2, <1>3, <1>4, <1>5 DEF Pump

(* The host numbers its messages upwards. *)
LEMMA HostOrder ==
  ASSUME TypeOK, Ordered, Host
  PROVE  Ordered'
<1> USE DEF deviceVars, pumpVars, hostVars, history
<1>1. ASSUME NEW kind \in Kinds, NEW ranges \in Ranges, HostXfer(kind, ranges)
      PROVE  Ordered'
  <2> DEFINE m == XferPages(ranges, xfers + 1)
  <2>1. /\ UNCHANGED <<pump_pc, pump_desc, pending_rx, delivered>>
        /\ rx_ring' = Append(rx_ring, m) /\ Len(rx_ring) < RingCap
        /\ ranges # << >> /\ xfers' = xfers + Len(ranges)
    BY <1>1 DEF HostXfer
  <2>2. m \in RxMessage /\ m.type = "xfer" /\ m.n = xfers + 1
    <3>1. xfers + 1 \in Nat
      BY DEF TypeOK
    <3> QED BY <3>1, MessageTypes DEF XferPages
  <2> HIDE DEF m
  <2>3. /\ Len(rx_ring) \in Nat /\ Len(rx_ring') = Len(rx_ring) + 1
        /\ rx_ring'[Len(rx_ring) + 1] = m
        /\ \A i \in 1 .. Len(rx_ring) : rx_ring'[i] = rx_ring[i]
    BY <2>1, <2>2, PutRx
  <2>4. xfers \in Nat /\ xfers' \in Nat /\ xfers + 1 <= xfers'
    <3>1. Len(ranges) \in Nat \ {0}
      BY <2>1, RangesType, SeqType
    <3> QED BY <2>1, <3>1, Numbers
  <2>5. Before(xfers + 1) /\ \A n : Before(n) => Before(n)'
    BY <2>1 DEF Ordered, Before
  <2>6. Before(xfers + 1)'
    <3> DEFINE next == xfers'
    <3>1. xfers \in Nat /\ next \in Nat /\ xfers + 1 <= next
      BY <2>4
    <3> HIDE DEF next
    <3>2. \A n \in Nat : n < xfers + 1 => n < next + 1
      BY ONLY <3>1
    <3> USE DEF next
    <3> QED BY <2>1, <2>5, <3>2, Numbers DEF Before
  <2>7. DeliveredInOrder'
        /\ (pending_rx' # None => \A i \in 1 .. Len(delivered') : delivered'[i].n < pending_rx'.n)
    BY <2>1 DEF Ordered, DeliveredInOrder
  <2>8. pump_pc' \in Pumping => Before(pump_desc.n)' /\ pump_desc'.n <= xfers'
    <3> SUFFICES ASSUME pump_pc \in Pumping PROVE Before(pump_desc.n)' /\ pump_desc'.n <= xfers'
      BY <2>1
    <3>1. Before(pump_desc.n) /\ pump_desc.n <= xfers
      BY DEF Ordered
    <3>2. Before(pump_desc.n)'
      BY <2>1, <3>1, SMTT(30) DEF Before
    <3> QED BY <2>1, <2>4, <3>1, <3>2, Numbers
  <2>9. ASSUME NEW i \in 1 .. Len(rx_ring'), rx_ring'[i].type = "xfer"
        PROVE  /\ Before(rx_ring[i].n)' /\ rx_ring'[i].n <= xfers'
               /\ pump_pc' \in Pumping => pump_desc'.n < rx_ring'[i].n
               /\ \A j \in 1 .. Len(rx_ring') :
                    i < j /\ rx_ring'[j].type = "xfer" => rx_ring'[i].n < rx_ring'[j].n
    <3>1. CASE i \in 1 .. Len(rx_ring)
      <4>1. rx_ring'[i] = rx_ring[i] /\ rx_ring[i].n \in Nat
        BY <2>3, <3>1, Numbers
      <4>2. /\ Before(rx_ring[i].n) /\ rx_ring[i].n <= xfers
            /\ pump_pc \in Pumping => pump_desc.n < rx_ring[i].n
        BY <2>9, <3>1, <4>1 DEF Ordered
      <4>3. Before(rx_ring[i].n)'
        BY <2>1, <4>1, <4>2 DEF Before
      <4>4. ASSUME NEW j \in 1 .. Len(rx_ring'), i < j, rx_ring'[j].type = "xfer"
            PROVE  rx_ring'[i].n < rx_ring'[j].n
        <5>1. CASE j \in 1 .. Len(rx_ring)
          <6>1. rx_ring'[j] = rx_ring[j]
            BY <2>3, <5>1
          <6> QED BY <2>9, <3>1, <4>1, <4>4, <5>1, <6>1 DEF Ordered
        <5>2. CASE j = Len(rx_ring) + 1
          BY <2>2, <2>3, <2>4, <4>1, <4>2, <5>2
        <5> QED BY <2>3, <5>1, <5>2
      <4>5. rx_ring'[i].n <= xfers'
        BY <2>4, <4>1, <4>2
      <4> QED BY <2>1, <4>1, <4>2, <4>3, <4>4, <4>5
    <3>2. CASE i = Len(rx_ring) + 1
      <4>1. rx_ring'[i] = m /\ rx_ring'[i].n = xfers + 1
        BY <2>2, <2>3, <3>2
      <4>2. Before(rx_ring[i].n)'
        BY <2>1, <2>5, <4>1 DEF Before
      <4>3. pump_pc' \in Pumping => pump_desc'.n < rx_ring'[i].n
        <5>1. pump_pc \in Pumping => pump_desc.n <= xfers
          BY DEF Ordered
        <5> QED BY <2>1, <2>4, <4>1, <5>1, Numbers
      <4>4. \A j \in 1 .. Len(rx_ring') : ~(i < j)
        BY <2>3, <3>2
      <4> QED BY <2>4, <4>1, <4>2, <4>3, <4>4
    <3> QED BY <2>3, <3>1, <3>2
  <2> QED BY <2>6, <2>7, <2>8, <2>9, ZenonT(30) DEF Ordered
<1>2. CASE HostInBand \/ HostTransmits
  <2>1. /\ UNCHANGED <<pump_pc, pump_desc, pending_rx, delivered>> /\ Len(rx_ring) < RingCap
        /\ \E m \in {InBand, TxComplete} : rx_ring' = Append(rx_ring, m)
        /\ xfers' = xfers \/ xfers' = xfers + 1
    BY <1>2 DEF HostInBand, HostTransmits
  <2>2. PICK m \in {InBand, TxComplete} : rx_ring' = Append(rx_ring, m)
    BY <2>1
  <2>3. m \in RxMessage /\ m.type # "xfer"
    BY MessageTypes DEF InBand, TxComplete
  <2>4. /\ Len(rx_ring) \in Nat /\ Len(rx_ring') = Len(rx_ring) + 1
        /\ rx_ring'[Len(rx_ring) + 1] = m
        /\ \A i \in 1 .. Len(rx_ring) : rx_ring'[i] = rx_ring[i]
    BY <2>1, <2>2, <2>3, PutRx
  <2>5. \A i \in 1 .. Len(rx_ring') : rx_ring'[i].type = "xfer" =>
          i + 0 \in 1 .. Len(rx_ring) /\ rx_ring'[i] = rx_ring[i + 0]
    <3>1. \A i \in 1 .. Len(rx_ring') : i \in 1 .. Len(rx_ring) \/ i = Len(rx_ring) + 1
      BY <2>4
    <3> QED BY <2>3, <2>4, <3>1
  <2>6. xfers' \in Nat /\ xfers <= xfers'
    BY <2>1, Numbers
  <2> QED BY <2>1, <2>5, <2>6, OrderKept
<1>3. CASE HostTakesBack
  <2>1. UNCHANGED <<rx_ring, pump_pc, pump_desc, pending_rx, delivered, xfers>>
    BY <1>3 DEF HostTakesBack
  <2>2. \A i \in 1 .. Len(rx_ring') : rx_ring'[i].type = "xfer" =>
          i + 0 \in 1 .. Len(rx_ring) /\ rx_ring'[i] = rx_ring[i + 0]
    BY <2>1
  <2>3. xfers' \in Nat /\ xfers <= xfers'
    BY <2>1, Numbers
  <2> QED BY <2>1, <2>2, <2>3, OrderKept
<1> QED BY <1>1, <1>2, <1>3, HostCases
-----------------------------------------------------------------------------
(* A step that fills no slot keeps a frame on its way if it leaves every   *)
(* place where the frame can be, or moves it on from there.                *)
LEMMA OnTheWayStep ==
  ASSUME KeptOnTheWay, UNCHANGED recv_buf, lost \subseteq lost', unread \subseteq unread',
         \A s \in Slots \ (lost' \cup unread') : Fits(s) /\ OnTheWay(s) => OnTheWay(s)'
  PROVE  KeptOnTheWay'
BY DEF KeptOnTheWay, Fits

(* Places that a step leaves alone *)
LEMMA OnTheWayFrame ==
  ASSUME UNCHANGED <<recv_buf, rx_ring, pump_desc, pump_data, pending_rx, delivered>>,
         pump_pc' = pump_pc \/ pump_pc \notin Pumping
  PROVE  \A s \in Slots : OnTheWay(s) => OnTheWay(s)'
<1>1. \A s : Whole(s)' = Whole(s)
  BY DEF Whole
<1> QED BY <1>1 DEF OnTheWay, Pumping

(* The network task: recv_with hands pending_rx to the stack. *)
LEMMA TaskKeeps ==
  ASSUME TypeOK, Control, KeptOnTheWay, Task
  PROVE  KeptOnTheWay'
<1> USE DEF deviceVars, pumpVars, hostVars, history, CallPump
<1>1. UNCHANGED <<recv_buf, rx_ring, pump_desc, pump_data, lost, unread>>
  BY DEF Task, Call, receive, transmit, has_rx_packet, has_tx_space, recv_with, DropTxToken,
    transmit_with, transmit_post
<1>2. pump_pc' = pump_pc \/ pump_pc \notin Pumping
  <2>1. CASE receive \/ transmit
    BY <2>1 DEF receive, transmit, Control, TypeOK, Pumping
  <2>2. CASE has_rx_packet \/ transmit_with
    BY <2>2 DEF has_rx_packet, transmit_with, Pumping
  <2>3. CASE has_tx_space \/ recv_with \/ DropTxToken \/ transmit_post
    BY <2>3 DEF has_tx_space, recv_with, DropTxToken, transmit_post
  <2> QED BY <2>1, <2>2, <2>3 DEF Task, Call
<1>3. CASE UNCHANGED <<pending_rx, delivered>>
  BY <1>1, <1>2, <1>3, OnTheWayFrame, OnTheWayStep
<1>4. CASE ~UNCHANGED <<pending_rx, delivered>>
  <2>1. recv_with
    <3>1. CASE receive \/ transmit \/ has_rx_packet \/ has_tx_space
      BY <1>4, <3>1 DEF receive, transmit, has_rx_packet, has_tx_space
    <3>2. CASE DropTxToken \/ transmit_with \/ transmit_post
      BY <1>4, <3>2 DEF DropTxToken, transmit_with, transmit_post
    <3> QED BY <3>1, <3>2 DEF Task, Call
  <2>2. pending_rx # None /\ pending_rx' = None /\ delivered' = Append(delivered, pending_rx)
    BY <1>4, <2>1 DEF recv_with
  <2>3. UNCHANGED pump_pc
    BY <2>1 DEF recv_with
  <2>4. /\ Len(delivered) + 1 \in 1 .. Len(delivered')
        /\ delivered'[Len(delivered) + 1] = pending_rx
        /\ \A i \in 1 .. Len(delivered) :
             i \in 1 .. Len(delivered') /\ delivered'[i] = delivered[i]
    <3>1. delivered \in Seq(PendingRx) /\ pending_rx \in PendingRx
      BY <2>2 DEF TypeOK
    <3>2. /\ Len(delivered) \in Nat /\ Len(delivered') = Len(delivered) + 1
          /\ delivered'[Len(delivered) + 1] = pending_rx
          /\ \A i \in 1 .. Len(delivered) : delivered'[i] = delivered[i]
      BY <2>2, <3>1, RingPut
    <3> QED BY <3>2
  <2>5. \A s : Whole(s)' = Whole(s)
    BY <1>1 DEF Whole
  <2>6. ASSUME NEW s \in Slots, OnTheWay(s) PROVE OnTheWay(s)'
    <3>1. CASE pending_rx = Whole(s)
      BY <2>4, <2>5, <3>1 DEF OnTheWay
    <3>2. CASE \E i \in 1 .. Len(delivered) : delivered[i] = Whole(s)
      BY <2>4, <2>5, <3>2, SMTT(30) DEF OnTheWay
    <3>3. CASE /\ pending_rx # Whole(s)
               /\ ~\E i \in 1 .. Len(delivered) : delivered[i] = Whole(s)
      BY <1>1, <2>3, <2>6, <3>3 DEF OnTheWay
    <3> QED BY <3>1, <3>2, <3>3
  <2> QED BY <1>1, <2>6, OnTheWayStep
<1> QED BY <1>3, <1>4

(* pump_channel takes a frame from the ring to its copy and to pending_rx. *)
LEMMA PumpKeeps ==
  ASSUME TypeOK, Control, Slotted, KeptOnTheWay, Pump
  PROVE  KeptOnTheWay'
<1> USE DEF deviceVars, pumpVars, hostVars, history, PumpReturn
<1>1. UNCHANGED <<recv_buf, delivered>>
  BY ZenonT(30) DEF Pump, PumpEmpty, PumpSlotFull, PumpXfer, PumpTxComplete, PumpInBand,
    parse_xfer_page_packet, send_completion, PumpFrame, send_rndis_control_inner, PumpOther
<1>2. \A s : Whole(s)' = Whole(s)
  BY <1>1 DEF Whole
<1>3. CASE PumpEmpty
  <2>1. UNCHANGED <<rx_ring, pump_desc, pump_data, pending_rx, lost, unread>>
        /\ pump_pc \notin Pumping
    BY <1>3 DEF PumpEmpty, Pumping
  <2> QED BY <1>1, <2>1, OnTheWayFrame, OnTheWayStep
<1>4. CASE PumpSlotFull \/ PumpXfer \/ PumpTxComplete \/ PumpInBand
  <2>1. /\ rx_ring # << >> /\ rx_ring' = Tail(rx_ring) /\ pump_pc = "loop"
        /\ UNCHANGED <<pending_rx, unread>> /\ lost \subseteq lost'
    BY <1>4 DEF PumpSlotFull, PumpXfer, PumpTxComplete, PumpInBand
  <2>2. /\ Len(rx_ring) \in Nat \ {0} /\ Len(rx_ring') = Len(rx_ring) - 1
        /\ rx_ring[1] = Head(rx_ring)
        /\ \A i \in 1 .. Len(rx_ring') : rx_ring'[i] = rx_ring[i + 1]
    BY <2>1, TakeRx
  <2>3. ASSUME NEW s \in Slots \ lost', s \in Range(Head(rx_ring).ranges)
        PROVE  pump_pc' = "parse" /\ s \in Range(pump_desc'.ranges)
    <3>1. CASE PumpSlotFull
      BY <2>3, <3>1 DEF PumpSlotFull
    <3>2. CASE PumpXfer
      BY <2>3, <3>2 DEF PumpXfer
    <3>3. CASE PumpTxComplete \/ PumpInBand
      <4>1. Head(rx_ring).type # "xfer" /\ 1 \in 1 .. Len(rx_ring)
        BY <2>2, <3>3, SMTT(30) DEF PumpTxComplete, PumpInBand
      <4>2. Head(rx_ring).ranges = << >>
        BY <2>2, <4>1, SMTT(30) DEF Slotted, Announces
      <4> QED BY <2>3, <4>2, NoRanges
    <3> QED BY <1>4, <3>1, <3>2, <3>3
  <2>4. ASSUME NEW s \in Slots \ (lost' \cup unread'), OnTheWay(s) PROVE OnTheWay(s)'
    <3>1. ASSUME NEW i \in 1 .. Len(rx_ring), s \in Range(rx_ring[i].ranges)
          PROVE  OnTheWay(s)'
      <4>1. CASE i = 1
        BY <2>2, <2>3, <3>1, <4>1, ZenonT(30) DEF OnTheWay
      <4>2. CASE i # 1
        <5>1. i - 1 \in 1 .. Len(rx_ring') /\ (i - 1) + 1 = i
          BY <2>2, <4>2
        <5>2. rx_ring'[i - 1] = rx_ring[i]
          BY <2>2, <5>1
        <5> QED BY <3>1, <5>1, <5>2 DEF OnTheWay
      <4> QED BY <4>1, <4>2, SMTT(30)
    <3>2. CASE pending_rx = Whole(s) \/ \E i \in 1 .. Len(delivered) : delivered[i] = Whole(s)
      BY <1>1, <1>2, <2>1, <3>2 DEF OnTheWay
    <3> QED BY <2>1, <2>4, <3>1, <3>2, ZenonT(30) DEF OnTheWay
  <2> QED BY <1>1, <2>1, <2>4, OnTheWayStep
<1>5. CASE parse_xfer_page_packet
  <2>1. /\ pump_pc = "parse" /\ pump_pc' = "complete"
        /\ unread \subseteq unread'
        /\ \/ Range(pump_desc.ranges) \subseteq unread'
           \/ /\ Range(Tail(pump_desc.ranges)) \subseteq unread'
              /\ pump_data' = recv_buf[Head(pump_desc.ranges)]
        /\ UNCHANGED <<rx_ring, pump_desc, pending_rx, lost>>
    BY <1>5 DEF parse_xfer_page_packet
  <2>2. \A s \in Range(pump_desc.ranges) :
          s = Head(pump_desc.ranges) \/ s \in Range(Tail(pump_desc.ranges))
    <3>1. pump_desc.ranges \in Ranges /\ pump_desc.ranges # << >>
      BY <2>1 DEF TypeOK, RxMessage, Slotted, Announces
    <3> QED BY <3>1, RangesType, SMTT(30)
  <2>3. ASSUME NEW s \in Slots \ (lost' \cup unread'), OnTheWay(s) PROVE OnTheWay(s)'
    <3>1. CASE s \in Range(pump_desc.ranges)
      <4>1. s = Head(pump_desc.ranges) /\ pump_data' = recv_buf[Head(pump_desc.ranges)]
        BY <2>1, <2>2, <2>3, <3>1, SMTT(30)
      <4> QED BY <1>1, <2>1, <3>1, <4>1 DEF OnTheWay
    <3>2. CASE s \notin Range(pump_desc.ranges)
      BY <1>1, <1>2, <2>1, <2>3, <3>2 DEF OnTheWay
    <3> QED BY <3>1, <3>2
  <2> QED BY <1>1, <2>1, <2>3, OnTheWayStep
<1>6. CASE send_completion
  <2>1. /\ pump_pc = "complete" /\ pump_pc' = "dispatch"
        /\ UNCHANGED <<rx_ring, pump_desc, pump_data, pending_rx, lost, unread>>
    BY <1>6 DEF send_completion
  <2>2. ASSUME NEW s \in Slots, OnTheWay(s) PROVE OnTheWay(s)'
    BY <1>1, <1>2, <2>1, <2>2 DEF OnTheWay
  <2> QED BY <1>1, <2>1, <2>2, OnTheWayStep
<1>7. CASE PumpFrame \/ send_rndis_control_inner \/ PumpOther
  <2>1. pump_pc = "dispatch" /\ UNCHANGED <<rx_ring, lost, unread>> /\ pending_rx = None
    BY <1>7, SMTT(30) DEF PumpFrame, send_rndis_control_inner, PumpOther, Control, Pumping
  <2>2. ASSUME NEW s \in Slots, Fits(s), pump_data = recv_buf[s]
        PROVE  pending_rx' = Whole(s)
    <3>1. pump_data.kind = "frame"
      BY <2>2 DEF Fits
    <3>2. Extracted = FrameOf(Packets["frame"]) /\ Extracted # NoPiece
      BY <3>1, ExtractedPiece
    <3>3. PumpFrame
      BY <1>7, <3>1, <3>2 DEF send_rndis_control_inner, PumpOther
    <3> QED BY <2>2, <3>1, <3>2, <3>3, ZenonT(30) DEF PumpFrame, Whole
  <2>3. ASSUME NEW s \in Slots, Fits(s), OnTheWay(s) PROVE OnTheWay(s)'
    <3>1. pending_rx # Whole(s)
      BY <2>1, PieceIsSome, SMTT(30) DEF Whole
    <3>2. CASE pump_data = recv_buf[s]
      BY <1>2, <2>2, <2>3, <3>2, SMTT(30) DEF OnTheWay
    <3>3. CASE pump_data # recv_buf[s]
      BY <1>1, <1>2, <2>1, <2>3, <3>1, <3>3, SMTT(30) DEF OnTheWay
    <3> QED BY <3>2, <3>3
  <2> QED BY <1>1, <2>1, <2>3, OnTheWayStep
<1> QED BY <1>3, <1>4, <1>5, <1>6, <1>7, SMTT(30) DEF Pump

(* The host announces every slot it fills. *)
LEMMA HostKeeps ==
  ASSUME TypeOK, KeptOnTheWay, Host
  PROVE  KeptOnTheWay'
<1> USE DEF deviceVars, pumpVars, hostVars, history
<1>1. UNCHANGED <<pump_pc, pump_desc, pump_data, pending_rx, delivered, lost>>
  BY DEF Host, HostXfer, HostInBand, HostTakesBack, HostTransmits
<1>2. ASSUME NEW m \in RxMessage, Len(rx_ring) < RingCap, rx_ring' = Append(rx_ring, m)
      PROVE  /\ \A i \in 1 .. Len(rx_ring) :
                  i \in 1 .. Len(rx_ring') /\ rx_ring'[i] = rx_ring[i]
             /\ \E i \in 1 .. Len(rx_ring') : rx_ring'[i] = m
  <2>1. /\ Len(rx_ring) \in Nat /\ Len(rx_ring') = Len(rx_ring) + 1
        /\ rx_ring'[Len(rx_ring) + 1] = m
        /\ \A i \in 1 .. Len(rx_ring) : rx_ring'[i] = rx_ring[i]
    BY <1>2, PutRx, SMTT(30)
  <2> QED BY <2>1
<1>3. ASSUME NEW s \in Slots, recv_buf'[s] = recv_buf[s], OnTheWay(s),
             \A i \in 1 .. Len(rx_ring) : i \in 1 .. Len(rx_ring') /\ rx_ring'[i] = rx_ring[i]
      PROVE  OnTheWay(s)'
  <2>1. Whole(s)' = Whole(s)
    BY <1>3 DEF Whole
  <2> QED BY <1>1, <1>3, <2>1, ZenonT(30) DEF OnTheWay
<1>4. ASSUME NEW kind \in Kinds, NEW ranges \in Ranges, HostXfer(kind, ranges)
      PROVE  KeptOnTheWay'
  <2> DEFINE m == XferPages(ranges, xfers + 1)
  <2>1. /\ rx_ring' = Append(rx_ring, m) /\ Len(rx_ring) < RingCap
        /\ unread' = unread \ Range(ranges)
    BY <1>4, ZenonT(30) DEF HostXfer
  <2>2. m \in RxMessage /\ m.ranges = ranges
    <3>1. xfers + 1 \in Nat
      BY DEF TypeOK
    <3> QED BY <3>1, MessageTypes DEF XferPages
  <2> HIDE DEF m
  <2>3. \A s \in Slots \ Range(ranges) : recv_buf'[s] = recv_buf[s]
    BY <1>4, HostFills, Zenon
  <2>4. ASSUME NEW s \in Slots \ (lost' \cup unread'), Fits(s)' PROVE OnTheWay(s)'
    <3>1. CASE s \in Range(ranges)
      BY <1>2, <2>1, <2>2, <3>1, ZenonT(30) DEF OnTheWay
    <3>2. CASE s \notin Range(ranges)
      <4>1. s \notin lost \cup unread /\ recv_buf'[s] = recv_buf[s]
        BY <1>1, <2>1, <2>3, <2>4, <3>2, ZenonT(30)
      <4>2. OnTheWay(s)
        BY <2>4, <4>1, ZenonT(30) DEF KeptOnTheWay, Fits
      <4> QED BY <1>2, <1>3, <2>1, <2>2, <4>1, <4>2, ZenonT(30)
    <3> QED BY <3>1, <3>2, SMTT(30)
  <2> QED BY <2>4 DEF KeptOnTheWay
<1>5. CASE HostInBand \/ HostTransmits
  <2>1. UNCHANGED <<recv_buf, unread>> /\ Len(rx_ring) < RingCap
        /\ \E m \in {InBand, TxComplete} : rx_ring' = Append(rx_ring, m)
    BY <1>5 DEF HostInBand, HostTransmits
  <2>2. \A i \in 1 .. Len(rx_ring) : i \in 1 .. Len(rx_ring') /\ rx_ring'[i] = rx_ring[i]
    BY <1>2, <2>1, MessageTypes
  <2>3. ASSUME NEW s \in Slots, OnTheWay(s) PROVE OnTheWay(s)'
    <3>1. recv_buf'[s] = recv_buf[s]
      BY <2>1
    <3> QED BY <1>3, <2>2, <2>3, <3>1, ZenonT(30)
  <2> QED BY <1>1, <2>1, <2>3, OnTheWayStep
<1>6. CASE HostTakesBack
  <2>1. UNCHANGED <<recv_buf, unread, rx_ring>>
    BY <1>6 DEF HostTakesBack
  <2> QED BY <1>1, <2>1, OnTheWayFrame, OnTheWayStep
<1> QED BY <1>4, <1>5, <1>6, HostCases
-----------------------------------------------------------------------------
Inv == TypeOK /\ Control /\ Slotted /\ Ordered /\ Sectioned /\ KeptOnTheWay

(* The device starts with the host holding every slot and nothing sent. *)
LEMMA InitInv == Init => Inv
<1> SUFFICES ASSUME Init PROVE Inv
  OBVIOUS
<1> USE DEF Init
<1>1. TypeOK
  <2>1. None \in Content /\ InBand \in RxMessage
    BY MessageTypes
  <2>2. rx_ring \in Seq(RxMessage) /\ tx_ring \in Seq(TxMessage)
        /\ delivered \in Seq(PendingRx) /\ wire \in Seq([posted : Content, read : Content])
    BY SeqType
  <2>3. Len(rx_ring) <= RingCap /\ Len(tx_ring) <= RingCap
    BY BoundsAssumption
  <2>4. recv_buf \in [Slots -> Content] /\ send_buf \in Content /\ pump_desc \in RxMessage
        /\ pump_data \in Content
    BY <2>1
  <2>5. send_section_free \in BOOLEAN /\ overlap \in BOOLEAN
    BY ZenonT(30)
  <2> QED BY <2>2, <2>3, <2>4, <2>5 DEF TypeOK
<1>2. Control
  BY DEF Control, Pumping
<1>3. Slotted
  <2>1. ASSUME NEW s \in Slots PROVE Holders(s) = 1
    <3>1. /\ {i \in 1 .. Len(rx_ring) :
                rx_ring[i].type = "xfer" /\ s \in Range(rx_ring[i].ranges)} = {}
          /\ {i \in 1 .. Len(tx_ring) :
                tx_ring[i].type = "comp" /\ s \in Range(tx_ring[i].ranges)} = {}
      OBVIOUS
    <3> QED BY <3>1 DEF Holders, Number
  <2> QED BY <2>1 DEF Slotted, SlotAccounted, CopiedBeforeReturned, Pumping
<1>4. Ordered
  BY DEF Ordered, DeliveredInOrder, Before, Pumping
<1>5. Sectioned
  <2>1. ~InFlight /\ ~overlap
    BY DEF InFlight
  <2>2. OneInFlight
    BY <2>1 DEF OneInFlight
  <2>3. SectionKept
    BY DEF SectionKept, TransmitsWhatWasPosted, FreeMeansIdle, OverlapNeedsReply
  <2> QED BY <2>1, <2>2, <2>3 DEF Sectioned
<1>6. KeptOnTheWay
  BY DEF KeptOnTheWay, Fits, None
<1> QED BY <1>1, <1>2, <1>3, <1>4, <1>5, <1>6 DEF Inv

(* Every step keeps the invariant. *)
LEMMA InvStep == Inv /\ [Next]_vars => Inv'
<1> SUFFICES ASSUME Inv, [Next]_vars PROVE Inv'
  OBVIOUS
<1>1. TypeOK /\ Control /\ Slotted /\ Ordered /\ Sectioned /\ KeptOnTheWay
  BY DEF Inv
<1>2. Control'
  BY <1>1, ControlStep
<1>3. CASE Task
  BY <1>1, <1>2, <1>3, TaskType, TaskSlots, TaskOrder, TaskSection, TaskKeeps DEF Inv
<1>4. CASE Pump
  <2>1. pump_pc = "parse" => pump_desc.ranges # << >>
    BY <1>1 DEF Slotted, Announces
  <2>2. TypeOK'
    BY <1>1, <1>4, <2>1, PumpType
  <2> QED BY <1>1, <1>2, <1>4, <2>2, PumpSlots, PumpOrder, PumpSection, PumpKeeps DEF Inv
<1>5. CASE Host
  BY <1>1, <1>2, <1>5, HostType, HostSlots, HostOrder, HostSection, HostKeeps DEF Inv
<1>6. CASE Halted \/ UNCHANGED vars
  <2>1. UNCHANGED <<rx_ring, tx_ring, recv_buf, host_free, send_buf, send_section_free,
                    pending_rx, pc, pump_pc, pump_desc, pump_data, xfers, txs, delivered,
                    wire, lost, unread, forgotten, stuck, overlap>>
    BY <1>6 DEF Halted, vars, deviceVars, pumpVars, hostVars, history
  <2>2. TypeOK'
    BY <1>1, <2>1 DEF TypeOK
  <2>3. Slotted'
    <3>1. \A s \in Slots : Holders(s)' = Holders(s)
      BY <2>1 DEF Holders
    <3>2. SlotAccounted'
      BY <1>1, <2>1, <3>1 DEF Slotted, SlotAccounted
    <3>3. \A i \in 1 .. Len(rx_ring') :
            i + 0 \in 1 .. Len(rx_ring) /\ rx_ring'[i] = rx_ring[i + 0]
      BY <2>1
    <3>4. /\ pump_pc' \in Pumping => pump_desc'.type = "xfer" /\ pump_desc'.ranges # << >>
          /\ pump_pc' = "parse" => Announces(pump_desc')
          /\ CopiedBeforeReturned'
      BY <1>1, <2>1 DEF Slotted, CopiedBeforeReturned
    <3> QED BY <1>1, <2>1, <3>2, <3>3, <3>4, SlottedKept
  <2>4. Ordered'
    <3>1. \A i \in 1 .. Len(rx_ring') : rx_ring'[i].type = "xfer" =>
            i + 0 \in 1 .. Len(rx_ring) /\ rx_ring'[i] = rx_ring[i + 0]
      BY <2>1
    <3>2. xfers' \in Nat /\ xfers <= xfers'
      BY <1>1, <2>1, Numbers
    <3> QED BY <1>1, <2>1, <3>1, <3>2, OrderKept
  <2>5. Sectioned'
    BY <1>1, <2>1, SectionFrame
  <2>6. KeptOnTheWay'
    BY <1>1, <2>1, OnTheWayFrame, OnTheWayStep
  <2> QED BY <1>2, <2>2, <2>3, <2>4, <2>5, <2>6 DEF Inv
<1> QED BY <1>3, <1>4, <1>5, <1>6 DEF Next

(* The receive buffer: for any number of slots and ranges per packet, the  *)
(* host gets every slot back exactly once, but for those that pump_channel *)
(* dropped or could not complete, and not before it has copied the message *)
(* that the packet announced.                                              *)
THEOREM SlotsComeBackOnce == Spec => []ReceiveInv
<1>1. Inv => ReceiveInv
  BY DEF Inv, Slotted, ReceiveInv
<1> QED BY <1>1, InitInv, InvStep, PTL DEF Spec

(* The way of a frame: the stack gets frames in the host's order, none     *)
(* twice, and every frame that fits and was read while pending_rx was      *)
(* empty, with all its bytes and none of the headers.                      *)
THEOREM FramesAreKept == Spec => []FramesKept
<1>1. ASSUME NEW s \in Slots, OnTheWay(s) PROVE Kept(s)
  BY <1>1 DEF OnTheWay, Kept
<1>2. Inv => FramesKept
  BY <1>1 DEF Inv, Ordered, KeptOnTheWay, FramesKept, LostOnlyWhenFull
<1> QED BY <1>2, InitInv, InvStep, PTL DEF Spec

(* The send section: what the host reads is what was posted, the section   *)
(* is free only when no frame waits in it, unless a keepalive reply went   *)
(* through it while a message was in flight.                               *)
THEOREM SectionIsKept == Spec => []SectionKept
<1>1. Inv => SectionKept
  BY DEF Inv, Sectioned
<1> QED BY <1>1, InitInv, InvStep, PTL DEF Spec

(* The expects of NicNetvsc: a token is only handed out with a frame in    *)
(* pending_rx and a free section, so the one way into a panic is a frame   *)
(* for which the send ring has no room.                                    *)
THEOREM TokensAreGood == Spec => PanicsOnFullRingOnly
<1>1. Inv /\ [Next]_vars => [pc # "panic" /\ pc' = "panic" => ~RoomToSend]_vars
  BY ControlStep DEF Inv
<1> QED BY <1>1, InitInv, InvStep, PTL DEF Spec, PanicsOnFullRingOnly
=============================================================================
