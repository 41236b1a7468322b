--------------------------- MODULE NetvscDataPath ---------------------------
(***************************************************************************)
(* The NetVSC data path: NetvscDevice of embclox-hyperv/src/netvsc.rs as   *)
(* the network task drives it through DynNic and NicNetvsc                 *)
(* (embclox-driver), against the host's half of the channel.               *)
(*                                                                         *)
(* The two rings are FIFOs (VmbusRing is proved to implement one).  The    *)
(* receive buffer is a set of slots the host lends to the guest with a     *)
(* transfer-page packet of one or more ranges, one slot each, and gets     *)
(* back with a completion; the send buffer is its section 0, the only one  *)
(* the code uses.  The host is external:                                   *)
(* it reads the section when it processes the message, and completes every *)
(* message, as the COMPLETION_REQUESTED flag of Channel::send asks.        *)
(***************************************************************************)
EXTENDS Integers, Sequences, Functions, RndisMessage

CONSTANTS Slots,      \* slots of the host's receive-buffer layout
          Messages,   \* what the host sends: the kind of the first range, the ranges
          MaxRanges,  \* ranges of a transfer-page packet
          RawRanges,  \* ranges that `raw` of pump_channel holds: 63 in the code
          RingCap,    \* packets a ring holds
          MaxXfer,    \* bound on the host's packets
          MaxTx       \* bound on the frames the stack sends

ASSUME SlotsAssumption == Slots \subseteq Nat \ {0}
(* The kinds of data message: one with per-packet information that just    *)
(* fits into a PendingRx, and one that is a byte too long                  *)
Packets == [frame |-> PacketMessage(32, RX_FRAME_MAX - RNDIS_PACKET_HDR_SIZE - 32),
            long |-> PacketMessage(0, RX_FRAME_MAX - RNDIS_PACKET_HDR_SIZE + 1)]

(* ... and the others; "outside" is a range beyond the receive buffer *)
Kinds == DOMAIN Packets \cup {"keepalive", "status", "outside"}
Ranges == UNION {[1 .. n -> Slots] : n \in 0 .. MaxRanges}

ASSUME MessagesAssumption == Messages \subseteq [kind : Kinds, ranges : Ranges]
ASSUME BoundsAssumption == /\ MaxRanges \in Nat \ {0} /\ RawRanges \in Nat /\ RingCap \in Nat
                           /\ MaxXfer \in Nat /\ MaxTx \in Nat

VARIABLES
  rx_ring, tx_ring,          \* host to guest, guest to host
  recv_buf, host_free,       \* slot contents; slots the host may fill
  send_buf,                  \* contents of send-buffer section 0
  send_section_free, pending_rx,       \* fields of NetvscDevice
  pc,                        \* the network task, between two steps
  pump_pc, pump_desc, pump_data,       \* locals of pump_channel
  xfers, txs,                \* packets sent by the host, frames sent by the stack
  delivered,                 \* history: frames handed to the stack
  wire,                      \* history: what the host found for each message
  lost,                      \* history: slots whose packet PumpSlotFull dropped
  unread,                    \* history: slots of ranges nobody looked at
  forgotten,                 \* history: keepalives whose reply was refused
  stuck,                     \* history: slots whose completion found no room
  overlap                    \* history: section 0 was written while in use

deviceVars == <<send_buf, send_section_free, pending_rx>>
pumpVars == <<pump_pc, pump_desc, pump_data>>
hostVars == <<recv_buf, host_free, xfers, wire>>
history == <<lost, unread, forgotten, stuck, overlap>>
vars == <<rx_ring, tx_ring, deviceVars, pc, pumpVars, hostVars, txs, delivered,
          history>>
-----------------------------------------------------------------------------
Content == [kind : Kinds \cup {"none", "tx", "reply"}, n : Nat]
None == [kind |-> "none", n |-> 0]

(* A PendingRx: a piece of message n *)
PendingRx == [n : Nat, frame : [from : Nat, len : Nat]]
Piece(c, piece) == [n |-> c.n, frame |-> piece]

(* A packet's n stands for its transaction id *)
XferPages(ranges, n) == [type |-> "xfer", ranges |-> ranges, n |-> n]
InBand == [type |-> "inband", ranges |-> << >>, n |-> 0]
TxComplete == [type |-> "comp", ranges |-> << >>, n |-> 0]

Completion(ranges) == [type |-> "comp", ranges |-> ranges, posted |-> None]
RndisPkt(c) == [type |-> "rndis", ranges |-> << >>, posted |-> c]

RxMessage == [type : {"xfer", "inband", "comp"}, ranges : Ranges, n : Nat]
TxMessage == [type : {"comp", "rndis"}, ranges : Ranges, posted : Content]

(* Channel::send and send_completion: Err on a full ring, nothing written *)
RoomToSend == Len(tx_ring) < RingCap

Init ==
  /\ rx_ring = << >> /\ tx_ring = << >>
  /\ recv_buf = [s \in Slots |-> None] /\ host_free = Slots
  /\ send_buf = None /\ send_section_free = TRUE /\ pending_rx = None
  /\ pc = "idle" /\ pump_pc = "off"
  /\ pump_desc = InBand /\ pump_data = None
  /\ xfers = 0 /\ txs = 0 /\ delivered = << >> /\ wire = << >>
  /\ lost = {} /\ unread = {} /\ forgotten = {} /\ stuck = {} /\ overlap = FALSE
-----------------------------------------------------------------------------
(* The network task: smoltcp asks DynNic for tokens and consumes them.     *)
(* Each readiness predicate first runs pump_channel to its end.            *)

CallPump(next) == pc' = next /\ pump_pc' = "loop"

receive ==
  /\ pc = "idle" /\ CallPump("has_rx_packet")
  /\ UNCHANGED <<rx_ring, tx_ring, deviceVars, pump_desc, pump_data, hostVars,
                 txs, delivered, history>>

transmit ==
  /\ pc = "idle" /\ CallPump("has_tx_space")
  /\ UNCHANGED <<rx_ring, tx_ring, deviceVars, pump_desc, pump_data, hostVars,
                 txs, delivered, history>>

(* rx_ready, then tx_ready, then the two tokens *)
has_rx_packet ==
  /\ pc = "has_rx_packet" /\ pump_pc = "off"
  /\ IF pending_rx # None THEN CallPump("receive_tx_ready")
     ELSE pc' = "idle" /\ UNCHANGED pump_pc
  /\ UNCHANGED <<rx_ring, tx_ring, deviceVars, pump_desc, pump_data, hostVars,
                 txs, delivered, history>>

Mutant_has_tx_space ==
  /\ pc \in {"receive_tx_ready", "has_tx_space"} /\ pump_pc = "off"
  /\ pc' = IF pc = "receive_tx_ready" THEN "rx_token" ELSE "tx_token"
  /\ UNCHANGED <<rx_ring, tx_ring, deviceVars, pumpVars, hostVars, txs,
                 delivered, history>>

has_tx_space ==
  /\ pc \in {"receive_tx_ready", "has_tx_space"} /\ pump_pc = "off"
  /\ pc' = CASE ~send_section_free -> "idle"
             [] send_section_free /\ pc = "receive_tx_ready" -> "rx_token"
             [] OTHER -> "tx_token"
  /\ UNCHANGED <<rx_ring, tx_ring, deviceVars, pumpVars, hostVars, txs,
                 delivered, history>>

recv_with ==
  /\ pc = "rx_token"
  /\ IF pending_rx = None THEN pc' = "panic" /\ UNCHANGED <<pending_rx, delivered>>
     ELSE /\ pending_rx' = None /\ delivered' = Append(delivered, pending_rx)
          /\ pc' = "tx_token"
  /\ UNCHANGED <<rx_ring, tx_ring, send_buf, send_section_free, pumpVars,
                 hostVars, txs, history>>

(* The stack has nothing to send with the token *)
DropTxToken ==
  /\ pc = "tx_token" /\ pc' = "idle"
  /\ UNCHANGED <<rx_ring, tx_ring, deviceVars, pumpVars, hostVars, txs,
                 delivered, history>>

(* Messages posted from section 0 whose completion the guest has not seen; *)
(* posting another one overwrites what the host may still have to read.    *)
InFlight ==
  \/ \E i \in 1 .. Len(tx_ring) : tx_ring[i].type = "rndis"
  \/ \E i \in 1 .. Len(rx_ring) : rx_ring[i].type = "comp"

Overlap == overlap' = (overlap \/ InFlight)

(* transmit_with: the frame is built in section 0, then posted.  Without a *)
(* free section it pumps once more and looks again; still none, or a full  *)
(* ring, ends in NicNetvsc's expect.                                       *)
transmit_with ==
  /\ pc \in {"tx_token", "tx_recheck"} /\ pump_pc = "off" /\ txs < MaxTx
  /\ CASE send_section_free ->
            /\ send_buf' = [kind |-> "tx", n |-> txs + 1] /\ txs' = txs + 1
            /\ pc' = "post" /\ Overlap /\ UNCHANGED pump_pc
       [] ~send_section_free /\ pc = "tx_token" ->
            CallPump("tx_recheck") /\ UNCHANGED <<send_buf, txs, overlap>>
       [] OTHER -> pc' = "panic" /\ UNCHANGED <<send_buf, txs, pump_pc, overlap>>
  /\ UNCHANGED <<rx_ring, tx_ring, send_section_free, pending_rx, pump_desc,
                 pump_data, hostVars, delivered, lost, unread, forgotten, stuck>>

Mutant_transmit_post ==
  /\ pc = "post"
  /\ IF RoomToSend
       THEN /\ tx_ring' = Append(tx_ring, RndisPkt([kind |-> "tx", n |-> txs]))
            /\ pc' = "idle"
       ELSE pc' = "panic" /\ UNCHANGED tx_ring
  /\ UNCHANGED <<rx_ring, send_buf, send_section_free, pending_rx, pumpVars,
                 hostVars, txs, delivered, history>>

transmit_post ==
  /\ pc = "post"
  /\ send_section_free' = FALSE
  /\ IF RoomToSend
       THEN /\ tx_ring' = Append(tx_ring, RndisPkt([kind |-> "tx", n |-> txs]))
            /\ pc' = "idle"
       ELSE pc' = "panic" /\ UNCHANGED tx_ring
  /\ UNCHANGED <<rx_ring, send_buf, pending_rx, pumpVars, hostVars, txs,
                 delivered, history>>
-----------------------------------------------------------------------------
(* pump_channel, one packet at a time.  try_recv_raw has already advanced  *)
(* the ring's read index when the packet is looked at.                     *)
PumpReturn == pump_pc' = "off" /\ UNCHANGED <<pump_desc, send_section_free>>

PumpEmpty ==
  /\ pump_pc = "loop" /\ rx_ring = << >>
  /\ PumpReturn
  /\ UNCHANGED <<rx_ring, tx_ring, send_buf, pending_rx, pc, pump_data,
                 hostVars, txs, delivered, history>>

(* The single RX slot is occupied: return, the packet already off the ring *)
PumpSlotFull ==
  /\ pump_pc = "loop" /\ rx_ring # << >> /\ Head(rx_ring).type = "xfer"
  /\ pending_rx # None
  /\ rx_ring' = Tail(rx_ring) /\ lost' = lost \cup Range(Head(rx_ring).ranges)
  /\ PumpReturn
  /\ UNCHANGED <<tx_ring, send_buf, pending_rx, pc, pump_data, hostVars, txs,
                 delivered, unread, forgotten, stuck, overlap>>

PumpXfer ==
  /\ pump_pc = "loop" /\ rx_ring # << >> /\ Head(rx_ring).type = "xfer"
  /\ pending_rx = None
  /\ rx_ring' = Tail(rx_ring)
  /\ pump_desc' = Head(rx_ring) /\ pump_pc' = "parse"
  /\ UNCHANGED <<tx_ring, deviceVars, pc, pump_data, hostVars, txs, delivered,
                 history>>

(* A completion frees section 0, whatever transaction it completes *)
Mutant_PumpTxComplete ==
  /\ pump_pc = "loop" /\ rx_ring # << >> /\ Head(rx_ring).type = "comp"
  /\ rx_ring' = Tail(rx_ring)
  /\ UNCHANGED <<tx_ring, deviceVars, pc, pumpVars, hostVars, txs, delivered,
                 history>>

PumpTxComplete ==
  /\ pump_pc = "loop" /\ rx_ring # << >> /\ Head(rx_ring).type = "comp"
  /\ rx_ring' = Tail(rx_ring) /\ send_section_free' = TRUE
  /\ UNCHANGED <<tx_ring, send_buf, pending_rx, pc, pumpVars, hostVars, txs,
                 delivered, history>>

PumpInBand ==
  /\ pump_pc = "loop" /\ rx_ring # << >> /\ Head(rx_ring).type = "inband"
  /\ rx_ring' = Tail(rx_ring)
  /\ UNCHANGED <<tx_ring, deviceVars, pc, pumpVars, hostVars, txs, delivered,
                 history>>

(* parse_xfer_page_packet copies the message of the first range out of the *)
(* receive buffer; the further ranges are not looked at.  It copies        *)
(* nothing when there is no range, when the ranges did not all fit into    *)
(* `raw`, and when the first is not in the buffer.                         *)
Parses ==
  /\ pump_desc.ranges # << >> /\ Len(pump_desc.ranges) <= RawRanges
  /\ recv_buf[Head(pump_desc.ranges)].kind # "outside"

parse_xfer_page_packet ==
  /\ pump_pc = "parse" /\ pump_pc' = "complete"
  /\ IF Parses
       THEN /\ pump_data' = recv_buf[Head(pump_desc.ranges)]
            /\ unread' = unread \cup Range(Tail(pump_desc.ranges))
       ELSE pump_data' = None /\ unread' = unread \cup Range(pump_desc.ranges)
  /\ UNCHANGED <<rx_ring, tx_ring, deviceVars, pc, pump_desc, hostVars, txs,
                 delivered, lost, forgotten, stuck, overlap>>

(* send_completion for the whole packet; its error is ignored *)
send_completion ==
  /\ pump_pc = "complete"
  /\ IF RoomToSend
       THEN tx_ring' = Append(tx_ring, Completion(pump_desc.ranges)) /\ UNCHANGED stuck
       ELSE stuck' = stuck \cup Range(pump_desc.ranges) /\ UNCHANGED tx_ring
  /\ pump_pc' = "dispatch"
  /\ UNCHANGED <<rx_ring, deviceVars, pc, pump_desc, pump_data, hostVars, txs,
                 delivered, lost, unread, forgotten, overlap>>

(* What extract_eth_frame finds in the bytes that were copied *)
Extracted ==
  IF pump_data.kind \in DOMAIN Packets
    THEN LET m == Packets[pump_data.kind] IN extract_eth_frame(m, CopyLen(m))
    ELSE NoPiece

Mutant_PumpFrame ==
  /\ pump_pc = "dispatch" /\ Extracted # NoPiece
  /\ pending_rx' = Piece(pump_data, Extracted) /\ pump_pc' = "complete"
  /\ UNCHANGED <<rx_ring, tx_ring, send_buf, send_section_free, pc, pump_desc,
                 pump_data, hostVars, txs, delivered, history>>

PumpFrame ==
  /\ pump_pc = "dispatch" /\ Extracted # NoPiece
  /\ pending_rx' = Piece(pump_data, Extracted) /\ pump_pc' = "loop"
  /\ UNCHANGED <<rx_ring, tx_ring, send_buf, send_section_free, pc, pump_desc,
                 pump_data, hostVars, txs, delivered, history>>

(* send_rndis_control_inner: the reply goes through section 0, which stays *)
(* marked free; refused when a frame is in flight or the ring is full, and *)
(* not tried again.                                                        *)
send_rndis_control_inner ==
  /\ pump_pc = "dispatch" /\ pump_data.kind = "keepalive"
  /\ LET reply == [kind |-> "reply", n |-> pump_data.n]
         sent  == send_section_free /\ RoomToSend
     IN /\ IF send_section_free THEN send_buf' = reply /\ Overlap
           ELSE UNCHANGED <<send_buf, overlap>>
        /\ tx_ring' = IF sent THEN Append(tx_ring, RndisPkt(reply)) ELSE tx_ring
        /\ forgotten' = IF sent THEN forgotten ELSE forgotten \cup {pump_data.n}
  /\ pump_pc' = "loop"
  /\ UNCHANGED <<rx_ring, send_section_free, pending_rx, pc, pump_desc,
                 pump_data, hostVars, txs, delivered, lost, unread, stuck>>

(* Not a data message and not a keepalive, or cut off: dropped *)
PumpOther ==
  /\ pump_pc = "dispatch" /\ pump_data.kind # "keepalive" /\ Extracted = NoPiece
  /\ pump_pc' = "loop"
  /\ UNCHANGED <<rx_ring, tx_ring, deviceVars, pc, pump_desc, pump_data,
                 hostVars, txs, delivered, history>>
-----------------------------------------------------------------------------
(* The host *)
(* ... sends a message of some kind, alone or with frames behind it *)
HostXfer(kind, ranges) ==
  /\ ranges # << >> /\ Range(ranges) \subseteq host_free /\ IsInjective(ranges)
  /\ xfers + Len(ranges) <= MaxXfer /\ Len(rx_ring) < RingCap
  /\ recv_buf' = [s \in Slots |->
       IF s \notin Range(ranges) THEN recv_buf[s]
       ELSE LET i == CHOOSE i \in DOMAIN ranges : ranges[i] = s
            IN [kind |-> IF i = 1 THEN kind ELSE "frame", n |-> xfers + i]]
  /\ unread' = unread \ Range(ranges)
  /\ host_free' = host_free \ Range(ranges) /\ xfers' = xfers + Len(ranges)
  /\ rx_ring' = Append(rx_ring, XferPages(ranges, xfers + 1))
  /\ UNCHANGED <<tx_ring, deviceVars, pc, pumpVars, txs, delivered, wire,
                 lost, forgotten, stuck, overlap>>

HostInBand ==
  /\ xfers < MaxXfer /\ Len(rx_ring) < RingCap
  /\ xfers' = xfers + 1 /\ rx_ring' = Append(rx_ring, InBand)
  /\ UNCHANGED <<tx_ring, deviceVars, pc, pumpVars, recv_buf, host_free, txs,
                 delivered, wire, history>>

HostTakesBack ==
  /\ tx_ring # << >> /\ Head(tx_ring).type = "comp"
  /\ tx_ring' = Tail(tx_ring)
  /\ host_free' = host_free \cup Range(Head(tx_ring).ranges)
  /\ UNCHANGED <<rx_ring, deviceVars, pc, pumpVars, recv_buf, xfers, txs,
                 delivered, wire, history>>

HostTransmits ==
  /\ tx_ring # << >> /\ Head(tx_ring).type = "rndis" /\ Len(rx_ring) < RingCap
  /\ tx_ring' = Tail(tx_ring)
  /\ wire' = Append(wire, [posted |-> Head(tx_ring).posted, read |-> send_buf])
  /\ rx_ring' = Append(rx_ring, TxComplete)
  /\ UNCHANGED <<deviceVars, pc, pumpVars, recv_buf, host_free, xfers, txs,
                 delivered, history>>
-----------------------------------------------------------------------------
(* The rest of a call that has begun *)
Call == has_rx_packet \/ has_tx_space \/ recv_with \/ DropTxToken
        \/ transmit_with \/ transmit_post

Task == receive \/ transmit \/ Call

Pump == PumpEmpty \/ PumpSlotFull \/ PumpXfer \/ PumpTxComplete \/ PumpInBand
        \/ parse_xfer_page_packet \/ send_completion \/ PumpFrame
        \/ send_rndis_control_inner \/ PumpOther

Host == (\E m \in Messages : HostXfer(m.kind, m.ranges))
        \/ HostInBand \/ HostTakesBack \/ HostTransmits

Halted == pc = "panic" /\ UNCHANGED vars

Next == Task \/ Pump \/ Host \/ Halted

(* A call runs to its end, and the host goes on serving its ring.  Nothing *)
(* makes the task call DynNic again: SintExecutor tells when it is polled. *)
Fairness ==
  /\ WF_vars(Pump) /\ WF_vars(Call)
  /\ WF_vars(HostTakesBack) /\ WF_vars(HostTransmits)

Spec == Init /\ [][Next]_vars

FairSpec == Spec /\ Fairness
-----------------------------------------------------------------------------
(* Types of the rings, the device's fields and the histories. *)
TypeOK ==
  /\ rx_ring \in Seq(RxMessage) /\ Len(rx_ring) <= RingCap
  /\ tx_ring \in Seq(TxMessage) /\ Len(tx_ring) <= RingCap
  /\ recv_buf \in [Slots -> Content] /\ host_free \subseteq Slots
  /\ send_buf \in Content /\ send_section_free \in BOOLEAN
  /\ pending_rx \in {None} \cup PendingRx
  /\ pc \in {"idle", "has_rx_packet", "receive_tx_ready", "has_tx_space",
             "rx_token", "tx_token", "tx_recheck", "post", "panic"}
  /\ pump_pc \in {"off", "loop", "parse", "complete", "dispatch"}
  /\ pump_desc \in RxMessage /\ pump_data \in Content
  /\ xfers \in Nat /\ txs \in Nat /\ delivered \in Seq(PendingRx)
  /\ lost \subseteq Slots /\ unread \subseteq Slots /\ stuck \subseteq Slots
  /\ forgotten \subseteq Nat /\ overlap \in BOOLEAN
  /\ wire \in Seq([posted : Content, read : Content])

(* Frames reach the stack in the order the host sent them, none twice:     *)
(* pending_rx is emptied by recv_with and only refilled from the ring.     *)
DeliveredInOrder ==
  \A i, j \in 1 .. Len(delivered) : i < j => delivered[i].n < delivered[j].n

(* The host cannot refill a slot before its contents have been copied: the *)
(* message pump_channel works on is the one its packet announced, or none. *)
CopiedBeforeReturned ==
  pump_pc \in {"complete", "dispatch"} /\ pump_data # None => pump_data.n = pump_desc.n

(* None, one, or (2) several *)
Number(S) == IF S = {} THEN 0 ELSE IF \E x \in S : S = {x} THEN 1 ELSE 2

(* How often slot s is accounted for: with the host, announced in the      *)
(* ring, held by pump_channel, or on its way back.                         *)
Holders(s) ==
  (IF s \in host_free THEN 1 ELSE 0)
  + Number({i \in 1 .. Len(rx_ring) :
              rx_ring[i].type = "xfer" /\ s \in Range(rx_ring[i].ranges)})
  + (IF pump_pc \in {"parse", "complete"} /\ s \in Range(pump_desc.ranges) THEN 1 ELSE 0)
  + Number({i \in 1 .. Len(tx_ring) :
              tx_ring[i].type = "comp" /\ s \in Range(tx_ring[i].ranges)})

(* The host gets every slot back exactly once, except the slots of packets *)
(* that pump_channel took off the ring while pending_rx was occupied, and  *)
(* the slots whose completion found the send ring full.                    *)
SlotAccounted ==
  \A s \in Slots : Holders(s) = IF s \in lost \cup stuck THEN 0 ELSE 1

(* The whole frame of the message in slot s *)
Whole(s) == Piece(recv_buf[s], FrameOf(Packets[recv_buf[s].kind]))
Fits(s) == recv_buf[s].kind = "frame"

(* Where the frame the host put into slot s may be *)
Kept(s) ==
  \/ \E i \in 1 .. Len(rx_ring) : s \in Range(rx_ring[i].ranges)
  \/ pump_pc # "off" /\ s \in Range(pump_desc.ranges)
  \/ pending_rx = Whole(s)
  \/ \E i \in 1 .. Len(delivered) : delivered[i] = Whole(s)

(* A frame taken off the ring reaches the stack: netvsc.rs says that while *)
(* pending_rx is Some the further packets remain in the ring.              *)
NoFrameLost ==
  \A s \in Slots : Fits(s) => Kept(s)

(* ... and does so, whole and without a byte of the headers, but for three *)
(* losses: pump_channel found pending_rx occupied; the frame was not in    *)
(* the packet's first range, the only one that is read, or not even that   *)
(* one was, because `raw` did not hold all the ranges; or its message has  *)
(* more than RX_FRAME_MAX bytes.                                           *)
LostOnlyWhenFull ==
  \A s \in Slots \ (lost \cup unread) : Fits(s) => Kept(s)

(* The host transmits what was posted: nothing rewrites section 0 between  *)
(* a post and the host's read, unless two messages overlapped in it.       *)
TransmitsWhatWasPosted ==
  \/ overlap
  \/ \A i \in 1 .. Len(wire) : wire[i].read = wire[i].posted

(* Section 0 is free only when no frame posted from it waits for the host: *)
(* the completion that frees it is the one of the outstanding frame, again *)
(* unless two messages overlapped.                                         *)
FreeMeansIdle ==
  ~overlap /\ send_section_free =>
    \A i \in 1 .. Len(tx_ring) : tx_ring[i].posted.kind # "tx"

(* Messages overlap only after a keepalive reply, which leaves the section *)
(* marked free: send_section_free keeps frames apart from each other.      *)
OverlapNeedsReply ==
  overlap =>
    \/ \E i \in 1 .. Len(wire) : wire[i].posted.kind = "reply"
    \/ \E i \in 1 .. Len(tx_ring) : tx_ring[i].posted.kind = "reply"

(* NicNetvsc's expects fire for one reason only, a frame that finds the    *)
(* send ring full: a token is never handed out without a frame or a free   *)
(* section behind it.                                                      *)
PanicsOnFullRingOnly == [][pc # "panic" /\ pc' = "panic" => ~RoomToSend]_vars

(* A posted frame is eventually completed and the section free again. *)
SectionFreedAgain == ~send_section_free ~> send_section_free \/ pc = "panic"

(* The host gets an answer to the keepalive it has sent, but for three     *)
(* reasons: its packet came to a pump_channel that found pending_rx        *)
(* occupied, its ranges did not fit into `raw`, or the reply was refused   *)
(* because a frame was in flight or the ring full: the Err that the        *)
(* comment reads as "try again later" is dropped and nothing tries again.  *)
KeepaliveAnswered ==
  \A n \in 1 .. MaxXfer :
    LET asked == [kind |-> "keepalive", n |-> n]
    IN (\E s \in Slots : recv_buf[s] = asked) ~>
         \/ \E i \in 1 .. Len(wire) : wire[i].posted = [kind |-> "reply", n |-> n]
         \/ \E s \in lost \cup unread : recv_buf[s] = asked
         \/ n \in forgotten \/ pc = "panic"

(* While the stack goes on calling DynNic, what waits for the send section *)
(* or the send ring is settled in the end: the section comes back after    *)
(* every frame, and a keepalive is answered but for the lost and refused.  *)
SendsSettle == []<>(pc # "idle") => SectionFreedAgain /\ KeepaliveAnswered

(* The receive buffer, slot by slot: the host gets every slot back once,   *)
(* and not before pump_channel has copied what is in it.                   *)
ReceiveInv == TypeOK /\ CopiedBeforeReturned /\ SlotAccounted

(* The way of a frame from the ring to the stack: in order, never twice,   *)
(* and lost only in the ways LostOnlyWhenFull names.                       *)
FramesKept == DeliveredInOrder /\ LostOnlyWhenFull

(* The only send section: send_section_free keeps a frame from being       *)
(* overwritten before the host has read it; a keepalive reply, which       *)
(* ignores the flag, is the one thing that can.                            *)
SectionKept == TransmitsWhatWasPosted /\ FreeMeansIdle /\ OverlapNeedsReply
=============================================================================
