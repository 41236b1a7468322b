----------------------------- MODULE VmbusRing -----------------------------
(***************************************************************************)
(* One direction of a VMBus channel: the ring buffer that                  *)
(* embclox-hyperv/src/ring.rs (RingHalf) shares between the guest and the  *)
(* host.  One side sends, the other receives; each owns one index and only *)
(* reads the other.  The guest runs the sender on its send ring and the    *)
(* receiver on its receive ring, and the peer runs the opposite side by    *)
(* the same protocol.                                                      *)
(*                                                                         *)
(* Every index, header and packet length of the code is a multiple of 8    *)
(* bytes, so the model counts 8-byte words; only a payload length is in    *)
(* bytes.  A side reads the peer's index once, then copies word by word    *)
(* while the peer goes on working, then publishes its own index.           *)
(***************************************************************************)
EXTENDS Integers, Sequences

CONSTANTS Words,      \* data_size, in words
          PayloadLens,\* payload lengths in bytes the callers send
          XferRanges, \* range counts of the host's transfer-page packets
          BufWords,   \* size of the buffer the receiver is called with
          MaxSent     \* bound on the number of packets ever sent

ASSUME WordsAssumption == Words \in Nat \ {0}
ASSUME PayloadAssumption == PayloadLens \subseteq Nat
ASSUME XferAssumption == XferRanges \subseteq Nat
ASSUME BufAssumption == BufWords \in Nat
ASSUME MaxSentAssumption == MaxSent \in Nat

VARIABLES
  write_index, read_index, data,  \* the shared pages
  send_pc, send_pkt, send_pos,    \* locals of the running send operation
  send_result,                    \* what the last send returned
  recv_pc, recv_raw, recv_avail, recv_buf,  \* locals of the running receive
  recv_result,                    \* what the last receive returned
  sent, received,                 \* history: packets published, handed over
  written, consumed               \* history: words published, words released

ringVars == <<write_index, read_index, data>>
sendVars == <<send_pc, send_pkt, send_pos, send_result>>
recvVars == <<recv_pc, recv_raw, recv_avail, recv_buf, recv_result>>
vars == <<ringVars, sendVars, recvVars, sent, received, written, consumed>>
----------------------------------------------------------------------------
(* VmPacketDescriptor.packet_type *)
VM_PKT_DATA_INBAND == 6
VM_PKT_DATA_USING_XFER_PAGES == 7
VM_PKT_DATA_USING_GPA_DIRECT == 8
VM_PKT_COMP == 11

DescWords == 2                \* size_of::<VmPacketDescriptor>() / 8
PageBufferHeaderWords == 5    \* descriptor, range count and one PageBuffer
XferHeaderWords(ranges) == 3 + ranges  \* descriptor, set id and count, ranges
Mutant_SkipWords == 7

SkipWords == 8                \* let mut skip = [0u8; 64]

Align8(n) == ((n + 7) \div 8) * 8

(* packet_len / 8 for a header of h words and n bytes of payload *)
Len8(h, n) == Align8(8 * h + n) \div 8

(* What a packet is to the ring: `id` stands for its transaction id and    *)
(* contents, `at` is the number of words published before it (history).    *)
Packet == [id : Nat \ {0}, type : Nat, offset8 : Nat, len8 : Nat, at : Nat]

Total(p) == p.len8 + 1        \* total_write: the packet and prev_indices

(* The k-th word of a packet in memory.  Word 0 holds type, offset8 and    *)
(* len8; word 1 the transaction id; word len8 is the trailing prev_indices *)
Word(p, k) == [id |-> p.id, k |-> k,
               offset8 |-> IF k = 0 THEN p.offset8 ELSE 0,
               len8 |-> IF k = 0 THEN p.len8 ELSE 0]

ZeroWord == [id |-> 0, k |-> 0, offset8 |-> 0, len8 |-> 0]

NoPacket == [id |-> 1, type |-> 0, offset8 |-> 0, len8 |-> 0, at |-> 0]

WordType == [id : Nat, k : Nat, offset8 : Nat, len8 : Nat]
----------------------------------------------------------------------------
(* `avail` as the send operations and the receive operations compute it *)
Mutant_FreeWords(w, r) == IF w > r THEN Words - (w - r) ELSE r - w

FreeWords(w, r) == IF w >= r THEN Words - (w - r) ELSE r - w

UsedWords(w, r) == IF w >= r THEN w - r ELSE Words - (r - w)

Mutant_HasRoom(total) == FreeWords(write_index, read_index) >= total

(* not RingError::Full: the ring is never filled completely *)
HasRoom(total) == FreeWords(write_index, read_index) > total

Init ==
  /\ write_index = 0 /\ read_index = 0
  /\ data = [i \in 0 .. Words - 1 |-> ZeroWord]
  /\ send_pc = "idle" /\ send_pkt = NoPacket /\ send_pos = 0
  /\ send_result = "none"
  /\ recv_pc = "idle" /\ recv_raw = FALSE /\ recv_avail = 0
  /\ recv_buf = << >> /\ recv_result = "none"
  /\ sent = << >> /\ received = << >>
  /\ written = 0 /\ consumed = 0
----------------------------------------------------------------------------
(* Entry of a send operation: sizes, the two indices, the Full check. *)
SendStart(type, header, n) ==
  LET p == [id |-> Len(sent) + 1, type |-> type, offset8 |-> header,
            len8 |-> Len8(header, n), at |-> written]
  IN
  /\ send_pc = "idle"
  /\ Len(sent) < MaxSent
  /\ \/ /\ HasRoom(Total(p))
        /\ send_pc' = "copy" /\ send_pkt' = p /\ send_pos' = 0
        /\ UNCHANGED send_result
     \/ /\ ~HasRoom(Total(p))
        /\ send_result' = "full"
        /\ UNCHANGED <<send_pc, send_pkt, send_pos>>
  /\ UNCHANGED <<ringVars, recvVars, sent, received, written, consumed>>

send_packet(n) == SendStart(VM_PKT_DATA_INBAND, DescWords, n)

send_comp(n) == SendStart(VM_PKT_COMP, DescWords, n)

send_packet_with_page_buffer(n) ==
  SendStart(VM_PKT_DATA_USING_GPA_DIRECT, PageBufferHeaderWords, n)

(* The host's data packets, sent by the host with the same protocol *)
HostXferPages(n) ==
  \E ranges \in XferRanges :
    SendStart(VM_PKT_DATA_USING_XFER_PAGES, XferHeaderWords(ranges), n)

(* copy_to of descriptor, payload, padding and prev_indices, word by word *)
copy_to ==
  /\ send_pc = "copy" /\ send_pos < Total(send_pkt)
  /\ data' = [data EXCEPT ![(write_index + send_pos) % Words] =
                             Word(send_pkt, send_pos)]
  /\ send_pos' = send_pos + 1
  /\ UNCHANGED <<write_index, read_index, send_pc, send_pkt, send_result,
                 recvVars, sent, received, written, consumed>>

(* set_write_index after the Release fence, and Ok(()) *)
Mutant_PublishFirst ==
  /\ send_pc = "copy" /\ send_pos = DescWords
  /\ write_index' = (write_index + Total(send_pkt)) % Words
  /\ written' = written + Total(send_pkt)
  /\ sent' = Append(sent, send_pkt)
  /\ send_pc' = "idle" /\ send_result' = "ok"
  /\ UNCHANGED <<read_index, data, send_pkt, send_pos, recvVars, received,
                 consumed>>

SendPublish ==
  /\ send_pc = "copy" /\ send_pos = Total(send_pkt)
  /\ write_index' = (write_index + Total(send_pkt)) % Words
  /\ written' = written + Total(send_pkt)
  /\ sent' = Append(sent, send_pkt)
  /\ send_pc' = "idle" /\ send_result' = "ok"
  /\ UNCHANGED <<read_index, data, send_pkt, send_pos, recvVars, received,
                 consumed>>

Send ==
  \E n \in PayloadLens :
    \/ send_packet(n) \/ send_comp(n) \/ send_packet_with_page_buffer(n)
    \/ HostXferPages(n)
----------------------------------------------------------------------------
(* Where the caller's data starts, and how many words of it fit its buffer *)
DataStart(raw, offset8) == IF raw THEN DescWords ELSE offset8

CopyLen(raw, p) ==
  LET n == p.len8 - DataStart(raw, p.offset8)
  IN IF n <= BufWords THEN n ELSE BufWords

(* What a receive of packet p hands to its caller *)
Delivered(p, raw) ==
  [id |-> p.id,
   words |-> [j \in 1 .. CopyLen(raw, p) |->
                Word(p, DataStart(raw, p.offset8) + j - 1)]]

(* Entry of a receive operation: the indices, and the checks on `avail` *)
RecvStart(raw) ==
  LET avail == UsedWords(write_index, read_index)
  IN
  /\ recv_pc = "idle"
  /\ IF avail >= DescWords
       THEN /\ recv_pc' = "desc" /\ recv_raw' = raw /\ recv_avail' = avail
            /\ recv_buf' = << >> /\ UNCHANGED recv_result
       ELSE /\ recv_result' = IF avail = 0 THEN "none" ELSE "corrupt"
            /\ UNCHANGED <<recv_pc, recv_raw, recv_avail, recv_buf>>
  /\ UNCHANGED <<ringVars, sendVars, sent, received, written, consumed>>

recv_packet == RecvStart(FALSE)

recv_packet_raw == RecvStart(TRUE)

(* How many words the running receive reads before it checks or advances:  *)
(* the descriptor, then (skipping up to offset8) the payload that fits.    *)
WordsToRead ==
  IF recv_pc = "desc" THEN DescWords
  ELSE DataStart(recv_raw, recv_buf[1].offset8) + CopyLen(recv_raw, recv_buf[1])

copy_from ==
  /\ recv_pc \in {"desc", "copy"} /\ Len(recv_buf) < WordsToRead
  /\ recv_buf' = Append(recv_buf, data[(read_index + Len(recv_buf)) % Words])
  /\ UNCHANGED <<ringVars, sendVars, recv_pc, recv_raw, recv_avail,
                 recv_result, sent, received, written, consumed>>

(* The checks on the descriptor.  A skip longer than the 64-byte scratch   *)
(* buffer of recv_packet is an out-of-range slice: a panic.                *)
CheckDescriptor ==
  LET desc == recv_buf[1]
      corrupt == \/ desc.len8 < DescWords
                 \/ desc.len8 + 1 > recv_avail
                 \/ ~recv_raw /\ desc.offset8 > desc.len8
      overrun == ~recv_raw /\ desc.offset8 > DescWords + SkipWords
  IN
  /\ recv_pc = "desc" /\ Len(recv_buf) = DescWords
  /\ recv_pc' = CASE corrupt -> "idle" [] ~corrupt /\ overrun -> "panic"
                   [] OTHER -> "copy"
  /\ recv_result' = IF corrupt THEN "corrupt" ELSE recv_result
  /\ UNCHANGED <<ringVars, sendVars, recv_raw, recv_avail, recv_buf, sent,
                 received, written, consumed>>

(* set_read_index past the packet and its trailer, and Ok(Some(..)) *)
RecvAdvance ==
  /\ recv_pc = "copy" /\ Len(recv_buf) = WordsToRead
  /\ LET desc == recv_buf[1]
         first == DataStart(recv_raw, desc.offset8)
     IN
     /\ read_index' = (read_index + desc.len8 + 1) % Words
     /\ consumed' = consumed + desc.len8 + 1
     /\ received' = Append(received,
          [id |-> desc.id,
           words |-> [j \in 1 .. CopyLen(recv_raw, desc) |-> recv_buf[first + j]]])
  /\ recv_pc' = "idle" /\ recv_result' = "ok"
  /\ UNCHANGED <<write_index, data, sendVars, recv_raw, recv_avail, recv_buf,
                 sent, written>>

Recv == recv_packet \/ recv_packet_raw
----------------------------------------------------------------------------
(* The panic handler: the guest stops, and the host stops once it has no   *)
(* more to send or no more room.                                           *)
Halted == recv_pc = "panic" /\ UNCHANGED vars

Next ==
  \/ Send \/ copy_to \/ SendPublish
  \/ Recv \/ copy_from \/ CheckDescriptor \/ RecvAdvance
  \/ Halted

(* A running operation finishes: it has no await and no lock.  The sender  *)
(* retries and the receiver is called again while there is work: that is   *)
(* what the wake-ups of isr.rs and the callers' poll loops provide.        *)
Fairness ==
  /\ WF_vars(Send) /\ WF_vars(copy_to) /\ WF_vars(SendPublish)
  /\ WF_vars(Recv) /\ WF_vars(copy_from) /\ WF_vars(CheckDescriptor)
  /\ WF_vars(RecvAdvance)

Spec == Init /\ [][Next]_vars

FairSpec == Spec /\ Fairness
----------------------------------------------------------------------------
(* Types of the shared pages, of the two sides' locals and of the history. *)
TypeOK ==
  /\ write_index \in 0 .. Words - 1 /\ read_index \in 0 .. Words - 1
  /\ data \in [0 .. Words - 1 -> WordType]
  /\ send_pc \in {"idle", "copy"} /\ send_pkt \in Packet /\ send_pos \in Nat
  /\ send_result \in {"none", "ok", "full"}
  /\ recv_pc \in {"idle", "desc", "copy", "panic"} /\ recv_raw \in BOOLEAN
  /\ recv_avail \in Nat /\ recv_buf \in Seq(WordType)
  /\ recv_result \in {"none", "ok", "corrupt"}
  /\ sent \in Seq(Packet)
  /\ received \in Seq([id : Nat, words : Seq(WordType)])
  /\ written \in Nat /\ consumed \in Nat

(* The packets published and not yet released by the receiver *)
Unread == Len(received) + 1 .. Len(sent)

(* Both sides compute the fill level from two indices that wrap around.    *)
(* It is the true number of unread words: a ring that is full is never     *)
(* taken for an empty one, whatever the sender and the receiver do         *)
(* between reading the peer's index and publishing their own.              *)
IndicesTellFill ==
  /\ UsedWords(write_index, read_index) = written - consumed
  /\ FreeWords(write_index, read_index) = Words - (written - consumed)

(* No send overwrites a packet the receiver has not released: every        *)
(* unread packet is whole in memory, trailer included, while the next one  *)
(* is being copied in and across the wrap.                                 *)
UnreadIntact ==
  \A i \in Unread : \A k \in 0 .. sent[i].len8 :
    data[(sent[i].at + k) % Words] = Word(sent[i], k)

(* Between two ends that follow the protocol no receive reports            *)
(* RingError::Corrupt: the descriptor it reads is always that of a packet. *)
NoCorrupt == recv_result # "corrupt"

(* recv_packet slices past its 64-byte scratch buffer, and panics, for one *)
(* kind of packet: the oldest unread one is a transfer-page packet of more *)
(* than 7 ranges.  No smaller packet, wherever it wraps, makes it panic;   *)
(* none of that kind is handed over by it; recv_packet_raw never panics.   *)
(* Nothing in the code bounds the ranges before the slice.                 *)
PanicsOnLongHeader ==
  LET oldest == sent[Len(received) + 1]
  IN
  /\ recv_pc = "panic" =>
       /\ ~recv_raw /\ oldest.type = VM_PKT_DATA_USING_XFER_PAGES
       /\ oldest.offset8 > XferHeaderWords(7)
  /\ recv_pc = "copy" /\ ~recv_raw => oldest.offset8 <= XferHeaderWords(7)

(* The induction behind these invariants.  The history counts words        *)
(* without wrapping, so a place in the ring is a count modulo Words.       *)
CountsInv ==
  /\ write_index = written % Words /\ read_index = consumed % Words
  /\ consumed <= written /\ written - consumed < Words

WellFormed(p) == DescWords <= p.offset8 /\ p.offset8 <= p.len8

(* Packets lie one after another; the oldest unread one is at `consumed`. *)
LayoutInv ==
  /\ Len(received) <= Len(sent)
  /\ \A i \in 1 .. Len(sent) :
       /\ WellFormed(sent[i])
       /\ sent[i].at + Total(sent[i]) <= written
       /\ sent[i].at + Total(sent[i]) =
            IF i < Len(sent) THEN sent[i + 1].at ELSE written
       /\ \A j \in 1 .. Len(sent) :
            i < j => sent[i].at + Total(sent[i]) <= sent[j].at
  /\ consumed = IF Len(received) < Len(sent)
                  THEN sent[Len(received) + 1].at ELSE written

(* The packet being copied in was granted room that the receiver can only  *)
(* enlarge, and its first send_pos words are in place.                     *)
SendInv ==
  send_pc = "copy" =>
    /\ WellFormed(send_pkt) /\ send_pkt.at = written
    /\ send_pos <= Total(send_pkt)
    /\ written + Total(send_pkt) - consumed < Words
    /\ \A k \in 0 .. send_pos - 1 :
         data[(written + k) % Words] = Word(send_pkt, k)

(* What has been read so far is a prefix of the oldest unread packet, and  *)
(* the snapshot of the fill level covers that packet.                      *)
RecvInv ==
  recv_pc # "idle" =>
    /\ Len(received) < Len(sent)
    /\ Total(sent[Len(received) + 1]) <= recv_avail
    /\ \A k \in 1 .. Len(recv_buf) :
         recv_buf[k] = Word(sent[Len(received) + 1], k - 1)
    /\ recv_pc = "desc" => Len(recv_buf) <= DescWords
    /\ recv_pc = "copy" =>
         /\ DescWords <= Len(recv_buf) /\ Len(recv_buf) <= WordsToRead

(* The inductive invariant: the code keeps all of this at every step of    *)
(* either side.                                                            *)
RingInv ==
  /\ TypeOK /\ CountsInv /\ LayoutInv /\ UnreadIntact
  /\ SendInv /\ RecvInv /\ NoCorrupt

Queue == [i \in 1 .. Len(sent) - Len(received) |-> sent[i + Len(received)]]

Q == INSTANCE PacketQueue WITH queue <- Queue

(* The ring is a FIFO of packets: each receive hands over the oldest       *)
(* unread packet, once, with exactly the words its operation selects.      *)
ImplementsQueue == Q!Spec

(* Everything is eventually sent and received: no sequence of wraps and    *)
(* Full returns leaves the two sides stuck, the sender seeing a full ring  *)
(* and the receiver an empty one.  Only the panic of recv_packet on a long *)
(* header ends it early.                                                   *)
AllDelivered == <>(Len(received) = MaxSent \/ recv_pc = "panic")
=============================================================================
