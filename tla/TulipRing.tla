----------------------------- MODULE TulipRing -----------------------------
(***************************************************************************)
(* The DEC 21140: its descriptor rings (embclox-tulip/src/device.rs) as    *)
(* the network task drives them through DynNic and NicTulip, and its probe *)
(* and interrupt handler (embclox-driver/src/drivers/tulip.rs).            *)
(*                                                                         *)
(* Every descriptor has an OWN bit that says whose it is.  The driver      *)
(* walks each ring with an index of its own, and so does the card, which   *)
(* is external.  Frames are numbered from 1; number 0 stands for the setup *)
(* frame, the first thing in the transmit ring.                            *)
(***************************************************************************)
EXTENDS PciInterrupt, Integers, Sequences, FiniteSets

CONSTANTS RX_RING_SIZE, TX_RING_SIZE,
          MaxRx, MaxTx     \* bounds on the frames received and sent

ASSUME SizesAssumption == RX_RING_SIZE \in Nat \ {0} /\ TX_RING_SIZE \in Nat \ {0}
ASSUME BoundsAssumption == MaxRx \in Nat /\ MaxTx \in Nat

VARIABLES
  rx_own, rx_buf, rx_next, card_rx,   \* receive ring, and where each side is
  tx_own, tx_buf, tx_next, card_tx,   \* transmit ring, and where each side is
  rx_on,                              \* CSR6_SR
  pc,                                 \* TulipDriver::probe, then the network task
  status,                             \* tulip_handler's local: CSR5 as it was read
  arrived, posted,                    \* frames the card took in, the stack posted
  delivered, wire                     \* history: frames handed over, processed

rxVars == <<rx_own, rx_buf, rx_next, card_rx, rx_on, arrived, delivered>>
txVars == <<tx_own, tx_buf, tx_next, card_tx, posted, wire>>
ringVars == <<rxVars, txVars, pc>>
vars == <<ringVars, status, irqVars>>
-----------------------------------------------------------------------------
RxIndices == 0 .. RX_RING_SIZE - 1
TxIndices == 0 .. TX_RING_SIZE - 1
Setup == 0
Blank == -1

(* new, up to send_setup_frame *)
Init ==
  /\ rx_own = [i \in RxIndices |-> TRUE] /\ rx_buf = [i \in RxIndices |-> Blank]
  /\ tx_own = [i \in TxIndices |-> FALSE] /\ tx_buf = [i \in TxIndices |-> Blank]
  /\ rx_next = 0 /\ card_rx = 0 /\ tx_next = 0 /\ card_tx = 0
  /\ rx_on = FALSE /\ pc = "new"
  /\ arrived = 0 /\ posted = 0 /\ delivered = << >> /\ wire = << >>
  /\ status = FALSE /\ IrqInit

send_setup_frame ==
  /\ pc = "new"
  /\ IF tx_own[tx_next]
       THEN pc' = "panic" /\ UNCHANGED txVars
       ELSE /\ tx_buf' = [tx_buf EXCEPT ![tx_next] = Setup]
            /\ tx_own' = [tx_own EXCEPT ![tx_next] = TRUE]
            /\ pc' = "setup_wait"
            /\ UNCHANGED <<tx_next, card_tx, posted, wire>>
  /\ UNCHANGED <<rxVars, status, irqVars>>

(* The wait ends when the card gives the descriptor back, or after 100,000 *)
(* looks at it; either way the ring moves on and the receiver is started.  *)
setup_done ==
  /\ pc = "setup_wait"
  /\ tx_next' = (tx_next + 1) % TX_RING_SIZE
  /\ rx_on' = TRUE /\ pc' = "route"
  /\ UNCHANGED <<tx_own, tx_buf, card_tx, posted, wire, status, irqVars>>
  /\ UNCHANGED <<rx_own, rx_buf, rx_next, card_rx, arrived, delivered>>

(* The registers were published to the handler before. *)
install_pci_isr ==
  /\ pc = "route" /\ handler = "idle"
  /\ Route /\ pc' = "enable"
  /\ UNCHANGED <<rxVars, txVars, status>>

enable_interrupts ==
  /\ pc = "enable" /\ handler = "idle"
  /\ Unmask /\ pc' = "idle"
  /\ UNCHANGED <<rxVars, txVars, status>>
-----------------------------------------------------------------------------
Mutant_tulip_handler ==
  /\ latched /\ handler = "idle"
  /\ latched' = FALSE /\ handler' = "read"
  /\ UNCHANGED <<ringVars, status, cause, unmasked, routed, taskVars>>

(* tulip_handler masks in CSR7, ... *)
tulip_handler ==
  /\ latched /\ handler = "idle"
  /\ latched' = FALSE /\ unmasked' = FALSE /\ handler' = "read"
  /\ UNCHANGED <<ringVars, status, cause, routed, taskVars>>

(* ... reads CSR5, ... *)
tulip_read ==
  /\ handler = "read"
  /\ status' = cause /\ handler' = "ack"
  /\ UNCHANGED <<ringVars, lineVars, taskVars>>

(* ... writes the bits it read back to clear them, ... *)
tulip_ack ==
  /\ handler = "ack"
  /\ cause' = (cause /\ ~status) /\ handler' = "unmask"
  /\ UNCHANGED <<ringVars, status, unmasked, routed, taskVars>>
  /\ Latch

(* ... unmasks, and wakes the task. *)
tulip_unmask ==
  /\ handler = "unmask"
  /\ unmasked' = TRUE /\ handler' = "wake"
  /\ UNCHANGED <<ringVars, status, cause, routed, taskVars>>
  /\ Latch

Handler ==
  \/ tulip_handler \/ tulip_read \/ tulip_ack \/ tulip_unmask
  \/ handler_wake /\ UNCHANGED <<ringVars, status>>
-----------------------------------------------------------------------------
has_rx_packet == ~rx_own[rx_next]

has_tx_space == ~tx_own[tx_next]

(* The task has the CPU. *)
Runs == handler = "idle" /\ task = "polling"

(* DynNic::receive hands out both tokens or none; DynNic::transmit one.    *)
receive ==
  /\ Runs /\ pc = "idle" /\ has_rx_packet /\ has_tx_space
  /\ pc' = "rx"
  /\ UNCHANGED <<rxVars, txVars, status, irqVars>>

transmit ==
  /\ Runs /\ pc = "idle" /\ has_tx_space /\ posted < MaxTx
  /\ pc' = "tx"
  /\ UNCHANGED <<rxVars, txVars, status, irqVars>>

(* recv_with up to its callback; None is the panic of NicTulip's expect.   *)
recv_with ==
  /\ Runs /\ pc = "rx"
  /\ IF rx_own[rx_next]
       THEN pc' = "panic" /\ UNCHANGED delivered
       ELSE /\ delivered' = Append(delivered, rx_buf[rx_next])
            /\ pc' = "rx_return"
  /\ UNCHANGED <<rx_own, rx_buf, rx_next, card_rx, rx_on, arrived, txVars, status, irqVars>>

Mutant_recv_return ==
  /\ Runs /\ pc = "rx_return"
  /\ rx_next' = (rx_next + 1) % RX_RING_SIZE
  /\ pc' = "reply"
  /\ UNCHANGED <<rx_own, rx_buf, card_rx, rx_on, arrived, delivered, txVars, status, irqVars>>

Mutant_recv_no_advance ==
  /\ Runs /\ pc = "rx_return"
  /\ rx_own' = [rx_own EXCEPT ![rx_next] = TRUE]
  /\ pc' = "reply"
  /\ UNCHANGED <<rx_buf, rx_next, card_rx, rx_on, arrived, delivered, txVars, status, irqVars>>

(* ... gives the descriptor back, moves on, and pokes the card. *)
recv_return ==
  /\ Runs /\ pc = "rx_return"
  /\ rx_own' = [rx_own EXCEPT ![rx_next] = TRUE]
  /\ rx_next' = (rx_next + 1) % RX_RING_SIZE
  /\ pc' = "reply"
  /\ UNCHANGED <<rx_buf, card_rx, rx_on, arrived, delivered, txVars, status, irqVars>>

Mutant_transmit_with ==
  /\ Runs /\ pc \in {"tx", "reply"} /\ posted < MaxTx
  /\ tx_buf' = [tx_buf EXCEPT ![tx_next] = posted + 1]
  /\ posted' = posted + 1 /\ pc' = "tx_own"
  /\ tx_own' = [tx_own EXCEPT ![tx_next] = TRUE]
  /\ UNCHANGED <<tx_next, card_tx, wire, rxVars, status, irqVars>>

(* transmit_with fills the buffer and the control word ... *)
transmit_with ==
  /\ Runs /\ pc \in {"tx", "reply"} /\ posted < MaxTx
  /\ IF tx_own[tx_next]
       THEN pc' = "panic" /\ UNCHANGED <<tx_buf, posted>>
       ELSE /\ tx_buf' = [tx_buf EXCEPT ![tx_next] = posted + 1]
            /\ posted' = posted + 1 /\ pc' = "tx_own"
  /\ UNCHANGED <<tx_own, tx_next, card_tx, wire, rxVars, status, irqVars>>

(* ... hands it to the card, moves on, and pokes the card. *)
transmit_own ==
  /\ Runs /\ pc = "tx_own"
  /\ tx_own' = [tx_own EXCEPT ![tx_next] = TRUE]
  /\ tx_next' = (tx_next + 1) % TX_RING_SIZE
  /\ pc' = "idle"
  /\ UNCHANGED <<tx_buf, card_tx, posted, wire, rxVars, status, irqVars>>

(* The stack has no reply to the frame and drops the token. *)
DropTxToken ==
  /\ Runs /\ pc = "reply" /\ pc' = "idle"
  /\ UNCHANGED <<rxVars, txVars, status, irqVars>>
-----------------------------------------------------------------------------
(* The card.  It looks at its next descriptor when it is poked, and by     *)
(* itself every now and then (CSR0's automatic polling).                   *)

CardReceives ==
  /\ rx_on /\ rx_own[card_rx] /\ arrived < MaxRx
  /\ rx_buf' = [rx_buf EXCEPT ![card_rx] = arrived + 1]
  /\ rx_own' = [rx_own EXCEPT ![card_rx] = FALSE]
  /\ card_rx' = (card_rx + 1) % RX_RING_SIZE /\ arrived' = arrived + 1
  /\ RaiseCause
  /\ UNCHANGED <<rx_next, rx_on, delivered, txVars, pc, status>>

CardTransmits ==
  /\ tx_own[card_tx]
  /\ wire' = Append(wire, tx_buf[card_tx])
  /\ tx_own' = [tx_own EXCEPT ![card_tx] = FALSE]
  /\ card_tx' = (card_tx + 1) % TX_RING_SIZE
  /\ UNCHANGED <<tx_buf, tx_next, posted, rxVars, pc, status, irqVars>>

Probe == send_setup_frame \/ setup_done \/ install_pci_isr \/ enable_interrupts

(* The executor runs once probe is over. *)
Task ==
  \/ receive \/ transmit \/ recv_with \/ recv_return \/ transmit_with \/ transmit_own
  \/ DropTxToken
  \/ /\ pc = "idle"
     /\ executor_poll \/ Refuse(has_rx_packet, has_tx_space) \/ register_waker
     /\ UNCHANGED <<ringVars, status>>

Next ==
  \/ Probe \/ Handler \/ Task \/ CardReceives \/ CardTransmits
  \/ StackWakes /\ UNCHANGED <<ringVars, status>>

Spec == Init /\ [][Next]_vars

(* The CPU runs, takes a latched interrupt and polls a queued task, and    *)
(* the card sends; frames come from the network, and the stack wakes the   *)
(* task and posts frames, when they like.                                  *)
FairSpec ==
  /\ Spec
  /\ WF_vars(Probe) /\ WF_vars(Handler) /\ WF_vars(Task) /\ WF_vars(CardTransmits)
-----------------------------------------------------------------------------
(* The indices of both sides stay in the rings, and buffers hold frames.   *)
TypeOK ==
  /\ rx_own \in [RxIndices -> BOOLEAN] /\ rx_buf \in [RxIndices -> Blank .. MaxRx]
  /\ tx_own \in [TxIndices -> BOOLEAN] /\ tx_buf \in [TxIndices -> Blank .. MaxTx]
  /\ {rx_next, card_rx} \subseteq RxIndices /\ {tx_next, card_tx} \subseteq TxIndices
  /\ rx_on \in BOOLEAN
  /\ IrqTypeOK /\ status \in BOOLEAN
  /\ pc \in {"new", "setup_wait", "route", "enable", "idle", "rx", "rx_return", "tx", "reply",
             "tx_own", "panic"}
  /\ arrived \in 0 .. MaxRx /\ posted \in 0 .. MaxTx

(* The frames the driver has still to take and the card has still to send, *)
(* told apart by OWN alone: a ring may be full.                            *)
RxPending ==
  LET filled == Cardinality({i \in RxIndices : ~rx_own[i]})
      taken == IF pc = "rx_return" THEN 1 ELSE 0
  IN [i \in 1 .. filled - taken |-> rx_buf[(rx_next + taken + i - 1) % RX_RING_SIZE]]

TxPending ==
  [i \in 1 .. Cardinality({j \in TxIndices : tx_own[j]}) |->
     tx_buf[(card_tx + i - 1) % TX_RING_SIZE]]

Whole(frame, raw) == frame

RxQueue == INSTANCE PacketQueue WITH
             queue <- RxPending, received <- delivered,
             Packet <- 1 .. MaxRx, Delivered <- Whole
TxQueue == INSTANCE PacketQueue WITH
             queue <- TxPending, received <- wire,
             Packet <- Setup .. MaxTx, Delivered <- Whole

(* The receive ring is a FIFO from the card to the stack, although nothing *)
(* but OWN keeps driver and card apart.                                    *)
RxIsQueue == RxQueue!Spec

(* The transmit ring is a FIFO from the stack to the card, the setup frame *)
(* first, also when its wait timed out and the ring moved on without it.   *)
TxIsQueue == TxQueue!Spec

(* The descriptors the driver may touch are the ones between the card's    *)
(* place in the ring and its own; each side waits at one the other owns.   *)
RingsInStep ==
  /\ \A i \in RxIndices :
       rx_own[i] <=> (i - card_rx) % RX_RING_SIZE < Cardinality({j \in RxIndices : rx_own[j]})
  /\ \A i \in TxIndices :
       tx_own[i] <=> (i - card_tx) % TX_RING_SIZE < Cardinality({j \in TxIndices : tx_own[j]})
  /\ (card_rx - rx_next - Cardinality({j \in RxIndices : ~rx_own[j]})) % RX_RING_SIZE = 0

(* What rx_ready and tx_ready promise holds when the token is consumed:    *)
(* NicTulip's expects never fire, nor does the assert on the setup frame.  *)
NoPanic == pc # "panic"

(* A frame that tx_ready made room for is sent, also when the ring is full *)
(* and when the setup frame was late.                                      *)
EveryFrameSent ==
  \A n \in 1 .. MaxTx : posted >= n ~> \E i \in 1 .. Len(wire) : wire[i] = n

(* The line of a routed card never stays high unnoticed: when it is high,  *)
(* an interrupt is latched.  The card's interrupts are enabled only after  *)
(* the pin is routed, and the handler makes the line fall and rise.        *)
NeverDeaf == ~Deaf

(* A frame in the ring is on its way to the task: the task looks for it or *)
(* will be polled, or an interrupt for it is pending or running.  A frame  *)
(* is left lying in two cases only: its interrupt came between the task's  *)
(* very first look and the registration of its waker, or the task went to  *)
(* sleep beside it because the transmit ring was full, and the card raises *)
(* no interrupt when it has sent a frame.                                  *)
FrameNoticed ==
  has_rx_packet => task = "polling" \/ woken \/ cause \/ handler # "idle" \/ missed # {}

(* The tulip's interrupts: the line never goes deaf and no frame is left   *)
(* lying but for the two exceptions.                                       *)
AlertInv == NeverDeaf /\ FrameNoticed

(* A frame the card has put into the ring is handed to the stack, with the *)
(* same two exceptions.                                                    *)
EveryFrameDelivered ==
  \A n \in 1 .. MaxRx :
    arrived >= n ~> Len(delivered) >= n \/ missed # {}

(* The descriptors: OWN, rx_next and tx_next agree with the card's place   *)
(* in both rings, so that no token is consumed in vain.                    *)
DescriptorsInv == TypeOK /\ RingsInStep /\ NoPanic

(* Both rings are FIFOs, with the card running between any two steps of    *)
(* recv_with and transmit_with.                                            *)
RingsAreQueues == RxIsQueue /\ TxIsQueue

(* Frames get through in both directions, but for the named exceptions.    *)
FramesGetThrough == EveryFrameSent /\ EveryFrameDelivered
=============================================================================
