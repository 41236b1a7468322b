----------------------------- MODULE E1000Ring -----------------------------
(***************************************************************************)
(* The e1000: its descriptor rings (embclox-e1000/src/device.rs) as the    *)
(* network task drives them through DynNic and NicE1000, and its probe and *)
(* interrupt handler (embclox-driver/src/drivers/e1000.rs).                *)
(*                                                                         *)
(* Driver and card share each ring without a lock.  The card owns the      *)
(* receive descriptors from RDH up to RDT and the transmit descriptors     *)
(* from TDH up to TDT; it hands a descriptor back by setting DD.  The      *)
(* driver keeps no index of its own: it reads RDT and TDT back from the    *)
(* card.  Frames are numbered; a buffer holds a number, 0 when blank.  The *)
(* card is external, modelled from the registers and bits the code uses.   *)
(***************************************************************************)
EXTENDS PciInterrupt, Integers, Sequences

CONSTANTS RX_RING_SIZE, TX_RING_SIZE,
          MaxRx, MaxTx \* bounds on the frames received and sent

ASSUME SizesAssumption == RX_RING_SIZE \in Nat \ {0, 1} /\ TX_RING_SIZE \in Nat \ {0, 1}
ASSUME BoundsAssumption == MaxRx \in Nat /\ MaxTx \in Nat

VARIABLES
  rx_status, rx_buf, RDH, RDT,   \* receive ring, its buffers and registers
  tx_dd, tx_buf, TDH, TDT,       \* transmit ring, its buffers and registers
  tx_owed,                       \* card: frames sent whose DD is not yet set
  card,                          \* "running", "resetting" or "reset"
  freed,                         \* the DMA memory was given back
  pc,                            \* E1000Driver::probe, then the network task
  arrived, posted,               \* frames the card took in, the stack posted
  delivered, wire                \* history: frames handed to the stack, sent

rxVars == <<rx_status, rx_buf, RDH, RDT, arrived, delivered>>
txVars == <<tx_dd, tx_buf, TDH, TDT, tx_owed, posted, wire>>
ringVars == <<rxVars, txVars, card, freed, pc>>
vars == <<ringVars, irqVars>>
-----------------------------------------------------------------------------
RxIndices == 0 .. RX_RING_SIZE - 1
TxIndices == 0 .. TX_RING_SIZE - 1

(* The status and errors fields of a receive descriptor *)
Cleared == [dd |-> FALSE, eop |-> FALSE, errors |-> FALSE]
Good == [dd |-> TRUE, eop |-> TRUE, errors |-> FALSE]
Written == [dd : {TRUE}, eop : BOOLEAN, errors : BOOLEAN]

(* new and init_rings, which has just started the receiver *)
Init ==
  /\ rx_status = [i \in RxIndices |-> Cleared] /\ rx_buf = [i \in RxIndices |-> 0]
  /\ RDH = 0 /\ RDT = RX_RING_SIZE - 1
  /\ tx_dd = [i \in TxIndices |-> TRUE] /\ tx_buf = [i \in TxIndices |-> 0]
  /\ TDH = 0 /\ TDT = 0 /\ tx_owed = 0
  /\ card = "running" /\ freed = FALSE /\ pc = "ims"
  /\ arrived = 0 /\ posted = 0 /\ delivered = << >> /\ wire = << >>
  /\ IrqInit
-----------------------------------------------------------------------------
(* init_rings enables the card's interrupts ... *)
init_ims ==
  /\ pc = "ims" /\ pc' = "icr" /\ Unmask
  /\ UNCHANGED <<rxVars, txVars, card, freed>>

(* ... and clears the causes by reading ICR; *)
init_icr ==
  /\ pc = "icr" /\ pc' = "route" /\ cause' = FALSE
  /\ UNCHANGED <<rxVars, txVars, card, freed, unmasked, routed, latched, handler, taskVars>>

(* probe, which has published the registers to the handler, routes the pin *)
install_pci_isr ==
  /\ pc = "route" /\ pc' = "enable" /\ Route
  /\ UNCHANGED <<rxVars, txVars, card, freed>>

(* and enables the interrupts once more. *)
enable_interrupts ==
  /\ pc = "enable" /\ handler = "idle" /\ pc' = "idle" /\ Unmask
  /\ UNCHANGED <<rxVars, txVars, card, freed>>

Mutant_e1000_handler ==
  /\ latched /\ handler = "idle"
  /\ latched' = FALSE /\ handler' = "wake"
  /\ UNCHANGED <<ringVars, cause, unmasked, routed, taskVars>>

(* e1000_handler acknowledges by reading ICR and wakes the task. *)
e1000_handler ==
  /\ latched /\ handler = "idle"
  /\ latched' = FALSE /\ cause' = FALSE /\ handler' = "wake"
  /\ UNCHANGED <<ringVars, unmasked, routed, taskVars>>

Handler == e1000_handler \/ (handler_wake /\ UNCHANGED ringVars)
-----------------------------------------------------------------------------
rindex == (RDT + 1) % RX_RING_SIZE
tindex == TDT

has_rx_packet == rx_status[rindex].dd

Mutant_has_tx_space == TRUE

has_tx_space == tx_dd[tindex]

(* The task has the CPU. *)
Runs == handler = "idle" /\ task = "polling"

Unsent == (TDT - TDH) % TX_RING_SIZE

(* DynNic::receive hands out both tokens or none; DynNic::transmit one.    *)
(* When they refuse, they only register the waker.                         *)
receive ==
  /\ Runs /\ pc = "idle" /\ has_rx_packet /\ has_tx_space
  /\ pc' = "rx"
  /\ UNCHANGED <<rxVars, txVars, card, freed, irqVars>>

transmit ==
  /\ Runs /\ pc = "idle" /\ has_tx_space /\ posted < MaxTx
  /\ pc' = "tx"
  /\ UNCHANGED <<rxVars, txVars, card, freed, irqVars>>

(* RxHalf::recv_with up to its callback.  Each None is the panic of the    *)
(* expect in NicE1000.                                                     *)
recv_with ==
  /\ Runs /\ pc = "rx"
  /\ CASE ~(rx_status[rindex].dd /\ rx_status[rindex].eop) ->
            pc' = "panic" /\ UNCHANGED <<rx_status, RDT, delivered>>
       [] rx_status[rindex] = [dd |-> TRUE, eop |-> TRUE, errors |-> TRUE] ->
            /\ rx_status' = [rx_status EXCEPT ![rindex] = Cleared]
            /\ RDT' = rindex
            /\ pc' = "panic_discard" /\ UNCHANGED delivered
       [] OTHER ->
            /\ delivered' = Append(delivered, rx_buf[rindex])
            /\ pc' = "rx_clear" /\ UNCHANGED <<rx_status, RDT>>
  /\ UNCHANGED <<rx_buf, RDH, arrived, txVars, card, freed, irqVars>>

Mutant_recv_clear ==
  /\ Runs /\ pc = "rx_clear"
  /\ RDT' = rindex
  /\ pc' = "rx_return"
  /\ UNCHANGED <<rx_status, rx_buf, RDH, arrived, delivered, txVars, card, freed, irqVars>>

(* ... blanks the buffer, clears the status ... *)
recv_clear ==
  /\ Runs /\ pc = "rx_clear"
  /\ rx_buf' = [rx_buf EXCEPT ![rindex] = 0]
  /\ rx_status' = [rx_status EXCEPT ![rindex] = Cleared]
  /\ pc' = "rx_return"
  /\ UNCHANGED <<RDH, RDT, arrived, delivered, txVars, card, freed, irqVars>>

(* ... and returns the descriptor to the card. *)
recv_return ==
  /\ Runs /\ pc = "rx_return"
  /\ RDT' = rindex
  /\ pc' = "reply"
  /\ UNCHANGED <<rx_status, rx_buf, RDH, arrived, delivered, txVars, card, freed, irqVars>>

Mutant_transmit_with ==
  /\ Runs /\ pc \in {"tx", "reply"} /\ posted < MaxTx
  /\ tx_dd' = [tx_dd EXCEPT ![tindex] = FALSE]
  /\ posted' = posted + 1 /\ pc' = "tx_kick"
  /\ UNCHANGED <<tx_buf, TDH, TDT, tx_owed, wire, rxVars, card, freed, irqVars>>

(* TxHalf::transmit_with fills the buffer and the descriptor ... *)
transmit_with ==
  /\ Runs /\ pc \in {"tx", "reply"} /\ posted < MaxTx
  /\ IF tx_dd[tindex]
       THEN /\ tx_buf' = [tx_buf EXCEPT ![tindex] = posted + 1]
            /\ tx_dd' = [tx_dd EXCEPT ![tindex] = FALSE]
            /\ posted' = posted + 1 /\ pc' = "tx_kick"
       ELSE /\ pc' = "panic"
            /\ UNCHANGED <<tx_buf, tx_dd, posted>>
  /\ UNCHANGED <<TDH, TDT, tx_owed, wire, rxVars, card, freed, irqVars>>

Mutant_transmit_no_kick ==
  /\ Runs /\ pc = "tx_kick" /\ pc' = "idle"
  /\ UNCHANGED <<rxVars, txVars, card, freed, irqVars>>

(* ... and moves the tail past it. *)
transmit_kick ==
  /\ Runs /\ pc = "tx_kick"
  /\ TDT' = (tindex + 1) % TX_RING_SIZE
  /\ pc' = "idle"
  /\ UNCHANGED <<tx_dd, tx_buf, TDH, tx_owed, posted, wire, rxVars, card, freed, irqVars>>

(* The stack has no reply to the frame and drops the token. *)
DropTxToken ==
  /\ Runs /\ pc = "reply" /\ pc' = "idle"
  /\ UNCHANGED <<rxVars, txVars, card, freed, irqVars>>

(* Drop starts a reset, ... *)
drop ==
  /\ Runs /\ pc = "idle"
  /\ card' = "resetting" /\ pc' = "drop_wait"
  /\ UNCHANGED <<rxVars, txVars, freed, irqVars>>

(* ... waits for CTL_RST to clear, or for 100,000 reads of it, and frees.  *)
drop_free ==
  /\ Runs /\ pc = "drop_wait"
  /\ freed' = TRUE /\ pc' = IF card = "resetting" THEN "gave_up" ELSE "dropped"
  /\ UNCHANGED <<rxVars, txVars, card, irqVars>>
-----------------------------------------------------------------------------
(* The card *)

CardReceives ==
  /\ card # "reset" /\ arrived < MaxRx
  /\ RDH # RDT
  /\ \E s \in Written : rx_status' = [rx_status EXCEPT ![RDH] = s]
  /\ rx_buf' = [rx_buf EXCEPT ![RDH] = arrived + 1]
  /\ arrived' = arrived + 1 /\ RDH' = (RDH + 1) % RX_RING_SIZE
  /\ RaiseCause
  /\ UNCHANGED <<RDT, delivered, txVars, card, freed, pc>>

CardTransmits ==
  /\ card # "reset"
  /\ TDH # TDT
  /\ wire' = Append(wire, tx_buf[TDH])
  /\ TDH' = (TDH + 1) % TX_RING_SIZE /\ tx_owed' = tx_owed + 1
  /\ UNCHANGED <<tx_dd, tx_buf, TDT, posted, rxVars, card, freed, pc, irqVars>>

(* TXD_CMD_RS asks for the status to be written back. *)
CardSetsDD ==
  /\ card # "reset"
  /\ tx_owed > 0
  /\ tx_dd' = [tx_dd EXCEPT ![(TDH - tx_owed) % TX_RING_SIZE] = TRUE]
  /\ tx_owed' = tx_owed - 1
  /\ UNCHANGED <<tx_buf, TDH, TDT, posted, wire, rxVars, card, freed, pc, irqVars>>

CardResets ==
  /\ card = "resetting" /\ card' = "reset"
  /\ cause' = FALSE /\ unmasked' = FALSE
  /\ UNCHANGED <<rxVars, txVars, freed, pc, routed, latched, handler, taskVars>>

(* The panic handler and a dropped device stay where they are. *)
Stopped ==
  /\ pc \in {"panic", "panic_discard", "dropped", "gave_up"}
  /\ UNCHANGED vars

Probe == init_ims \/ init_icr \/ install_pci_isr \/ enable_interrupts

(* The executor runs once probe is over. *)
Task ==
  \/ receive \/ transmit \/ recv_with \/ recv_clear \/ recv_return
  \/ transmit_with \/ transmit_kick \/ DropTxToken \/ drop_free
  \/ /\ pc = "idle"
     /\ executor_poll \/ Refuse(has_rx_packet, has_tx_space) \/ register_waker
     /\ UNCHANGED ringVars

Card == CardReceives \/ CardTransmits \/ CardSetsDD \/ CardResets

Next ==
  \/ Probe \/ Handler \/ Task \/ drop \/ Card \/ Stopped
  \/ StackWakes /\ UNCHANGED ringVars

Spec == Init /\ [][Next]_vars

(* The CPU runs, takes a latched interrupt and polls a queued task, and    *)
(* the card sends, writes statuses back and finishes a reset; frames come  *)
(* from the network, and the stack wakes the task and posts frames, when   *)
(* they like.                                                              *)
FairSpec ==
  /\ Spec
  /\ WF_vars(Probe) /\ WF_vars(Handler) /\ WF_vars(Task)
  /\ WF_vars(CardTransmits) /\ WF_vars(CardSetsDD) /\ WF_vars(CardResets)
-----------------------------------------------------------------------------
(* Registers are indices, statuses are statuses, and the task is somewhere *)
TypeOK ==
  /\ rx_status \in [RxIndices -> [dd : BOOLEAN, eop : BOOLEAN, errors : BOOLEAN]]
  /\ rx_buf \in [RxIndices -> 0 .. MaxRx]
  /\ RDH \in RxIndices /\ RDT \in RxIndices
  /\ tx_dd \in [TxIndices -> BOOLEAN] /\ tx_buf \in [TxIndices -> 0 .. MaxTx]
  /\ TDH \in TxIndices /\ TDT \in TxIndices /\ tx_owed \in 0 .. TX_RING_SIZE
  /\ card \in {"running", "resetting", "reset"} /\ freed \in BOOLEAN
  /\ IrqTypeOK
  /\ pc \in {"ims", "icr", "route", "enable", "idle", "rx", "rx_clear", "rx_return", "tx", "reply", "tx_kick",
             "panic", "panic_discard", "drop_wait", "dropped", "gave_up"}
  /\ arrived \in 0 .. MaxRx /\ posted \in 0 .. MaxTx

(* The frames between the driver's end of the receive ring and the card's; *)
(* the one whose callback has run is no longer among them, the one that    *)
(* was discarded before the panic still is.                                *)
RxPending ==
  LET filled == (RDH - rindex) % RX_RING_SIZE
      taken == CASE pc \in {"rx_clear", "rx_return"} -> 1
                 [] pc = "panic_discard" -> -1
                 [] OTHER -> 0
  IN [i \in 1 .. filled - taken |-> rx_buf[(RDT + taken + i) % RX_RING_SIZE]]

(* Every descriptor was handed out before the card had sent one of them:   *)
(* TDT is equal to TDH again, and the card takes the ring for empty.       *)
Overfilled ==
  /\ TDT = TDH /\ tx_owed = 0 /\ pc # "tx_kick"
  /\ \A i \in TxIndices : ~tx_dd[i]

TxPending ==
  [i \in 1 .. (IF Overfilled THEN TX_RING_SIZE ELSE Unsent) |->
     tx_buf[(TDH + i - 1) % TX_RING_SIZE]]

Whole(frame, raw) == frame

RxQueue == INSTANCE PacketQueue WITH
             queue <- RxPending, received <- delivered,
             Packet <- 1 .. MaxRx, Delivered <- Whole
TxQueue == INSTANCE PacketQueue WITH
             queue <- TxPending, received <- wire,
             Packet <- 1 .. MaxTx, Delivered <- Whole

(* The receive ring is a FIFO from the card to the stack: recv_with hands  *)
(* over every frame once, whole and in order, although the card goes on    *)
(* filling descriptors between any two of its steps.                       *)
RxIsQueue == RxQueue!Spec

(* The transmit ring is a FIFO from the stack to the wire. *)
TxIsQueue == TxQueue!Spec

(* The card never finds DD set in a descriptor it may fill, so it never    *)
(* has its result wiped by recv_with; and DD is set in every descriptor    *)
(* that waits for the driver.                                              *)
RxOwnership ==
  \A i \in RxIndices :
    rx_status[i].dd
      <=> /\ (i - rindex) % RX_RING_SIZE < (RDH - rindex) % RX_RING_SIZE
          /\ ~(pc = "rx_return" /\ i = rindex)

Panicked == pc \in {"panic", "panic_discard"}

(* What rx_ready and tx_ready promise holds when the token is consumed:    *)
(* NicE1000's expects fire only on a frame the card reports as bad or as a *)
(* part, which has_rx_packet does not look for.                            *)
PanicsOnBadFrameOnly ==
  [][~Panicked /\ Panicked' =>
       pc = "rx" /\ rx_status[rindex].dd /\ rx_status[rindex] # Good]_vars

(* Drop frees the rings only once the card has stopped using them, or the  *)
(* wait for that was given up.                                             *)
FreedMeansQuiet == freed => card = "reset" \/ pc = "gave_up"

(* A frame that tx_ready made room for is sent, unless the whole ring was  *)
(* handed out at once.                                                     *)
EveryFrameSent ==
  \A n \in 1 .. MaxTx : posted >= n ~> Len(wire) >= n \/ Overfilled \/ card # "running"

(* Once the pin is routed, the line never gets stuck high: when it rises,  *)
(* an interrupt is latched, and e1000_handler makes it fall.  (It may be   *)
(* high already when the pin is routed, because init_rings has enabled the *)
(* interrupts by then: the card is deaf from the start.)                   *)
StaysAlert == [][routed /\ ~Deaf => ~Deaf']_vars

(* A frame the card has put into the ring is handed to the stack.  It is   *)
(* left lying in these cases only: the card was deaf when the pin was      *)
(* routed; its interrupt came between the task's very first look and the   *)
(* registration of its waker; the task went to sleep beside it because the *)
(* transmit ring was full; a bad frame made the kernel panic; the device   *)
(* was dropped.                                                            *)
EveryFrameDelivered ==
  \A n \in 1 .. MaxRx :
    arrived >= n ~> \/ Len(delivered) >= n
                    \/ Deaf \/ missed # {} \/ Panicked \/ card # "running"

(* The descriptors: driver and card agree on who owns each one while the   *)
(* device is up, and neither uses one that drop has freed.                 *)
DescriptorsInv == TypeOK /\ RxOwnership /\ FreedMeansQuiet

(* Both rings are FIFOs, with the other side running between any two steps *)
(* of recv_with and transmit_with.                                         *)
RingsAreQueues == RxIsQueue /\ TxIsQueue

(* Frames get through in both directions, but for the named exceptions.    *)
FramesGetThrough == EveryFrameSent /\ EveryFrameDelivered
=============================================================================
