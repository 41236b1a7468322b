---------------------------- MODULE PciInterrupt ----------------------------
(***************************************************************************)
(* From a PCI card's interrupt line to the network task it wakes: what     *)
(* E1000Ring and TulipRing share.  Each of them adds its card, its probe   *)
(* and its handler.                                                        *)
(*                                                                         *)
(* A card asserts its line while a cause is pending and not masked.        *)
(* IoApic::enable_irq programs the pin edge-triggered: the pin forwards a  *)
(* line that rises, ignores one that is high already, and ignores          *)
(* everything while it is masked.  So a line that stays high is deaf.      *)
(*                                                                         *)
(* The kernel runs the card's interrupts and the network task on one CPU:  *)
(* a handler runs to its end before the task goes on.                      *)
(***************************************************************************)

VARIABLES
  cause,        \* ICR or CSR5: a receive interrupt is pending
  unmasked,     \* IMS or CSR7
  routed,       \* the IOAPIC pin is routed to the handler's vector
  latched,      \* the local APIC holds the interrupt for delivery
  handler,      \* the handler's next step
  task,         \* "asleep", "polling" or "refused": looked, not yet registered
  woken,        \* the task is in the executor's queue
  registered,   \* NET_WAKER or TULIP_WAKER holds the task's waker
  missed        \* history: why the task may be asleep beside a frame

lineVars == <<cause, unmasked, routed, latched>>
taskVars == <<task, woken, registered, missed>>
irqVars == <<lineVars, handler, taskVars>>
-----------------------------------------------------------------------------
Line == cause /\ unmasked

(* How every step that may move the line moves the latch *)
Latch == latched' = (latched \/ (routed /\ ~Line /\ Line'))

(* All is off, and the task, not yet spawned, will be polled once it is.   *)
IrqInit ==
  /\ cause = FALSE /\ unmasked = FALSE /\ routed = FALSE /\ latched = FALSE
  /\ handler = "idle"
  /\ task = "asleep" /\ woken = TRUE /\ registered = FALSE /\ missed = {}

(* ProbeCtx::install_pci_isr *)
Route ==
  /\ routed' = TRUE
  /\ UNCHANGED <<cause, unmasked, latched, handler, taskVars>>

(* enable_interrupts of either card *)
Unmask ==
  /\ unmasked' = TRUE
  /\ UNCHANGED <<cause, routed, handler, taskVars>>
  /\ Latch

(* The card has a frame for the driver. *)
RaiseCause ==
  /\ cause' = TRUE
  /\ UNCHANGED <<unmasked, routed, handler, taskVars>>
  /\ Latch

(* Both handlers end by waking the task, if its waker is registered.       *)
handler_wake ==
  /\ handler = "wake" /\ handler' = "idle"
  /\ woken' = (woken \/ registered)
  /\ missed' = missed \cup IF ~registered /\ task = "refused" THEN {"unregistered"} ELSE {}
  /\ UNCHANGED <<lineVars, task, registered>>
-----------------------------------------------------------------------------
(* The executor polls a queued task. *)
executor_poll ==
  /\ handler = "idle" /\ task = "asleep" /\ woken
  /\ woken' = FALSE /\ task' = "polling" /\ missed' = {}
  /\ UNCHANGED <<lineVars, handler, registered>>

(* The stack's timer, or a socket that is written to, wakes the task. *)
StackWakes ==
  /\ handler = "idle" /\ ~woken /\ woken' = TRUE
  /\ UNCHANGED <<lineVars, handler, task, registered, missed>>

(* DynNic::receive has no frame or no room for a reply, ... *)
Refuse(rx_ready, tx_ready) ==
  /\ handler = "idle" /\ task = "polling"
  /\ ~(rx_ready /\ tx_ready)
  /\ task' = "refused"
  /\ missed' = IF rx_ready THEN {"tx_full"} ELSE {}
  /\ UNCHANGED <<lineVars, handler, woken, registered>>

(* ... registers the waker, and the poll is over. *)
register_waker ==
  /\ handler = "idle" /\ task = "refused"
  /\ task' = "asleep" /\ registered' = TRUE
  /\ UNCHANGED <<lineVars, handler, woken, missed>>
-----------------------------------------------------------------------------
IrqTypeOK ==
  /\ cause \in BOOLEAN /\ unmasked \in BOOLEAN /\ routed \in BOOLEAN /\ latched \in BOOLEAN
  /\ handler \in {"idle", "read", "ack", "unmask", "wake"}
  /\ task \in {"asleep", "polling", "refused"}
  /\ woken \in BOOLEAN /\ registered \in BOOLEAN
  /\ missed \subseteq {"unregistered", "tx_full"}

(* The line is high and the pin has already had its edge: no later frame   *)
(* can raise the line again, and the card never interrupts any more.       *)
Deaf == routed /\ Line /\ ~latched
=============================================================================
