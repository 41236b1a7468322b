--------------------------- MODULE SintExecutor ---------------------------
(***************************************************************************)
(* From a host signal to a task that runs: the SINT2 handler vmbus_isr     *)
(* (embclox-hyperv/src/isr.rs), the per-channel wakers, the executor loop  *)
(* run_executor (embclox-hal-x86/src/runtime.rs) and DynNic                *)
(* (embclox-driver/src/nic.rs) over NetvscDevice, on one CPU.              *)
(*                                                                         *)
(* Each channel has one network task, named by the channel's relid.  The   *)
(* handler interrupts the executor anywhere interrupts are enabled; the    *)
(* host runs beside both.  A ring holds frames and completions of sent     *)
(* frames; NetvscDataPath has the other packets, and pump_channel step by  *)
(* step.  External: the host, the interrupt controller, embassy's run      *)
(* queue (poll takes the whole queue, then runs it), AtomicWaker (register *)
(* replaces the waker, wake keeps it) and the network stack (a poll asks   *)
(* for frames until there are none, then for tokens to send).              *)
(***************************************************************************)
EXTENDS Integers, Sequences, FiniteSets

CONSTANTS Relids,                 \* open channels
          CHANNEL_WAKER_SLOTS,    \* 64 in the code
          WordBits, Words,        \* 64 and 32 in the code
          Senders,                \* channels whose stack sends frames
          Bursts,                 \* how many frames the host writes before it signals
          MaxBursts,              \* bound on the bursts the host writes
          MaxSends                \* bound on the frames the stacks send

ASSUME RelidsAssumption == Relids \subseteq 0..(WordBits * Words - 1)
ASSUME SizesAssumption ==
  CHANNEL_WAKER_SLOTS \in Nat \ {0} /\ WordBits \in Nat \ {0} /\ Words \in Nat \ {0}
ASSUME SendersAssumption == Senders \subseteq Relids
ASSUME BoundsAssumption ==
  Bursts \subseteq Nat /\ MaxBursts \in Nat /\ MaxSends \in Nat

NoTask == -1

VARIABLES
  written,       \* bursts of frames the host has written
  ring,          \* relid -> packets in the ring, "frame" or "comp"
  posted,        \* channels with a sent frame the host has not completed
  unsignalled,   \* channels written to whose event flag is not yet set
  siefp,         \* channels whose event flag is set
  sint,          \* SINT2 is pending
  isr,           \* vmbus_isr: "none", "read", "clear" or "wake"
  word_idx, w,   \* its locals
  waker,         \* CHANNEL_WAKERS: the registered task
  runq,          \* tasks woken since the last poll took the queue
  batch,         \* tasks the current poll has still to run
  current,       \* the task being polled
  cpu,           \* the executor loop, between two steps
  pending_rx,    \* channels whose single RX slot is occupied
  busy,          \* channels whose send_section_free is false
  sends,         \* frames sent by the stacks
  missed         \* history: channels whose signal woke nobody who has looked since

hostVars == <<written, ring, posted, unsignalled>>
nicVars == <<pending_rx, busy, sends>>
isrVars == <<siefp, sint, isr, word_idx, w>>
taskVars == <<waker, runq, batch, current>>
vars == <<hostVars, isrVars, taskVars, nicVars, cpu, missed>>
-----------------------------------------------------------------------------
Slot(r) == r % CHANNEL_WAKER_SLOTS
Slots == 0..(CHANNEL_WAKER_SLOTS - 1)
WordOf(r) == r \div WordBits

(* The tasks are spawned: queued, with nobody registered yet. *)
Init ==
  /\ written = 0 /\ ring = [r \in Relids |-> << >>] /\ posted = {}
  /\ pending_rx = {} /\ busy = {} /\ sends = 0
  /\ unsignalled = {} /\ siefp = {} /\ sint = FALSE
  /\ isr = "none" /\ word_idx = 0 /\ w = {}
  /\ waker = [s \in Slots |-> NoTask] /\ runq = Relids
  /\ batch = {} /\ current = NoTask /\ cpu = "poll" /\ missed = {}
-----------------------------------------------------------------------------
(* The host writes packets, sets the channel's flag, and raises SINT2 if   *)
(* the flag was clear.                                                     *)
HostWrite(r) ==
  /\ written < MaxBursts /\ written' = written + 1
  /\ \E n \in Bursts :
       ring' = [ring EXCEPT ![r] = @ \o [i \in 1 .. n |-> "frame"]]
  /\ unsignalled' = unsignalled \cup {r}
  /\ UNCHANGED <<posted, isrVars, taskVars, nicVars, cpu, missed>>

HostComplete(r) ==
  /\ r \in posted /\ posted' = posted \ {r}
  /\ ring' = [ring EXCEPT ![r] = Append(@, "comp")]
  /\ unsignalled' = unsignalled \cup {r}
  /\ UNCHANGED <<written, isrVars, taskVars, nicVars, cpu, missed>>

HostSignal(r) ==
  /\ r \in unsignalled
  /\ unsignalled' = unsignalled \ {r}
  /\ siefp' = siefp \cup {r}
  /\ sint' = (sint \/ r \notin siefp)
  /\ UNCHANGED <<written, ring, posted, isr, word_idx, w, taskVars, nicVars, cpu,
                 missed>>
-----------------------------------------------------------------------------
InterruptsEnabled == isr = "none" /\ cpu # "cli"

(* The handler starts; a halted CPU goes on after hlt. *)
Interrupt ==
  /\ sint /\ InterruptsEnabled
  /\ sint' = FALSE /\ isr' = "read" /\ word_idx' = 0
  /\ cpu' = IF cpu = "halted" THEN "poll" ELSE cpu
  /\ UNCHANGED <<hostVars, siefp, w, taskVars, nicVars, missed>>

(* The periodic timer, where all it does is to end a hlt *)
TimerTick ==
  /\ cpu = "halted" /\ InterruptsEnabled
  /\ cpu' = "poll"
  /\ UNCHANGED <<hostVars, isrVars, taskVars, nicVars, missed>>

NextWord ==
  IF word_idx + 1 < Words
    THEN isr' = "read" /\ word_idx' = word_idx + 1
    ELSE isr' = "none" /\ word_idx' = word_idx

isr_read ==
  /\ isr = "read"
  /\ LET word == {r \in siefp : WordOf(r) = word_idx}
     IN IF word = {}
          THEN NextWord /\ UNCHANGED w
          ELSE isr' = "clear" /\ w' = word /\ UNCHANGED word_idx
  /\ UNCHANGED <<hostVars, siefp, sint, taskVars, nicVars, cpu, missed>>

Mutant_isr_no_clear ==
  /\ isr = "clear"
  /\ isr' = "wake"
  /\ UNCHANGED <<hostVars, siefp, sint, word_idx, w, taskVars, nicVars, cpu, missed>>

(* The whole word is overwritten with 0, flags set since the read included *)
isr_clear ==
  /\ isr = "clear"
  /\ siefp' = {r \in siefp : WordOf(r) # word_idx}
  /\ missed' = missed \cup ((siefp \ siefp') \ w)
  /\ isr' = "wake"
  /\ UNCHANGED <<hostVars, sint, word_idx, w, taskVars, nicVars, cpu>>

Mutant_isr_wake ==
  /\ isr = "wake"
  /\ \E bit \in w :
       /\ runq' = runq \cup ({waker[Slot(bit)]} \ {NoTask})
       /\ w' = {}
       /\ NextWord
  /\ UNCHANGED <<hostVars, siefp, sint, waker, batch, current, nicVars, cpu, missed>>

(* The bits of w, one by one; the order (lowest first) makes no difference *)
isr_wake ==
  /\ isr = "wake"
  /\ \E bit \in w :
       /\ runq' = runq \cup ({waker[Slot(bit)]} \ {NoTask})
       /\ missed' = IF waker[Slot(bit)] = bit THEN missed ELSE missed \cup {bit}
       /\ w' = w \ {bit}
       /\ IF w' = {} THEN NextWord ELSE UNCHANGED <<isr, word_idx>>
  /\ UNCHANGED <<hostVars, siefp, sint, waker, batch, current, nicVars, cpu>>

Isr == isr_read \/ isr_clear \/ isr_wake
-----------------------------------------------------------------------------
(* The executor loop, while no handler runs *)
executor_poll ==
  /\ isr = "none" /\ cpu = "poll"
  /\ batch' = runq /\ runq' = {}
  /\ cpu' = "run"
  /\ UNCHANGED <<hostVars, isrVars, waker, current, nicVars, missed>>

RunTask ==
  /\ isr = "none" /\ cpu = "run"
  /\ IF batch = {}
       THEN cpu' = "polled" /\ UNCHANGED <<batch, current>>
       ELSE \E r \in batch : batch' = batch \ {r} /\ current' = r /\ cpu' = "rx_ready"
  /\ UNCHANGED <<hostVars, isrVars, waker, runq, nicVars, missed>>

(* Reading q, pump_channel returns at the first frame that finds           *)
(* pending_rx occupied; that frame is off the ring, and dropped.           *)
ReturnsAt(q, occupied) ==
  {k \in 1 .. Len(q) :
     q[k] = "frame" /\ (occupied \/ \E j \in 1 .. k - 1 : q[j] = "frame")}

(* pump_channel takes n packets off the ring: up to that frame, or all.    *)
(* The first frame goes to pending_rx, a completion frees the section: the *)
(* outcome is what the readiness predicate that called it then looks at.   *)
pump_channel(occupied, free) ==
  LET q == ring[current]
      last == ReturnsAt(q, current \in pending_rx)
  IN
  \E n \in 0 .. Len(q) :
    /\ IF last = {} THEN n = Len(q) ELSE n \in last /\ \A k \in last : n <= k
    /\ ring' = [ring EXCEPT ![current] = SubSeq(q, n + 1, Len(q))]
    /\ occupied = (current \in pending_rx \/ \E k \in 1 .. n : q[k] = "frame")
    /\ free = (current \notin busy \/ \E k \in 1 .. n : q[k] = "comp")
    /\ missed' = missed \ {current}

SetNic(occupied, free) ==
  /\ pending_rx' = IF occupied THEN pending_rx \cup {current} ELSE pending_rx \ {current}
  /\ busy' = IF free THEN busy \ {current} ELSE busy \cup {current}

(* DynNic::receive asks rx_ready, then tx_ready; each runs pump_channel. *)
rx_ready ==
  /\ isr = "none" /\ cpu = "rx_ready"
  /\ \E occupied, free \in BOOLEAN :
       /\ pump_channel(occupied, free) /\ SetNic(occupied, free)
       /\ cpu' = IF occupied THEN "tx_ready" ELSE "register"
  /\ UNCHANGED <<written, posted, unsignalled, isrVars, taskVars, sends>>

(* A token to send: the stack posts a frame, or drops the token. *)
Posts == /\ current \in Senders /\ sends < MaxSends /\ sends' = sends + 1
         /\ posted' = posted \cup {current}

DropsToken == UNCHANGED <<sends, posted>>

(* With both ready, the frame in pending_rx is handed to the stack, and a  *)
(* token to answer it with; the stack then asks for the next frame.        *)
tx_ready ==
  /\ isr = "none" /\ cpu = "tx_ready"
  /\ \E free \in BOOLEAN :
       /\ pump_channel(TRUE, free)
       /\ \/ ~free /\ SetNic(TRUE, FALSE) /\ cpu' = "register" /\ DropsToken
          \/ free /\ SetNic(FALSE, TRUE) /\ cpu' = "rx_ready" /\ DropsToken
          \/ free /\ SetNic(FALSE, FALSE) /\ cpu' = "rx_ready" /\ Posts
  /\ UNCHANGED <<written, unsignalled, isrVars, taskVars>>

(* Nothing for receive: the waker is registered after the look *)
register_waker ==
  /\ isr = "none" /\ cpu = "register"
  /\ waker' = [waker EXCEPT ![Slot(current)] = current]
  /\ cpu' = "egress"
  /\ UNCHANGED <<hostVars, isrVars, runq, batch, current, nicVars, missed>>

(* DynNic::transmit, when the stack has a frame to send.  It registers the *)
(* waker once more, which is in its slot already, if it finds no section.  *)
transmit ==
  /\ isr = "none" /\ cpu = "egress" /\ current \in Senders /\ sends < MaxSends
  /\ \E occupied, free \in BOOLEAN :
       /\ pump_channel(occupied, free)
       /\ \/ SetNic(occupied, free) /\ DropsToken
          \/ free /\ SetNic(occupied, FALSE) /\ Posts
  /\ cpu' = "run" /\ current' = NoTask
  /\ UNCHANGED <<written, unsignalled, isrVars, waker, runq, batch>>

(* ... or has none, and its poll is over *)
TaskPending ==
  /\ isr = "none" /\ cpu = "egress"
  /\ current' = NoTask /\ cpu' = "run"
  /\ UNCHANGED <<hostVars, isrVars, waker, runq, batch, nicVars, missed>>

disable ==
  /\ isr = "none" /\ cpu = "polled"
  /\ cpu' = "cli"
  /\ UNCHANGED <<hostVars, isrVars, taskVars, nicVars, missed>>

enable_and_hlt ==
  /\ isr = "none" /\ cpu = "cli"
  /\ cpu' = "halted"
  /\ UNCHANGED <<hostVars, isrVars, taskVars, nicVars, missed>>

Task == rx_ready \/ tx_ready \/ register_waker \/ transmit \/ TaskPending

Executor == executor_poll \/ RunTask \/ Task \/ disable \/ enable_and_hlt

Next ==
  \/ \E r \in Relids : HostWrite(r) \/ HostComplete(r) \/ HostSignal(r)
  \/ Interrupt \/ TimerTick \/ Isr \/ Executor

Spec == Init /\ [][Next]_vars

(* Code runs on when nothing stops it; the timer is periodic; a pending    *)
(* interrupt is taken as soon as interrupts are enabled, even if they are  *)
(* enabled only for a moment; the host signals what it has written.        *)
FairSpec ==
  /\ Spec
  /\ WF_vars(Executor) /\ WF_vars(Isr) /\ WF_vars(TimerTick) /\ SF_vars(Interrupt)
  /\ \A r \in Relids : WF_vars(HostSignal(r))
-----------------------------------------------------------------------------
(* The executor inside a task's poll *)
InPoll == {"rx_ready", "tx_ready", "register", "egress"}

(* Types of the flags, the handler's locals and the executor's queues; the *)
(* handler never reads past the last word of the SIEFP slot.               *)
TypeOK ==
  /\ written \in 0..MaxBursts /\ ring \in [Relids -> Seq({"frame", "comp"})]
  /\ posted \subseteq Relids /\ unsignalled \subseteq Relids
  /\ siefp \subseteq Relids /\ sint \in BOOLEAN
  /\ isr \in {"none", "read", "clear", "wake"}
  /\ word_idx \in 0..(Words - 1) /\ w \subseteq Relids
  /\ waker \in [Slots -> Relids \cup {NoTask}]
  /\ runq \subseteq Relids /\ batch \subseteq Relids
  /\ current \in Relids \cup {NoTask}
  /\ cpu \in InPoll \cup {"poll", "run", "polled", "cli", "halted"}
  /\ cpu \in InPoll <=> current # NoTask
  /\ pending_rx \subseteq Relids /\ busy \subseteq Relids /\ sends \in 0..MaxSends
  /\ missed \subseteq Relids

(* The task of a channel is about to ask for a frame, or a wake-up for it  *)
(* is on its way.                                                          *)
WillLook(r) ==
  \/ r \in runq \cup batch
  \/ current = r /\ cpu = "rx_ready"
  \/ r \in unsignalled \cup siefp \cup w

(* While packets are in a channel's ring, its task is going to ask for     *)
(* them, but for three reasons.  Two are lost wake-ups: the flag was set   *)
(* between the handler's read and its clear of the word, or the slot held  *)
(* no waker or another channel's when the handler came to it.  The third   *)
(* is a task that looked and left them: pump_channel returned because      *)
(* pending_rx is occupied, by a frame that receive did not hand out since  *)
(* tx_ready was false, or that the pump_channel of transmit put there.     *)
(* That DynNic registers after it has looked is no fourth, because         *)
(* AtomicWaker::wake keeps the waker for the next signal.                  *)
NoLostWake ==
  \A r \in Relids : ring[r] # << >> => WillLook(r) \/ r \in missed \/ r \in pending_rx

(* A flag the host set is noticed: either SINT2 is pending or the handler  *)
(* has still to reach the flag's word.                                     *)
FlagNoticed ==
  \A r \in siefp :
    \/ sint
    \/ isr \in {"read", "clear"} /\ word_idx <= WordOf(r)
    \/ isr = "wake" /\ word_idx < WordOf(r)

(* The task sleeps on packets it has left behind the frame in pending_rx. *)
Stalled(r) == r \in pending_rx /\ current # r /\ ~WillLook(r)

(* What the host sends is taken off the ring, unless its signal was missed *)
(* or the task fell asleep behind an occupied pending_rx.                  *)
PacketsReceived ==
  \A r \in Relids : ring[r] # << >> ~> (ring[r] = << >> \/ r \in missed \/ Stalled(r))
=============================================================================
