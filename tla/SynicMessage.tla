---------------------------- MODULE SynicMessage ----------------------------
(***************************************************************************)
(* The VMBus message slot of the SynIC message page (SIMP) and the future  *)
(* that reads it: SynIC::poll_message, SynIC::ack_message and              *)
(* WaitForMatch::poll of embclox-hyperv/src/synic.rs, driven by            *)
(* block_on_hlt.                                                           *)
(*                                                                         *)
(* The hypervisor is external.  It queues messages, copies the oldest into *)
(* the slot when the slot is empty, sets MessagePending in a slot behind   *)
(* which messages wait, and looks at its queue again when the guest writes *)
(* the EOM register.  A message is its number.                             *)
(***************************************************************************)
EXTENDS Integers, Sequences

CONSTANTS MaxMessages,    \* bound on the messages the host sends
          Window          \* messages the host sends before it waits for the guest

ASSUME MaxMessagesAssumption == MaxMessages \in Nat
ASSUME WindowAssumption == Window \in Nat \ {0}

VARIABLES
  host_queue,             \* messages the hypervisor holds, oldest first
  message_type,           \* HvMessage.message_type: 0 is an empty slot
  payload,                \* HvMessage.payload, stale once the slot is freed
  message_flags,          \* HvMessage.message_flags bit 0, MessagePending
  pc,                     \* the future, between two accesses to the slot
  flags,                  \* local of ack_message
  result,                 \* local of poll: whether the matcher returned Some
  sent,                   \* number of messages sent so far
  matched                 \* history: messages the matcher was given, in order

slotVars == <<message_type, payload, message_flags>>
vars == <<host_queue, slotVars, pc, flags, result, sent, matched>>

Message == 1..MaxMessages

Init ==
  /\ host_queue = << >>
  /\ message_type = 0 /\ payload = 0 /\ message_flags = FALSE
  /\ pc = "poll" /\ flags = FALSE /\ result = FALSE
  /\ sent = 0 /\ matched = << >>
-----------------------------------------------------------------------------
(* The hypervisor copies the oldest message of q into the slot if it can,  *)
(* and flags the slot if others have to wait.                              *)
Deliver(q) ==
  IF q # << >> /\ message_type = 0
    THEN /\ message_type' = 1 /\ payload' = Head(q)
         /\ message_flags' = (Tail(q) # << >>)
         /\ host_queue' = Tail(q)
    ELSE /\ message_flags' = (message_flags \/ q # << >>)
         /\ host_queue' = q
         /\ UNCHANGED <<message_type, payload>>

Outstanding == Len(host_queue) + message_type

HostPost ==
  /\ sent < MaxMessages /\ Outstanding < Window
  /\ sent' = sent + 1
  /\ Deliver(Append(host_queue, sent + 1))
  /\ UNCHANGED <<pc, flags, result, matched>>
-----------------------------------------------------------------------------
(* WaitForMatch::poll.  poll_message looks at message_type.                *)
poll_message ==
  /\ pc = "poll"
  /\ pc' = IF message_type = 0 THEN "register" ELSE "match"
  /\ UNCHANGED <<host_queue, slotVars, flags, result, sent, matched>>

(* The caller's matcher reads the payload in place; what it recognises     *)
(* depends on the caller.                                                  *)
matcher ==
  /\ pc = "match"
  /\ matched' = Append(matched, payload)
  /\ result' \in BOOLEAN
  /\ pc' = "flags"
  /\ UNCHANGED <<host_queue, slotVars, flags, sent>>

Mutant_ack_read_flags ==
  /\ pc = "flags"
  /\ flags' = message_flags
  /\ message_type' = 0
  /\ pc' = IF flags' THEN "eom" ELSE "match"
  /\ UNCHANGED <<host_queue, payload, message_flags, result, sent, matched>>

(* ack_message reads the flags, frees the slot, and writes EOM if the      *)
(* flags it read say that a message waits.                                 *)
ack_read_flags ==
  /\ pc = "flags"
  /\ flags' = message_flags
  /\ pc' = "clear"
  /\ UNCHANGED <<host_queue, slotVars, result, sent, matched>>

AfterAck == IF result THEN "ready" ELSE "poll"

Mutant_ack_no_eom ==
  /\ pc = "clear"
  /\ message_type' = 0
  /\ pc' = AfterAck
  /\ UNCHANGED <<host_queue, payload, message_flags, flags, result, sent, matched>>

Mutant_ack_clear ==
  /\ pc = "clear"
  /\ pc' = IF flags THEN "eom" ELSE AfterAck
  /\ UNCHANGED <<host_queue, slotVars, flags, result, sent, matched>>

ack_clear ==
  /\ pc = "clear"
  /\ message_type' = 0
  /\ pc' = IF flags THEN "eom" ELSE AfterAck
  /\ UNCHANGED <<host_queue, payload, message_flags, flags, result, sent, matched>>

ack_eom ==
  /\ pc = "eom"
  /\ Deliver(host_queue)
  /\ pc' = AfterAck
  /\ UNCHANGED <<flags, result, sent, matched>>

(* The slot was empty: register on SIMP_WAKER, look again, then at the     *)
(* deadline.  Err(Timeout) and Ok both end the future; its caller waits    *)
(* again with its next request.                                            *)
register_and_repoll ==
  /\ pc = "register"
  /\ pc' \in (IF message_type # 0 THEN {"poll"} ELSE {"ready", "parked"})
  /\ UNCHANGED <<host_queue, slotVars, flags, result, sent, matched>>

(* Halts with interrupts disabled *)
Mutant_park ==
  /\ pc = "parked"
  /\ pc' = "parked"
  /\ UNCHANGED <<host_queue, slotVars, flags, result, sent, matched>>

(* block_on_hlt halts and polls again on the next interrupt; the periodic  *)
(* timer is one.                                                           *)
park ==
  /\ pc = "parked"
  /\ pc' = "poll"
  /\ UNCHANGED <<host_queue, slotVars, flags, result, sent, matched>>

wait_for_match ==
  /\ pc = "ready"
  /\ pc' = "poll"
  /\ UNCHANGED <<host_queue, slotVars, flags, result, sent, matched>>

Guest ==
  \/ poll_message \/ matcher \/ ack_read_flags \/ ack_clear \/ ack_eom
  \/ register_and_repoll \/ park \/ wait_for_match

Next == HostPost \/ Guest

Spec == Init /\ [][Next]_vars

(* The guest's loop runs as long as timer interrupts arrive, and its       *)
(* callers keep waiting for their next answer.                             *)
FairSpec == Spec /\ WF_vars(Guest)
-----------------------------------------------------------------------------
(* Types of the slot, of the locals of the future and of the history: what *)
(* the matcher is given is always a message, never an empty slot.           *)
TypeOK ==
  /\ host_queue \in Seq(Message)
  /\ message_type \in {0, 1}
  /\ payload \in Message \cup {0}
  /\ message_flags \in BOOLEAN /\ flags \in BOOLEAN /\ result \in BOOLEAN
  /\ pc \in {"poll", "match", "flags", "clear", "eom", "register", "parked", "ready"}
  /\ sent \in 0..MaxMessages
  /\ matched \in Seq(Message)

(* Whether the message in the slot was already given to the matcher        *)
SlotMatched == pc \in {"flags", "clear"}

(* Messages the host sent and the matcher has not seen *)
Unseen ==
  (IF message_type = 1 /\ ~SlotMatched THEN <<payload>> ELSE << >>) \o host_queue

(* wait_for_match: "Every message visible in the SIMP slot is passed to    *)
(* matcher exactly once": what the matcher saw, followed by what it has    *)
(* still to see, is every message sent, in the order sent.  In particular  *)
(* the payload the matcher reads is never overwritten by a later one.      *)
ExactlyOnce == matched \o Unseen = [i \in 1..sent |-> i]

(* The inductive invariant behind ExactlyOnce: between poll and clear the  *)
(* slot is occupied by the guest, and at EOM the slot is the host's.       *)
SlotInv ==
  /\ TypeOK
  /\ pc \in {"match", "flags", "clear"} => message_type = 1
  /\ ExactlyOnce

Q == INSTANCE PacketQueue WITH
       Packet <- Message, Delivered <- LAMBDA m, raw : m,
       queue <- Unseen, received <- matched

(* The slot, the flag and EOM together are a FIFO from the host to the     *)
(* matcher.                                                                *)
ImplementsQueue == Q!Spec

(* A message waits behind an empty slot, and no EOM is going to fetch it:  *)
(* it stays there until the host sends another one.                        *)
Stalled == host_queue # << >> /\ message_type = 0 /\ pc # "eom"

(* ack_message stalls the queue in one case only: the host queued a        *)
(* message, and set MessagePending, after the flags were read and before   *)
(* the slot was freed.                                                     *)
StallsOnLateFlag == [][~Stalled /\ Stalled' => pc = "clear" /\ message_flags /\ ~flags]_vars

(* Whatever the host queues is given to the matcher, unless it stalls.     *)
Drained == \A m \in Message : sent >= m ~> Len(matched) >= m \/ Stalled
=============================================================================
