------------------------- MODULE SynicMessage_proof -------------------------
(***************************************************************************)
(* For any number of messages and any window: the message slot hands every *)
(* message to the matcher exactly once and in order, it is a FIFO, and     *)
(* ack_message stalls it in one case only.                                 *)
(*                                                                         *)
(* Every step does one of three things to what the matcher saw and to what *)
(* it has still to see: it posts a message, matches one, or leaves both    *)
(* alone.  The proofs go through that (PostEffect, MatchEffect,            *)
(* OtherEffect).                                                           *)
(***************************************************************************)
EXTENDS SynicMessage, SequenceTheorems, TLAPS

(* A sequence that is not empty is its head before its tail. *)
LEMMA HeadBeforeTail ==
  ASSUME NEW S, NEW s \in Seq(S), s # << >>
  PROVE  <<Head(s)>> \o Tail(s) = s
<1>1. Len(s) \in Nat \ {0} /\ Head(s) = s[1]
  BY EmptySeq
<1>2. SubSeq(s, 1, Len(s)) = <<s[1]>> \o SubSeq(s, 2, Len(s))
  BY <1>1, SubSeqRecursiveFirst
<1>3. SubSeq(s, 1, Len(s)) = s /\ Tail(s) = SubSeq(s, 2, Len(s))
  BY SubSeqFull, TailIsSubSeq
<1> QED BY <1>1, <1>2, <1>3

(* An element put before a sequence is its head. *)
LEMMA HeadTailOfCons ==
  ASSUME NEW S, NEW s \in Seq(S), NEW x \in S
  PROVE  <<x>> \o s # << >> /\ Head(<<x>> \o s) = x /\ Tail(<<x>> \o s) = s
<1> DEFINE t == <<x>> \o s
<1>1. /\ t \in Seq(S) /\ Len(t) = 1 + Len(s) /\ t[1] = x
      /\ \A i \in 2 .. Len(s) + 1 : t[i] = s[i - 1]
  BY ConcatProperties
<1> HIDE DEF t
<1>2. t # << >> /\ Head(t) = x
  BY <1>1
<1>3. /\ Tail(t) \in Seq(S) /\ Len(Tail(t)) = Len(s)
      /\ \A i \in 1 .. Len(s) : Tail(t)[i] = t[i + 1]
  BY <1>1, <1>2, HeadTailProperties
<1>4. \A i \in 1 .. Len(s) : Tail(t)[i] = s[i]
  BY <1>1, <1>3
<1>5. Tail(t) = s
  BY <1>3, <1>4, SeqEqual
<1> QED BY <1>2, <1>5 DEF t

(* Where the second of two sequences begins *)
LEMMA FirstOfSecond ==
  ASSUME NEW S, NEW a \in Seq(S), NEW b \in Seq(S), Len(b) \in Nat \ {0}
  PROVE  Len(a) + 1 \in 1 .. Len(a \o b) /\ (a \o b)[Len(a) + 1] = b[1]
OBVIOUS

(* What is appended to the second part is appended to the whole. *)
LEMMA AppendToSecond ==
  ASSUME NEW S, NEW a \in Seq(S), NEW b \in Seq(S), NEW x \in S
  PROVE  a \o Append(b, x) = Append(a \o b, x)
<1>1. <<x>> \in Seq(S) /\ a \o b \in Seq(S)
  BY ConcatProperties
<1>2. Append(b, x) = b \o <<x>> /\ Append(a \o b, x) = (a \o b) \o <<x>>
  BY <1>1, AppendIsConcat
<1> QED BY <1>1, <1>2, ConcatAssociative

(* The head of the second part may go to the end of the first. *)
LEMMA MoveHead ==
  ASSUME NEW S, NEW a \in Seq(S), NEW b \in Seq(S), NEW x \in S
  PROVE  Append(a, x) \o b = a \o (<<x>> \o b)
<1>1. <<x>> \in Seq(S) /\ Append(a, x) = a \o <<x>>
  BY AppendIsConcat
<1> QED BY <1>1, ConcatAssociative

(* The messages 1 .. n in the order sent, and one more *)
LEMMA OneMoreSent ==
  ASSUME NEW n \in Nat
  PROVE  Append([i \in 1 .. n |-> i], n + 1) = [i \in 1 .. n + 1 |-> i]
<1> DEFINE s == [i \in 1 .. n |-> i]
           t == [i \in 1 .. n + 1 |-> i]
<1>1. s \in Seq(Nat) /\ t \in Seq(Nat) /\ Len(s) = n /\ Len(t) = n + 1
  OBVIOUS
<1>2. /\ Append(s, n + 1) \in Seq(Nat) /\ Len(Append(s, n + 1)) = n + 1
      /\ \A i \in 1 .. n : Append(s, n + 1)[i] = s[i]
      /\ Append(s, n + 1)[n + 1] = n + 1
  <2> HIDE DEF s
  <2> QED BY <1>1, AppendProperties
<1>3. ASSUME NEW i \in 1 .. n + 1 PROVE Append(s, n + 1)[i] = t[i]
  <2>1. CASE i = n + 1
    BY <1>2, <2>1
  <2>2. CASE i \in 1 .. n
    BY <1>2, <2>2
  <2> QED BY <2>1, <2>2
<1>4. Append(s, n + 1) = t
  <2> HIDE DEF s, t
  <2> QED BY <1>1, <1>2, <1>3, SeqEqual
<1> QED BY <1>4
-----------------------------------------------------------------------------
(* What the hypervisor does with its queue, on EOM or after a post: the    *)
(* slot and the queue together are what the queue was to become.           *)
LEMMA DeliverEffect ==
  ASSUME NEW q \in Seq(Message), Deliver(q),
         message_type \in {0, 1}, payload \in Message \cup {0},
         message_flags \in BOOLEAN
  PROVE  /\ host_queue' \in Seq(Message) /\ message_type' \in {0, 1}
         /\ payload' \in Message \cup {0} /\ message_flags' \in BOOLEAN
         /\ message_type = 1 =>
              message_type' = 1 /\ payload' = payload /\ host_queue' = q
         /\ message_type = 0 =>
              IF message_type' = 1 THEN <<payload'>> \o host_queue' = q
                                   ELSE host_queue' = q
<1>1. CASE q # << >> /\ message_type = 0
  <2>1. Head(q) \in Message /\ Tail(q) \in Seq(Message)
    BY <1>1, HeadTailProperties
  <2>2. <<Head(q)>> \o Tail(q) = q
    BY <1>1, HeadBeforeTail
  <2>3. message_type' = 1 /\ payload' = Head(q) /\ host_queue' = Tail(q)
        /\ message_flags' \in BOOLEAN
    BY <1>1 DEF Deliver
  <2> QED BY <1>1, <2>1, <2>2, <2>3
<1>2. CASE ~(q # << >> /\ message_type = 0)
  <2>1. /\ host_queue' = q /\ message_type' = message_type /\ payload' = payload
        /\ message_flags' = (message_flags \/ q # << >>)
    BY <1>2 DEF Deliver
  <2>2. message_flags' \in BOOLEAN
    BY <2>1, Zenon
  <2> QED BY <2>1, <2>2
<1> QED BY <1>1, <1>2

(* The slot's payload is a message as long as the matcher has not had it,  *)
(* because it has a place among the messages sent.                         *)
LEMMA PayloadIsMessage ==
  ASSUME SlotInv, message_type = 1, ~SlotMatched
  PROVE  payload \in Message
<1> DEFINE M == Message \cup {0}
           k == Len(matched) + 1
           rest == <<payload>> \o host_queue
<1>1. matched \in Seq(M) /\ host_queue \in Seq(M) /\ <<payload>> \in Seq(M)
  <2>1. matched \in Seq(Message) /\ host_queue \in Seq(Message) /\ payload \in M
    BY DEF SlotInv, TypeOK
  <2> QED BY <2>1, SeqMonotonic
<1>2. rest \in Seq(M) /\ Len(rest) = 1 + Len(host_queue) /\ rest[1] = payload
  BY <1>1, ConcatProperties
<1>3. Len(rest) \in Nat \ {0}
  BY <1>1, <1>2
<1>4. k \in 1 .. Len(matched \o rest) /\ (matched \o rest)[k] = rest[1]
  <2> HIDE DEF rest, M
  <2>1. matched \in Seq(M) /\ rest \in Seq(M) /\ Len(rest) \in Nat \ {0}
    BY <1>1, <1>2, <1>3
  <2> QED BY ONLY <2>1, FirstOfSecond DEF k
<1>5. sent \in Nat /\ sent <= MaxMessages
  BY MaxMessagesAssumption DEF SlotInv, TypeOK
<1>6. matched \o rest = [i \in 1 .. sent |-> i]
  BY Zenon DEF SlotInv, ExactlyOnce, Unseen
<1>7. Len([i \in 1 .. sent |-> i]) = sent
  BY <1>5
<1>8. k \in 1 .. sent
  BY <1>4, <1>6, <1>7, Zenon
<1>9. payload = k
  BY <1>2, <1>4, <1>6, <1>8, Zenon
<1> HIDE DEF k
<1>10. k \in 1 .. MaxMessages
  BY <1>5, <1>8, MaxMessagesAssumption
<1> QED BY <1>9, <1>10 DEF Message

(* What the matcher has still to see is a sequence of messages. *)
LEMMA UnseenType ==
  ASSUME SlotInv
  PROVE  Unseen \in Seq(Message)
<1>1. host_queue \in Seq(Message)
  BY DEF SlotInv, TypeOK
<1>2. CASE message_type = 1 /\ ~SlotMatched
  <2>1. <<payload>> \in Seq(Message)
    BY <1>2, PayloadIsMessage
  <2>2. Unseen = <<payload>> \o host_queue
    BY <1>2 DEF Unseen
  <2> QED BY <1>1, <2>1, <2>2, ConcatProperties
<1>3. CASE ~(message_type = 1 /\ ~SlotMatched)
  <2>1. Unseen = << >> \o host_queue
    BY <1>3, Zenon DEF Unseen
  <2> QED BY <1>1, <2>1, ConcatEmptySeq
<1> QED BY <1>2, <1>3

(* How Unseen reads in the three situations of the slot *)
LEMMA UnseenCases ==
  ASSUME host_queue \in Seq(Message)
  PROVE  /\ message_type = 1 /\ ~SlotMatched => Unseen = <<payload>> \o host_queue
         /\ message_type = 0 \/ SlotMatched => Unseen = host_queue
BY ConcatEmptySeq DEF Unseen

(* ... and after a step *)
LEMMA UnseenCasesNext ==
  ASSUME host_queue' \in Seq(Message)
  PROVE  /\ message_type' = 1 /\ ~SlotMatched' => Unseen' = <<payload'>> \o host_queue'
         /\ message_type' = 0 \/ SlotMatched' => Unseen' = host_queue'
<1>1. << >> \o host_queue' = host_queue'
  BY ConcatEmptySeq
<1>2. CASE message_type' = 1 /\ ~SlotMatched'
  BY <1>2 DEF Unseen
<1>3. CASE ~(message_type' = 1 /\ ~SlotMatched')
  <2>1. Unseen' = << >> \o host_queue'
    BY <1>3 DEF Unseen
  <2> QED BY <1>1, <1>3, <2>1
<1> QED BY <1>2, <1>3
-----------------------------------------------------------------------------
(* A post puts the next number at the end of what is unseen. *)
LEMMA PostEffect ==
  ASSUME SlotInv, HostPost
  PROVE  /\ sent + 1 \in Message
         /\ Unseen' = Append(Unseen, sent + 1)
         /\ matched' = matched /\ sent' = sent + 1
<1> DEFINE q == Append(host_queue, sent + 1)
<1>1. /\ host_queue \in Seq(Message) /\ message_type \in {0, 1}
      /\ payload \in Message \cup {0} /\ message_flags \in BOOLEAN
      /\ SlotMatched => message_type = 1
  BY DEF SlotInv, TypeOK, SlotMatched
<1>2. /\ sent + 1 \in Message /\ Deliver(q) /\ SlotMatched' = SlotMatched
      /\ matched' = matched /\ sent' = sent + 1
  BY MaxMessagesAssumption DEF HostPost, SlotInv, TypeOK, Message, SlotMatched
<1>3. q \in Seq(Message)
  BY <1>1, <1>2, AppendProperties
<1> HIDE DEF q
<1>4. /\ host_queue' \in Seq(Message) /\ message_type' \in {0, 1}
      /\ message_type = 1 => message_type' = 1 /\ payload' = payload /\ host_queue' = q
      /\ message_type = 0 =>
           IF message_type' = 1 THEN <<payload'>> \o host_queue' = q ELSE host_queue' = q
  BY <1>1, <1>2, <1>3, DeliverEffect
<1>5. /\ message_type' = 1 /\ ~SlotMatched' => Unseen' = <<payload'>> \o host_queue'
      /\ message_type' = 0 \/ SlotMatched' => Unseen' = host_queue'
  BY <1>4, UnseenCasesNext
<1>6. CASE message_type = 0
  <2>1. Unseen = host_queue
    BY <1>1, <1>6, UnseenCases
  <2>2. Unseen' = q
    BY <1>1, <1>2, <1>4, <1>5, <1>6, Zenon
  <2> QED BY <1>2, <2>1, <2>2 DEF q
<1>7. CASE message_type = 1 /\ SlotMatched
  <2>1. Unseen = host_queue
    BY <1>1, <1>7, UnseenCases
  <2>2. Unseen' = q
    BY <1>2, <1>4, <1>5, <1>7
  <2> QED BY <1>2, <2>1, <2>2 DEF q
<1>8. CASE message_type = 1 /\ ~SlotMatched
  <2>1. Unseen = <<payload>> \o host_queue
    BY <1>1, <1>8, UnseenCases
  <2>2. Unseen' = <<payload>> \o q
    BY <1>2, <1>4, <1>5, <1>8
  <2>3. <<payload>> \in Seq(Message)
    BY <1>8, PayloadIsMessage
  <2>4. <<payload>> \o q = Append(<<payload>> \o host_queue, sent + 1)
    BY <1>1, <1>2, <2>3, AppendToSecond DEF q
  <2> QED BY <1>2, <2>1, <2>2, <2>4
<1> QED BY <1>1, <1>6, <1>7, <1>8

(* The matcher takes the first of what is unseen. *)
LEMMA MatchEffect ==
  ASSUME SlotInv, matcher
  PROVE  /\ payload \in Message /\ Unseen = <<payload>> \o host_queue
         /\ Unseen' = host_queue /\ matched' = Append(matched, payload)
         /\ sent' = sent
<1>1. host_queue \in Seq(Message) /\ message_type = 1 /\ ~SlotMatched
  BY DEF SlotInv, TypeOK, SlotMatched, matcher
<1>2. /\ host_queue' = host_queue /\ SlotMatched'
      /\ matched' = Append(matched, payload) /\ sent' = sent
  BY DEF matcher, SlotMatched
<1>3. Unseen = <<payload>> \o host_queue
  BY <1>1, UnseenCases
<1>4. Unseen' = host_queue
  BY <1>1, <1>2, UnseenCasesNext
<1> QED BY <1>1, <1>2, <1>3, <1>4, PayloadIsMessage

(* The steps of the future that leave the slot and its queue alone *)
Looks ==
  \/ poll_message \/ ack_read_flags \/ register_and_repoll \/ park \/ wait_for_match

(* No other step moves a message: freeing the slot drops one that the      *)
(* matcher has had, and EOM moves one from the queue to the slot.          *)
LEMMA OtherEffect ==
  ASSUME SlotInv, Looks \/ ack_clear \/ ack_eom
  PROVE  Unseen' = Unseen /\ matched' = matched /\ sent' = sent
<1>1. /\ host_queue \in Seq(Message) /\ message_type \in {0, 1}
      /\ payload \in Message \cup {0} /\ message_flags \in BOOLEAN
  BY DEF SlotInv, TypeOK
<1>2. CASE Looks
  <2>1. UNCHANGED <<host_queue, message_type, payload, matched, sent>>
    BY <1>2 DEF Looks, poll_message, ack_read_flags, register_and_repoll, park,
                wait_for_match, slotVars
  <2>2. SlotMatched' = SlotMatched
    BY <1>2 DEF Looks, poll_message, ack_read_flags, register_and_repoll, park,
                wait_for_match, SlotMatched
  <2> QED BY <2>1, <2>2 DEF Unseen
<1>3. CASE ack_clear
  <2>1. /\ SlotMatched /\ message_type' = 0 /\ host_queue' = host_queue
        /\ matched' = matched /\ sent' = sent
    BY <1>3 DEF ack_clear, SlotMatched
  <2>2. Unseen = host_queue /\ Unseen' = host_queue
    BY <1>1, <2>1, UnseenCases, UnseenCasesNext
  <2> QED BY <2>1, <2>2
<1>4. CASE ack_eom
  <2>1. /\ Deliver(host_queue) /\ ~SlotMatched /\ ~SlotMatched'
        /\ matched' = matched /\ sent' = sent
    BY <1>4 DEF ack_eom, SlotMatched, AfterAck
  <2>2. /\ host_queue' \in Seq(Message) /\ message_type' \in {0, 1}
        /\ message_type = 1 =>
             message_type' = 1 /\ payload' = payload /\ host_queue' = host_queue
        /\ message_type = 0 =>
             IF message_type' = 1 THEN <<payload'>> \o host_queue' = host_queue
                                  ELSE host_queue' = host_queue
    BY <1>1, <2>1, DeliverEffect
  <2>3. /\ message_type' = 1 => Unseen' = <<payload'>> \o host_queue'
        /\ message_type' = 0 => Unseen' = host_queue'
    BY <2>1, <2>2, UnseenCasesNext
  <2>4. /\ message_type = 1 => Unseen = <<payload>> \o host_queue
        /\ message_type = 0 => Unseen = host_queue
    BY <1>1, <2>1, UnseenCases
  <2>5. Unseen' = Unseen
    BY <1>1, <2>2, <2>3, <2>4, Zenon
  <2> QED BY <2>1, <2>5
<1> QED BY <1>2, <1>3, <1>4
-----------------------------------------------------------------------------
(* The types and the slot's owner are kept by every step. *)
LEMMA OwnerStep ==
  ASSUME SlotInv, [Next]_vars
  PROVE  TypeOK' /\ (pc' \in {"match", "flags", "clear"} => message_type' = 1)
<1> USE DEF SlotInv, TypeOK
<1>1. CASE HostPost
  <2>1. /\ sent + 1 \in Message /\ sent' \in 0 .. MaxMessages
        /\ Deliver(Append(host_queue, sent + 1))
        /\ UNCHANGED <<pc, flags, result, matched>>
    BY <1>1, MaxMessagesAssumption DEF HostPost, Message
  <2>2. Append(host_queue, sent + 1) \in Seq(Message)
    BY <2>1, AppendProperties
  <2>3. /\ host_queue' \in Seq(Message) /\ message_type' \in {0, 1}
        /\ payload' \in Message \cup {0} /\ message_flags' \in BOOLEAN
        /\ message_type = 1 => message_type' = 1
    BY <2>1, <2>2, DeliverEffect, Zenon
  <2> QED BY <2>1, <2>3
<1>2. CASE matcher
  <2>1. payload \in Message /\ matched' = Append(matched, payload)
    BY <1>2, MatchEffect
  <2>2. matched' \in Seq(Message)
    BY <2>1, AppendProperties
  <2> QED BY <1>2, <2>2 DEF matcher, slotVars
<1>3. CASE ack_eom
  <2>1. /\ host_queue' \in Seq(Message) /\ message_type' \in {0, 1}
        /\ payload' \in Message \cup {0} /\ message_flags' \in BOOLEAN
    BY <1>3, DeliverEffect DEF ack_eom
  <2> QED BY <1>3, <2>1 DEF ack_eom, AfterAck
<1>4. CASE ack_clear
  BY <1>4 DEF ack_clear, AfterAck
<1>5. CASE poll_message
  BY <1>5 DEF poll_message, slotVars
<1>6. CASE ack_read_flags
  BY <1>6 DEF ack_read_flags, slotVars
<1>7. CASE register_and_repoll
  BY <1>7 DEF register_and_repoll, slotVars
<1>8. CASE park \/ wait_for_match
  BY <1>8 DEF park, wait_for_match, slotVars
<1>9. CASE UNCHANGED vars
  BY <1>9 DEF vars, slotVars
<1> QED BY <1>1, <1>2, <1>3, <1>4, <1>5, <1>6, <1>7, <1>8, <1>9 DEF Next, Guest

(* ExactlyOnce is kept by a step that posts, one that matches and any other. *)
LEMMA OrderStep ==
  ASSUME SlotInv, [Next]_vars
  PROVE  ExactlyOnce'
<1>1. /\ matched \in Seq(Message) /\ host_queue \in Seq(Message) /\ sent \in Nat
      /\ matched \o Unseen = [i \in 1 .. sent |-> i]
  BY MaxMessagesAssumption DEF SlotInv, TypeOK, ExactlyOnce
<1>2. Unseen \in Seq(Message)
  BY UnseenType
<1>3. CASE HostPost
  <2>1. sent + 1 \in Message /\ Unseen' = Append(Unseen, sent + 1)
        /\ matched' = matched /\ sent' = sent + 1
    BY <1>3, PostEffect
  <2>2. matched \o Append(Unseen, sent + 1) = Append(matched \o Unseen, sent + 1)
    <3>1. matched \in Seq(Message) /\ Unseen \in Seq(Message) /\ sent + 1 \in Message
      BY <1>1, <1>2, <2>1
    <3> QED BY ONLY <3>1, AppendToSecond
  <2>3. matched' \o Unseen' = [i \in 1 .. sent + 1 |-> i]
    BY <1>1, <2>1, <2>2, OneMoreSent, Zenon
  <2> QED BY <2>1, <2>3, Zenon DEF ExactlyOnce
<1>4. CASE matcher
  <2>1. /\ payload \in Message /\ Unseen = <<payload>> \o host_queue
        /\ Unseen' = host_queue /\ matched' = Append(matched, payload) /\ sent' = sent
    BY <1>4, MatchEffect
  <2>2. Append(matched, payload) \o host_queue = matched \o (<<payload>> \o host_queue)
    BY <1>1, <2>1, MoveHead
  <2>3. matched' \o Unseen' = [i \in 1 .. sent |-> i]
    BY <1>1, <2>1, <2>2, Zenon
  <2> QED BY <2>1, <2>3 DEF ExactlyOnce
<1>5. CASE Looks \/ ack_clear \/ ack_eom
  <2>1. Unseen' = Unseen /\ matched' = matched /\ sent' = sent
    BY <1>5, OtherEffect
  <2> QED BY <1>1, <2>1 DEF ExactlyOnce
<1>6. CASE UNCHANGED vars
  <2>1. UNCHANGED <<host_queue, message_type, payload, pc, matched, sent>>
    BY <1>6 DEF vars, slotVars
  <2>2. Unseen' = Unseen
    BY <2>1, Zenon DEF Unseen, SlotMatched
  <2> QED BY <1>1, <2>1, <2>2 DEF ExactlyOnce
<1> QED BY <1>3, <1>4, <1>5, <1>6 DEF Next, Guest, Looks

(* The slot, its queue and the future keep SlotInv: every message visible  *)
(* in the slot is given to the matcher exactly once and in the order sent, *)
(* and a payload is never overwritten between poll_message and ack_message *)
(* (WaitForMatch::poll), for any number of messages.                       *)
THEOREM SlotInvariant == Spec => []SlotInv
<1>1. Init => SlotInv
  <2> SUFFICES ASSUME Init PROVE SlotInv
    OBVIOUS
  <2>1. TypeOK /\ pc = "poll"
    <3>1. << >> \in Seq(Message)
      BY EmptySeq
    <3>2. 0 \in 0 .. MaxMessages
      BY MaxMessagesAssumption
    <3> QED BY <3>1, <3>2, Zenon DEF Init, TypeOK
  <2>2. matched = << >> /\ Unseen = << >> \o << >> /\ sent = 0
    BY DEF Init, Unseen
  <2>3. << >> \o (<< >> \o << >>) = [i \in 1 .. 0 |-> i]
    OBVIOUS
  <2> QED BY <2>1, <2>2, <2>3 DEF SlotInv, ExactlyOnce
<1>2. SlotInv /\ [Next]_vars => SlotInv'
  BY OwnerStep, OrderStep DEF SlotInv
<1> QED BY <1>1, <1>2, PTL DEF Spec

(* The slot, MessagePending and EOM together implement a FIFO from the     *)
(* host to the matcher (PacketQueue): a post puts one message in, the      *)
(* matcher takes the oldest out, and no other step, of either side, is     *)
(* visible.                                                                *)
THEOREM SlotImplementsQueue == Spec => ImplementsQueue
<1>1. Init => Q!Init
  <2> SUFFICES ASSUME Init PROVE Unseen = << >> /\ matched = << >>
    BY DEF Q!Init
  <2>1. Unseen = << >> \o << >> /\ matched = << >>
    BY DEF Init, Unseen
  <2> QED BY <2>1
<1>2. SlotInv /\ [Next]_vars => [Q!Next]_(Q!vars)
  <2> SUFFICES ASSUME SlotInv, [Next]_vars PROVE [Q!Next]_(Q!vars)
    OBVIOUS
  <2>1. matched \in Seq(Message) /\ host_queue \in Seq(Message) /\ Unseen \in Seq(Message)
    BY UnseenType DEF SlotInv, TypeOK
  <2>2. CASE HostPost
    <3>1. sent + 1 \in Message /\ Unseen' = Append(Unseen, sent + 1) /\ matched' = matched
      BY <2>2, PostEffect
    <3>2. /\ Append(Unseen, sent + 1) # << >>
          /\ Append(Unseen, sent + 1)[Len(Append(Unseen, sent + 1))] = sent + 1
      BY <2>1, <3>1, AppendProperties
    <3>3. Q!Put
      BY <3>1, <3>2 DEF Q!Put
    <3> QED BY <3>3 DEF Q!Next
  <2>3. CASE matcher
    <3>1. /\ payload \in Message /\ Unseen = <<payload>> \o host_queue
          /\ Unseen' = host_queue /\ matched' = Append(matched, payload)
      BY <2>3, MatchEffect
    <3>2. /\ <<payload>> \o host_queue # << >>
          /\ Head(<<payload>> \o host_queue) = payload
          /\ Tail(<<payload>> \o host_queue) = host_queue
      BY <2>1, <3>1, HeadTailOfCons
    <3>3. Q!Take(TRUE)
      BY <3>1, <3>2 DEF Q!Take
    <3> QED BY <3>3, Zenon DEF Q!Next
  <2>4. CASE Looks \/ ack_clear \/ ack_eom
    <3>1. Unseen' = Unseen /\ matched' = matched
      BY <2>4, OtherEffect
    <3> QED BY <3>1 DEF Q!vars
  <2>5. CASE UNCHANGED vars
    <3>1. UNCHANGED <<host_queue, message_type, payload, pc, matched>>
      BY <2>5 DEF vars, slotVars
    <3>2. Unseen' = Unseen
      BY <3>1, Zenon DEF Unseen, SlotMatched
    <3> QED BY <3>1, <3>2 DEF Q!vars
  <2> QED BY <2>2, <2>3, <2>4, <2>5 DEF Next, Guest, Looks
<1> QED BY <1>1, <1>2, SlotInvariant, PTL DEF Spec, ImplementsQueue, Q!Spec
-----------------------------------------------------------------------------
(* The host flags an occupied slot behind which messages wait. *)
WaitingIsFlagged == message_type = 1 /\ host_queue # << >> => message_flags

(* MessagePending is set whenever a message waits behind an occupied slot  *)
(* (the host's half of the protocol that ack_message relies on).           *)
LEMMA WaitingFlagged == Spec => []WaitingIsFlagged
<1>1. Init => WaitingIsFlagged
  BY DEF Init, WaitingIsFlagged
<1>2. SlotInv /\ WaitingIsFlagged /\ [Next]_vars => WaitingIsFlagged'
  <2> SUFFICES ASSUME SlotInv, WaitingIsFlagged, [Next]_vars PROVE WaitingIsFlagged'
    OBVIOUS
  <2>1. ASSUME NEW q, Deliver(q) PROVE WaitingIsFlagged'
    BY <2>1, Zenon DEF Deliver, WaitingIsFlagged
  <2>2. CASE HostPost \/ ack_eom
    BY <2>1, <2>2 DEF HostPost, ack_eom
  <2>3. CASE ack_clear
    BY <2>3 DEF ack_clear, WaitingIsFlagged
  <2>4. CASE Looks \/ matcher \/ UNCHANGED vars
    BY <2>4 DEF Looks, matcher, poll_message, ack_read_flags, register_and_repoll, park,
       wait_for_match, vars, slotVars, WaitingIsFlagged
  <2> QED BY <2>2, <2>3, <2>4 DEF Next, Guest, Looks
<1> QED BY <1>1, <1>2, SlotInvariant, PTL DEF Spec

(* ack_message leaves a message behind an empty slot, with no EOM to come, *)
(* in one case only: the host queued it after ack_message had read the     *)
(* flags and before it freed the slot.                                     *)
THEOREM StallsOnlyOnLateFlag == Spec => StallsOnLateFlag
<1> DEFINE Late == ~Stalled /\ Stalled' => pc = "clear" /\ message_flags /\ ~flags
<1>1. SlotInv /\ WaitingIsFlagged /\ [Next]_vars => [Late]_vars
  <2> SUFFICES ASSUME SlotInv, WaitingIsFlagged, [Next]_vars, ~Stalled, Stalled'
               PROVE  pc = "clear" /\ message_flags /\ ~flags
    OBVIOUS
  <2>1. ASSUME NEW q, Deliver(q), message_type \in {0, 1} PROVE ~Stalled'
    BY <2>1 DEF Deliver, Stalled
  <2>2. ~(HostPost \/ ack_eom)
    BY <2>1 DEF HostPost, ack_eom, SlotInv, TypeOK
  <2>3. ~(Looks \/ matcher \/ UNCHANGED vars)
    BY DEF Looks, matcher, poll_message, ack_read_flags, register_and_repoll, park,
       wait_for_match, vars, slotVars, Stalled
  <2>4. ack_clear
    BY <2>2, <2>3 DEF Next, Guest, Looks
  <2>5. pc = "clear" /\ ~flags /\ host_queue # << >>
    BY <2>4 DEF ack_clear, Stalled
  <2>6. message_type = 1
    BY <2>5 DEF SlotInv
  <2> QED BY <2>5, <2>6 DEF WaitingIsFlagged
<1> QED BY <1>1, SlotInvariant, WaitingFlagged, PTL DEF Spec, StallsOnLateFlag
=============================================================================
