-------------------------- MODULE VmbusRing_proof --------------------------
(***************************************************************************)
(* Proofs about the ring buffer of VmbusRing, for every ring size, payload *)
(* length, transfer-page range count and buffer size.                      *)
(***************************************************************************)
EXTENDS VmbusRing, TLAPS

(***************************************************************************)
(* Arithmetic of the wrap-around.                                          *)
(***************************************************************************)

(* Quotient and remainder of a position by the ring size. *)
LEMMA DivMod ==
  ASSUME NEW a \in Nat, NEW W \in Nat \ {0}
  PROVE  /\ a % W \in 0 .. W - 1 /\ a \div W \in Nat
         /\ a = W * (a \div W) + (a % W)
OBVIOUS

(* A positive multiple of a width is at least the width. *)
LEMMA TimesGrows ==
  ASSUME NEW q \in Int, NEW W \in Nat \ {0}, q >= 1
  PROVE  W * q >= W
OBVIOUS

(* Quotient and remainder are unique. *)
LEMMA DivModUnique ==
  ASSUME NEW W \in Nat \ {0}, NEW q1 \in Int, NEW q2 \in Int,
         NEW r1 \in 0 .. W - 1, NEW r2 \in 0 .. W - 1,
         W * q1 + r1 = W * q2 + r2
  PROVE  r1 = r2
<1>1. W * (q1 - q2) = r2 - r1 /\ W * (q2 - q1) = r1 - r2
  OBVIOUS
<1>2. CASE q1 > q2
  BY <1>1, <1>2, TimesGrows, W * (q1 - q2) >= W
<1>3. CASE q2 > q1
  BY <1>1, <1>3, TimesGrows, W * (q2 - q1) >= W
<1>4. CASE q1 = q2
  BY <1>1, <1>4
<1> QED BY <1>2, <1>3, <1>4

(* Two positions less than one ring size apart are different places. *)
LEMMA ModDistinct ==
  ASSUME NEW W \in Nat \ {0}, NEW a \in Nat, NEW b \in Nat,
         a < b, b - a < W
  PROVE  a % W # b % W
<1>1. SUFFICES ASSUME a % W = b % W PROVE FALSE
  OBVIOUS
<1> DEFINE q == (b \div W) - (a \div W)
<1>2. q \in Int /\ W * q = b - a
  BY <1>1, DivMod
<1> HIDE DEF q
<1>3. q >= 1
  BY <1>2
<1> QED BY <1>2, <1>3, TimesGrows

(* Advancing an index that wraps is advancing the position. *)
LEMMA ModAdd ==
  ASSUME NEW W \in Nat \ {0}, NEW a \in Nat, NEW k \in Nat
  PROVE  ((a % W) + k) % W = (a + k) % W
<1> DEFINE m == a % W
           qa == a \div W
           r1 == (m + k) % W
           q1 == (m + k) \div W
           r2 == (a + k) % W
           q2 == (a + k) \div W
<1>1. /\ m \in 0 .. W - 1 /\ qa \in Nat /\ a = W * qa + m
  BY DivMod, Zenon
<1>2. m + k \in Nat /\ a + k \in Nat
  BY <1>1
<1>3. r1 \in 0 .. W - 1 /\ q1 \in Nat /\ m + k = W * q1 + r1
  BY <1>2, DivMod, Zenon
<1>4. r2 \in 0 .. W - 1 /\ q2 \in Nat /\ a + k = W * q2 + r2
  BY <1>2, DivMod
<1> HIDE DEF m, qa, r1, q1, r2, q2
<1>5. W * (qa + q1) + r1 = W * q2 + r2
  BY <1>1, <1>3, <1>4
<1>6. qa + q1 \in Int /\ q2 \in Int
  BY <1>1, <1>3, <1>4
<1>7. r1 = r2
  <2> HIDE <1>1
  <2> QED BY <1>3, <1>4, <1>5, <1>6, DivModUnique, Zenon
<1> QED BY <1>7 DEF r1, r2, m

(* A position not beyond one ring size from another: its remainder. *)
LEMMA ModStep ==
  ASSUME NEW W \in Nat \ {0}, NEW c \in Nat, NEW d \in 0 .. W - 1
  PROVE  (c + d) % W = IF (c % W) + d < W THEN (c % W) + d
                                          ELSE (c % W) + d - W
<1> DEFINE m == c % W
           e == IF m + d < W THEN m + d ELSE m + d - W
           z == IF m + d < W THEN 0 ELSE 1
           r == (m + d) % W
           q == (m + d) \div W
<1>1. m \in 0 .. W - 1
  BY DivMod
<1>2. e \in 0 .. W - 1 /\ z \in Int /\ m + d = W * z + e
  BY <1>1
<1>3. m + d \in Nat
  BY <1>1
<1>4. r \in 0 .. W - 1 /\ q \in Int /\ m + d = W * q + r
  BY <1>3, DivMod
<1>5. (c + d) % W = r
  <2>1. d \in Nat
    OBVIOUS
  <2> QED BY <2>1, ModAdd, Zenon
<1>6. r = e
  <2> HIDE DEF m, e, z, r, q
  <2> QED BY <1>2, <1>4, DivModUnique, Zenon
<1> QED BY <1>5, <1>6

(* The fill level computed from the wrapped indices is the true one. *)
LEMMA FillLevel ==
  ASSUME NEW w \in Nat, NEW c \in Nat, c <= w, w - c < Words
  PROVE  /\ UsedWords(w % Words, c % Words) = w - c
         /\ FreeWords(w % Words, c % Words) = Words - (w - c)
<1> DEFINE d == w - c
           m == c % Words
           n == w % Words
<1>1. d \in 0 .. Words - 1 /\ w = c + d
  BY WordsAssumption
<1>2. m \in 0 .. Words - 1
  BY DivMod, WordsAssumption
<1>3. n = IF m + d < Words THEN m + d ELSE m + d - Words
  BY <1>1, ModStep, WordsAssumption, ZenonT(30)
<1> HIDE DEF m, n
<1>4. UsedWords(n, m) = w - c /\ FreeWords(n, m) = Words - (w - c)
  BY <1>1, <1>2, <1>3, WordsAssumption DEF UsedWords, FreeWords
<1> QED BY <1>4 DEF m, n

(***************************************************************************)
(* The inductive invariant.                                                *)
(***************************************************************************)

(* A packet is at least as long as its header. *)
LEMMA HeaderFits ==
  ASSUME NEW h \in Nat, NEW n \in Nat
  PROVE  Len8(h, n) \in Nat /\ h <= Len8(h, n)
BY DEF Len8, Align8

(* An empty ring satisfies the inductive invariant. *)
LEMMA InitInv == Init => RingInv
<1> SUFFICES ASSUME Init PROVE RingInv
  OBVIOUS
<1> USE WordsAssumption
<1>1. TypeOK
  BY DEF Init, TypeOK, Packet, NoPacket, WordType, ZeroWord
<1>2. 0 % Words = 0
  <2>1. 0 % Words \in 0 .. Words - 1 /\ 0 \div Words \in Nat
        /\ 0 = Words * (0 \div Words) + (0 % Words)
    BY DivMod
  <2> QED BY <2>1, DivModUnique, 0 = Words * 0 + 0
<1>3. CountsInv
  BY <1>2 DEF Init, CountsInv
<1>4. LayoutInv /\ UnreadIntact /\ SendInv /\ RecvInv /\ NoCorrupt
  BY DEF Init, LayoutInv, UnreadIntact, Unread, SendInv, RecvInv, NoCorrupt
<1> QED BY <1>1, <1>3, <1>4 DEF RingInv

(* A send that starts is granted room; one that is refused changes nothing *)
(* but its result.                                                         *)
LEMMA SendStartInv ==
  ASSUME RingInv, NEW type \in Nat, NEW header \in Nat, header >= DescWords,
         NEW n \in PayloadLens, SendStart(type, header, n)
  PROVE  RingInv'
<1> DEFINE p == [id |-> Len(sent) + 1, type |-> type, offset8 |-> header,
                 len8 |-> Len8(header, n), at |-> written]
<1> USE DEF RingInv
<1>1. n \in Nat /\ Len8(header, n) \in Nat /\ header <= Len8(header, n)
  BY HeaderFits, PayloadAssumption
<1>2. p \in Packet /\ WellFormed(p) /\ p.at = written /\ Total(p) \in Nat
  <2>1. Len(sent) \in Nat /\ written \in Nat
    BY DEF TypeOK
  <2>2. p \in Packet
    BY <1>1, <2>1 DEF Packet
  <2>3. WellFormed(p) /\ p.at = written /\ Total(p) \in Nat
    BY <1>1 DEF WellFormed, Total
  <2> QED BY <2>2, <2>3
<1>3. CASE HasRoom(Total(p)) /\ send_pc' = "copy" /\ send_pkt' = p /\ send_pos' = 0
           /\ UNCHANGED send_result
  <2>1. FreeWords(write_index, read_index) = Words - (written - consumed)
    BY FillLevel DEF CountsInv, TypeOK
  <2>2. written + Total(p) - consumed < Words
    <3>1. FreeWords(write_index, read_index) > Total(p)
      BY <1>3 DEF HasRoom
    <3>2. Words \in Nat /\ written \in Nat /\ consumed \in Nat
      BY WordsAssumption DEF TypeOK
    <3>3. Total(p) \in Nat
      BY <1>2
    <3> QED BY ONLY <2>1, <3>1, <3>2, <3>3
  <2> HIDE DEF p
  <2>3. TypeOK'
    BY <1>2, <1>3 DEF TypeOK, SendStart, ringVars, recvVars
  <2>4. CountsInv' /\ LayoutInv' /\ UnreadIntact' /\ RecvInv' /\ NoCorrupt'
    <3>1. CountsInv' /\ LayoutInv' /\ UnreadIntact'
      BY DEF SendStart, ringVars, recvVars, CountsInv, LayoutInv, UnreadIntact, Unread
    <3>2. RecvInv' /\ NoCorrupt'
      BY DEF SendStart, ringVars, recvVars, RecvInv, NoCorrupt, WordsToRead
    <3> QED BY <3>1, <3>2
  <2>5. SendInv'
    BY <1>2, <1>3, <2>2 DEF SendInv, SendStart, ringVars
  <2> QED BY <2>3, <2>4, <2>5
<1>4. CASE send_result' = "full" /\ UNCHANGED <<send_pc, send_pkt, send_pos>>
  BY <1>4 DEF SendStart, ringVars, recvVars, TypeOK, CountsInv, LayoutInv,
       UnreadIntact, Unread, SendInv, RecvInv, NoCorrupt, WordsToRead
<1> QED BY <1>3, <1>4 DEF SendStart

(* An unread packet lies between the receiver's position and the sender's. *)
LEMMA UnreadBetween ==
  ASSUME RingInv, NEW i \in Unread
  PROVE  /\ i \in 1 .. Len(sent) /\ sent[i] \in Packet
         /\ consumed <= sent[i].at /\ sent[i].at + Total(sent[i]) <= written
<1> DEFINE f == Len(received) + 1
<1>1. i \in 1 .. Len(sent) /\ f \in 1 .. Len(sent) /\ f <= i
  BY DEF RingInv, TypeOK, Unread
<1>2. sent[i] \in Packet /\ sent[f] \in Packet
  BY <1>1 DEF RingInv, TypeOK
<1>3. sent[i].at + Total(sent[i]) <= written /\ consumed = sent[f].at
  BY <1>1 DEF RingInv, LayoutInv, TypeOK
<1>4. f < i => sent[f].at + Total(sent[f]) <= sent[i].at
  BY <1>1 DEF RingInv, LayoutInv
<1>5. sent[f].at \in Nat /\ sent[i].at \in Nat /\ Total(sent[f]) \in Nat
  <2>1. \A q \in Packet : q.at \in Nat /\ Total(q) \in Nat
    BY DEF Packet, Total
  <2> QED BY <1>2, <2>1
<1> HIDE DEF f
<1> QED BY <1>1, <1>2, <1>3, <1>4, <1>5

(* Copying a word in disturbs neither an unread packet nor the words       *)
(* already copied.                                                         *)
LEMMA CopyToInv ==
  ASSUME RingInv, copy_to
  PROVE  RingInv'
<1> DEFINE x == (write_index + send_pos) % Words
           u == written + send_pos
<1> USE DEF RingInv
<1>1. /\ Words \in Nat \ {0} /\ written \in Nat /\ consumed \in Nat /\ send_pos \in Nat
      /\ send_pkt \in Packet /\ Total(send_pkt) \in Nat /\ u \in Nat
  BY WordsAssumption DEF TypeOK, Packet, Total
<1>2. x = u % Words /\ x \in 0 .. Words - 1
  <2>1. x = ((written % Words) + send_pos) % Words
    BY DEF CountsInv
  <2>2. x = u % Words
    BY <1>1, <2>1, ModAdd, Zenon
  <2>3. u % Words \in 0 .. Words - 1
    BY <1>1, DivMod
  <2> QED BY <2>2, <2>3
<1>3. u - consumed < Words /\ consumed <= written /\ send_pos < Total(send_pkt)
  BY <1>1 DEF copy_to, SendInv, CountsInv
<1>4. Word(send_pkt, send_pos) \in WordType
  BY <1>1 DEF Word, WordType, Packet
<1>5. data' = [data EXCEPT ![x] = Word(send_pkt, send_pos)]
  BY DEF copy_to
<1>6. TypeOK'
  BY <1>1, <1>4, <1>5 DEF TypeOK, copy_to, recvVars
<1> HIDE DEF x, u
<1>7. ASSUME NEW v \in Nat, consumed <= v, v < u
      PROVE  data'[v % Words] = data[v % Words]
  <2>1. v % Words # x
    <3>1. u - v < Words
      BY <1>1, <1>3, <1>7
    <3>2. v % Words # u % Words
      BY <1>1, <1>7, <3>1, ModDistinct, Zenon
    <3> QED BY <1>2, <3>2
  <2>2. v % Words \in 0 .. Words - 1
    BY <1>1, DivMod
  <2> QED BY <1>5, <2>1, <2>2 DEF TypeOK
<1>8. CountsInv' /\ LayoutInv' /\ RecvInv' /\ NoCorrupt'
  BY DEF copy_to, recvVars, CountsInv, LayoutInv, RecvInv, NoCorrupt, WordsToRead
<1>9. UnreadIntact'
  <2> SUFFICES ASSUME NEW i \in Unread, NEW k \in 0 .. sent[i].len8
               PROVE  data'[(sent[i].at + k) % Words] = Word(sent[i], k)
    BY DEF UnreadIntact, Unread, copy_to
  <2>1. sent[i] \in Packet /\ consumed <= sent[i].at
        /\ sent[i].at + Total(sent[i]) <= written
    BY UnreadBetween
  <2>2. sent[i].at + k \in Nat /\ consumed <= sent[i].at + k /\ sent[i].at + k < u
    BY <1>1, <2>1 DEF Packet, Total, u
  <2>3. data[(sent[i].at + k) % Words] = Word(sent[i], k)
    BY DEF UnreadIntact
  <2> QED BY <1>7, <2>2, <2>3
<1>10. SendInv'
  <2>1. ASSUME NEW k \in 0 .. send_pos
        PROVE  data'[(written + k) % Words] = Word(send_pkt, k)
    <3>1. CASE k < send_pos
      <4>1. written + k \in Nat /\ consumed <= written + k /\ written + k < u
        BY <1>1, <1>3, <3>1 DEF u
      <4>2. data[(written + k) % Words] = Word(send_pkt, k)
        BY <1>1, <3>1 DEF SendInv, copy_to
      <4> QED BY <1>7, <4>1, <4>2
    <3>2. CASE k = send_pos
      BY <1>2, <1>5, <3>2 DEF u, TypeOK
    <3> QED BY <1>1, <3>1, <3>2
  <2>2. send_pos' = send_pos + 1 /\ UNCHANGED <<send_pc, send_pkt, written, consumed>>
    BY DEF copy_to
  <2> QED BY <1>1, <1>3, <2>1, <2>2 DEF SendInv, copy_to
<1> QED BY <1>6, <1>8, <1>9, <1>10

(* Publishing the index turns the copied packet into an unread one. *)
LEMMA SendPublishInv ==
  ASSUME RingInv, SendPublish
  PROVE  RingInv'
<1> DEFINE t == Total(send_pkt)
           n == Len(sent)
<1> USE DEF RingInv
<1>1. /\ Words \in Nat \ {0} /\ written \in Nat /\ consumed \in Nat
      /\ send_pkt \in Packet /\ t \in Nat /\ n \in Nat
  BY WordsAssumption DEF TypeOK, Packet, Total
<1>2. /\ WellFormed(send_pkt) /\ send_pkt.at = written /\ send_pos = t
      /\ written + t - consumed < Words
  BY DEF SendPublish, SendInv
<1>3. /\ sent' = Append(sent, send_pkt) /\ written' = written + t
      /\ UNCHANGED <<data, received, consumed>>
  BY DEF SendPublish
<1>4. write_index' = written' % Words /\ write_index' \in 0 .. Words - 1
  <2>1. write_index' = ((written % Words) + t) % Words
    BY DEF SendPublish, CountsInv
  <2>2. write_index' = (written + t) % Words
    BY <1>1, <2>1, ModAdd, Zenon
  <2>3. written + t \in Nat
    BY <1>1
  <2>4. (written + t) % Words \in 0 .. Words - 1
    BY <1>1, <2>3, DivMod, Zenon
  <2> QED BY <1>3, <2>2, <2>4
<1>5. /\ Len(sent') = n + 1 /\ sent'[n + 1] = send_pkt
      /\ \A i \in 1 .. n : sent'[i] = sent[i]
  BY <1>1, <1>3 DEF TypeOK
<1>6. TypeOK'
  <2>1. sent \in Seq(Packet)
    BY DEF TypeOK
  <2>2. Append(sent, send_pkt) \in Seq(Packet)
    BY <1>1, <2>1
  <2>3. sent' \in Seq(Packet)
    BY <1>3, <2>2
  <2>4. written' \in Nat
    BY <1>1, <1>3
  <2> QED BY <1>4, <2>3, <2>4 DEF TypeOK, SendPublish, recvVars
<1>7. CountsInv'
  <2>1. consumed' <= written' /\ written' - consumed' < Words
    BY <1>1, <1>2, <1>3 DEF CountsInv
  <2> QED BY <1>4, <2>1 DEF CountsInv, SendPublish
<1>8. LayoutInv'
  <2>1. ASSUME NEW i \in 1 .. n + 1
        PROVE  /\ WellFormed(sent'[i])
               /\ sent'[i].at + Total(sent'[i]) <= written'
               /\ sent'[i].at + Total(sent'[i]) =
                    IF i < n + 1 THEN sent'[i + 1].at ELSE written'
               /\ \A j \in 1 .. n + 1 :
                    i < j => sent'[i].at + Total(sent'[i]) <= sent'[j].at
    <3>1. CASE i = n + 1
      BY <1>1, <1>2, <1>3, <1>5, <3>1
    <3>2. CASE i \in 1 .. n
      <4>1. /\ WellFormed(sent[i]) /\ sent[i].at + Total(sent[i]) <= written
            /\ sent[i].at \in Nat /\ Total(sent[i]) \in Nat
        <5>1. sent[i] \in Packet
          BY <3>2 DEF TypeOK
        <5> QED BY <3>2, <5>1 DEF LayoutInv, Packet, Total
      <4>2. \A j \in 1 .. n : i < j => sent[i].at + Total(sent[i]) <= sent[j].at
        BY <3>2 DEF LayoutInv
      <4>3. sent[i].at + Total(sent[i]) =
              IF i < n THEN sent[i + 1].at ELSE written
        BY <3>2 DEF LayoutInv
      <4>4. sent'[i] = sent[i] /\ (i < n => sent'[i + 1] = sent[i + 1])
            /\ (i = n => sent'[i + 1] = send_pkt)
        BY <1>1, <1>5, <3>2
      <4> HIDE DEF n, t
      <4>5. sent'[i].at + Total(sent'[i]) =
              IF i < n + 1 THEN sent'[i + 1].at ELSE written'
        BY <1>1, <1>2, <3>2, <4>3, <4>4
      <4>6. \A j \in 1 .. n + 1 :
              i < j => sent'[i].at + Total(sent'[i]) <= sent'[j].at
        <5>1. ASSUME NEW j \in 1 .. n, i < j
              PROVE  sent'[i].at + Total(sent'[i]) <= sent'[j].at
          BY <1>5, <3>2, <4>2, <5>1
        <5>2. sent'[i].at + Total(sent'[i]) <= sent'[n + 1].at
          BY <1>2, <1>5, <4>1, <4>4
        <5>3. \A j \in 1 .. n + 1 : j \in 1 .. n \/ j = n + 1
          BY <1>1
        <5> QED BY <5>1, <5>2, <5>3
      <4>7. sent[i].at + Total(sent[i]) <= written'
        BY <1>1, <1>3, <4>1
      <4> QED BY <4>1, <4>4, <4>5, <4>6, <4>7
    <3> QED BY <1>1, <3>1, <3>2
  <2>2. Len(received) \in Nat /\ Len(received) <= n
    BY DEF TypeOK, LayoutInv
  <2>3. consumed = sent'[Len(received) + 1].at
    <3>1. CASE Len(received) < n
      <4>1. consumed = sent[Len(received) + 1].at
        BY <3>1 DEF LayoutInv
      <4>2. Len(received) + 1 \in 1 .. n
        BY <1>1, <2>2, <3>1
      <4> QED BY <1>5, <4>1, <4>2
    <3>2. CASE Len(received) = n
      BY <1>2, <1>5, <3>2 DEF LayoutInv
    <3> QED BY <1>1, <2>2, <3>1, <3>2
  <2>4. Len(received') <= Len(sent')
    BY <1>1, <1>3, <1>5, <2>2
  <2>5. Len(received') < Len(sent') /\ consumed' = sent'[Len(received') + 1].at
    BY <1>1, <1>3, <1>5, <2>2, <2>3
  <2> HIDE DEF n
  <2> QED BY <1>5, <2>1, <2>4, <2>5 DEF LayoutInv
<1>9. UnreadIntact'
  <2> SUFFICES ASSUME NEW i \in Unread', NEW k \in 0 .. sent'[i].len8
               PROVE  data'[(sent'[i].at + k) % Words] = Word(sent'[i], k)
    BY DEF UnreadIntact
  <2>1. i \in Len(received) + 1 .. n + 1 /\ Len(received) \in Nat
    BY <1>3, <1>5 DEF Unread, TypeOK
  <2>2. CASE i = n + 1
    <3>1. k \in 0 .. send_pos - 1
      <4>1. k \in 0 .. send_pkt.len8
        BY <1>5, <2>2
      <4>2. send_pkt.len8 \in Nat
        BY <1>1 DEF Packet
      <4>3. send_pos = send_pkt.len8 + 1
        BY <1>2 DEF Total
      <4> QED BY <4>1, <4>2, <4>3
    <3>2. \A j \in 0 .. send_pos - 1 :
            data[(written + j) % Words] = Word(send_pkt, j)
      BY DEF SendInv, SendPublish
    <3>3. sent'[i] = send_pkt /\ sent'[i].at = written /\ data' = data
      BY <1>2, <1>3, <1>5, <2>2
    <3>4. data[(written + k) % Words] = Word(send_pkt, k)
      BY <3>1, <3>2
    <3> QED BY <3>3, <3>4
  <2>3. CASE i \in Unread
    BY <1>1, <1>3, <1>5, <2>1, <2>3 DEF UnreadIntact, Unread
  <2> QED BY <1>1, <2>1, <2>2, <2>3 DEF Unread
<1>10. SendInv' /\ NoCorrupt'
  BY DEF SendInv, SendPublish, NoCorrupt, recvVars
<1>11. RecvInv'
  <2>1. CASE recv_pc = "idle"
    BY <2>1 DEF RecvInv, SendPublish, recvVars
  <2>2. CASE recv_pc # "idle"
    <3>1. Len(received) + 1 \in 1 .. n /\ Len(received) \in Nat
      BY <1>1, <2>2 DEF RecvInv, TypeOK
    <3>2. sent'[Len(received) + 1] = sent[Len(received) + 1]
      BY <1>5, <3>1
    <3> QED BY <1>1, <1>3, <1>5, <3>1, <3>2
            DEF RecvInv, SendPublish, recvVars, WordsToRead
  <2> QED BY <2>1, <2>2
<1> QED BY <1>6, <1>7, <1>8, <1>9, <1>10, <1>11

(* The oldest unread packet, as a receive that has begun sees it. *)
LEMMA OldestUnread ==
  ASSUME RingInv, consumed # written
  PROVE  LET p == sent[Len(received) + 1]
         IN /\ Len(received) \in Nat /\ Len(received) < Len(sent)
            /\ p \in Packet /\ WellFormed(p) /\ p.at = consumed
            /\ Total(p) <= written - consumed
<1> DEFINE f == Len(received) + 1
<1>1. Len(received) \in Nat /\ Len(sent) \in Nat /\ Len(received) < Len(sent)
  BY DEF RingInv, TypeOK, LayoutInv
<1>2. f \in 1 .. Len(sent)
  BY <1>1
<1>3. sent[f] \in Packet /\ WellFormed(sent[f])
      /\ sent[f].at + Total(sent[f]) <= written
  BY <1>2 DEF RingInv, TypeOK, LayoutInv
<1>4. sent[f].at = consumed
  BY <1>1 DEF RingInv, LayoutInv
<1>5. consumed \in Nat /\ written \in Nat /\ Total(sent[f]) \in Nat
  <2>1. consumed \in Nat /\ written \in Nat
    BY DEF RingInv, TypeOK
  <2>2. Total(sent[f]) \in Nat
    BY <1>3 DEF Packet, Total
  <2> QED BY <2>1, <2>2
<1> QED BY <1>1, <1>3, <1>4, <1>5

(* A receive begins only on a whole packet; `avail` is never 1 word. *)
LEMMA RecvStartInv ==
  ASSUME RingInv, NEW raw \in BOOLEAN, RecvStart(raw)
  PROVE  RingInv'
<1> DEFINE avail == UsedWords(write_index, read_index)
<1> USE DEF RingInv
<1>1. avail = written - consumed /\ avail \in Nat
  <2>1. written \in Nat /\ consumed \in Nat
    BY DEF TypeOK
  <2>2. /\ write_index = written % Words /\ read_index = consumed % Words
        /\ consumed <= written /\ written - consumed < Words
    BY DEF CountsInv
  <2>3. UsedWords(written % Words, consumed % Words) = written - consumed
    BY <2>1, <2>2, FillLevel
  <2> QED BY <2>1, <2>2, <2>3
<1>2. UNCHANGED <<ringVars, sendVars, sent, received, written, consumed>>
  BY DEF RecvStart
<1>3. CountsInv' /\ LayoutInv' /\ UnreadIntact' /\ SendInv'
  BY <1>2 DEF ringVars, sendVars, CountsInv, LayoutInv, UnreadIntact, Unread, SendInv
<1>4. CASE avail >= DescWords
  <2>1. /\ recv_pc' = "desc" /\ recv_raw' = raw /\ recv_avail' = avail
        /\ recv_buf' = << >> /\ UNCHANGED recv_result
    BY <1>4 DEF RecvStart
  <2>2. TypeOK' /\ NoCorrupt'
    BY <1>1, <1>2, <2>1 DEF TypeOK, NoCorrupt, ringVars, sendVars
  <2>3. consumed # written
    BY <1>1, <1>4 DEF DescWords, TypeOK
  <2>4. Len(received) < Len(sent) /\ Total(sent[Len(received) + 1]) <= avail
    BY <1>1, <2>3, OldestUnread
  <2>5. RecvInv'
    BY <1>2, <2>1, <2>4 DEF RecvInv, DescWords
  <2> QED BY <1>3, <2>2, <2>5
<1>5. CASE ~(avail >= DescWords)
  <2>1. avail = 0
    <3> SUFFICES ASSUME consumed # written PROVE FALSE
      BY <1>1 DEF TypeOK
    <3> DEFINE p == sent[Len(received) + 1]
    <3>1. p \in Packet /\ WellFormed(p) /\ Total(p) <= avail
      BY <1>1, OldestUnread
    <3> HIDE DEF p
    <3> QED BY <1>1, <1>5, <3>1 DEF Packet, WellFormed, Total, DescWords
  <2>2. recv_result' = "none" /\ UNCHANGED <<recv_pc, recv_raw, recv_avail, recv_buf>>
    BY <1>5, <2>1 DEF RecvStart
  <2>3. TypeOK' /\ NoCorrupt' /\ RecvInv'
    BY <1>2, <2>2 DEF TypeOK, NoCorrupt, RecvInv, ringVars, sendVars, WordsToRead
  <2> QED BY <1>3, <2>3
<1> QED BY <1>4, <1>5

(* The packet under the receiver, and how far a receive reads it. *)
LEMMA UnderRead ==
  ASSUME RingInv, recv_pc # "idle"
  PROVE  LET p == sent[Len(received) + 1]
         IN /\ Len(received) + 1 \in Unread
            /\ p \in Packet /\ WellFormed(p) /\ p.at = consumed
            /\ (recv_pc = "copy" \/ Len(recv_buf) = DescWords =>
                   recv_buf[1].id = p.id /\ recv_buf[1].len8 = p.len8
                   /\ recv_buf[1].offset8 = p.offset8)
            /\ (recv_pc = "copy" =>
                   WordsToRead = DataStart(recv_raw, p.offset8) + CopyLen(recv_raw, p))
            /\ (recv_pc \in {"desc", "copy"} =>
                   WordsToRead \in Nat /\ WordsToRead <= p.len8)
            /\ DataStart(recv_raw, p.offset8) \in DescWords .. p.len8
            /\ CopyLen(recv_raw, p) \in Nat
<1> DEFINE f == Len(received) + 1
           p == sent[f]
<1>1. Len(received) \in Nat /\ Len(sent) \in Nat /\ f \in Unread /\ f \in 1 .. Len(sent)
  BY DEF RingInv, TypeOK, RecvInv, Unread
<1>2. p \in Packet /\ WellFormed(p) /\ p.at = consumed
  BY <1>1 DEF RingInv, TypeOK, LayoutInv
<1>3. ASSUME recv_pc = "copy" \/ Len(recv_buf) = DescWords
      PROVE  recv_buf[1] = Word(p, 0)
  <2>1. Len(recv_buf) \in Nat /\ Len(recv_buf) >= 1
    <3>1. Len(recv_buf) \in Nat
      BY DEF RingInv, TypeOK
    <3>2. recv_pc = "copy" => DescWords <= Len(recv_buf)
      BY DEF RingInv, RecvInv
    <3> QED BY <1>3, <3>1, <3>2 DEF DescWords
  <2>2. \A k \in 1 .. Len(recv_buf) : recv_buf[k] = Word(p, k - 1)
    BY DEF RingInv, RecvInv
  <2> QED BY <2>1, <2>2
<1> HIDE DEF f, p
<1>4. ASSUME recv_pc = "copy" \/ Len(recv_buf) = DescWords
      PROVE  recv_buf[1].id = p.id /\ recv_buf[1].len8 = p.len8
             /\ recv_buf[1].offset8 = p.offset8
  BY <1>3, <1>4 DEF Word
<1>5. /\ DataStart(recv_raw, p.offset8) \in DescWords .. p.len8
      /\ CopyLen(recv_raw, p) \in Nat
      /\ DataStart(recv_raw, p.offset8) + CopyLen(recv_raw, p) <= p.len8
  BY <1>2, BufAssumption DEF DataStart, CopyLen, Packet, WellFormed, DescWords
<1>6. recv_pc = "copy" =>
        WordsToRead = DataStart(recv_raw, p.offset8) + CopyLen(recv_raw, p)
  BY <1>4 DEF WordsToRead, CopyLen
<1>7. recv_pc \in {"desc", "copy"} => WordsToRead \in Nat /\ WordsToRead <= p.len8
  BY <1>2, <1>5, <1>6 DEF WordsToRead, DescWords, WellFormed, Packet
<1> QED BY <1>1, <1>2, <1>4, <1>5, <1>6, <1>7 DEF f, p

(* Every word read is the next word of the packet under the receiver. *)
LEMMA CopyFromInv ==
  ASSUME RingInv, copy_from
  PROVE  RingInv'
<1> DEFINE f == Len(received) + 1
           p == sent[f]
           b == Len(recv_buf)
           x == data[(read_index + b) % Words]
<1>1. recv_pc \in {"desc", "copy"} /\ b \in Nat /\ b < WordsToRead
      /\ recv_buf \in Seq(WordType) /\ consumed \in Nat
  BY DEF copy_from, RingInv, TypeOK
<1>2. /\ f \in Unread /\ p \in Packet /\ WellFormed(p) /\ p.at = consumed
      /\ WordsToRead \in Nat /\ WordsToRead <= p.len8
  BY <1>1, UnderRead
<1>3. (read_index + b) % Words = (p.at + b) % Words
  <2>1. read_index = consumed % Words
    BY DEF RingInv, CountsInv
  <2> QED BY <1>1, <1>2, <2>1, ModAdd, WordsAssumption, Zenon
<1>4. x = Word(p, b)
  <2>1. b \in 0 .. p.len8
    BY <1>1, <1>2 DEF Packet
  <2>2. data[(p.at + b) % Words] = Word(p, b)
    BY <1>2, <2>1 DEF RingInv, UnreadIntact
  <2> QED BY <1>3, <2>2
<1>5. x \in WordType
  BY <1>1, <1>2, <1>4 DEF Word, WordType, Packet
<1>6. /\ recv_buf' = Append(recv_buf, x)
      /\ UNCHANGED <<ringVars, sendVars, recv_pc, recv_raw, recv_avail,
                     recv_result, sent, received, written, consumed>>
  BY DEF copy_from
<1>7. /\ Len(recv_buf') = b + 1 /\ recv_buf'[b + 1] = x /\ recv_buf' \in Seq(WordType)
      /\ \A k \in 1 .. b : recv_buf'[k] = recv_buf[k]
  BY <1>1, <1>5, <1>6
<1>8. TypeOK'
  BY <1>6, <1>7 DEF RingInv, TypeOK, ringVars, sendVars
<1>9. CountsInv' /\ LayoutInv' /\ UnreadIntact' /\ SendInv' /\ NoCorrupt'
  BY <1>6 DEF RingInv, CountsInv, LayoutInv, UnreadIntact, Unread, SendInv, NoCorrupt,
              ringVars, sendVars
<1>10. RecvInv'
  <2>1. \A k \in 1 .. b + 1 : recv_buf'[k] = Word(p, k - 1)
    <3> SUFFICES ASSUME NEW k \in 1 .. b + 1 PROVE recv_buf'[k] = Word(p, k - 1)
      OBVIOUS
    <3>1. CASE k = b + 1
      BY <1>1, <1>4, <1>7, <3>1
    <3>2. CASE k \in 1 .. b
      BY <1>1, <1>7, <3>2 DEF RingInv, RecvInv
    <3> QED BY <1>1, <3>1, <3>2
  <2>2. WordsToRead' = WordsToRead
    <3>1. CASE recv_pc = "desc"
      BY <1>6, <3>1 DEF WordsToRead
    <3>2. CASE recv_pc = "copy"
      <4>1. b >= 1
        BY <1>1, <3>2 DEF RingInv, RecvInv, DescWords
      <4>2. recv_buf'[1] = recv_buf[1]
        BY <1>1, <1>7, <4>1
      <4> QED BY <1>6, <4>2 DEF WordsToRead
    <3> QED BY <1>1, <3>1, <3>2
  <2>3. /\ recv_pc' = "desc" => b + 1 <= DescWords
        /\ recv_pc' = "copy" => DescWords <= b + 1 /\ b + 1 <= WordsToRead'
    <3>1. recv_pc = "desc" => WordsToRead = DescWords
      BY DEF WordsToRead
    <3>2. recv_pc = "copy" => DescWords <= b
      BY DEF RingInv, RecvInv
    <3> QED BY <1>1, <1>2, <1>6, <2>2, <3>1, <3>2 DEF DescWords
  <2> HIDE DEF b, x
  <2>4. /\ f \in Nat /\ Len(received) < Len(sent) /\ Total(p) <= recv_avail
    BY <1>1 DEF RingInv, RecvInv, TypeOK
  <2> QED BY <1>6, <1>7, <2>1, <2>3, <2>4 DEF RecvInv
<1> QED BY <1>8, <1>9, <1>10 DEF RingInv

(* The descriptor read is that of a packet, so no check refuses it. *)
LEMMA CheckDescriptorInv ==
  ASSUME RingInv, CheckDescriptor
  PROVE  LET oldest == sent[Len(received) + 1]
             long == ~recv_raw /\ oldest.offset8 > DescWords + SkipWords
         IN
         /\ RingInv'
         /\ Len(received) + 1 \in 1 .. Len(sent)
         /\ recv_pc' = IF long THEN "panic" ELSE "copy"
<1> DEFINE f == Len(received) + 1
           p == sent[f]
           desc == recv_buf[1]
           corrupt == \/ desc.len8 < DescWords
                      \/ desc.len8 + 1 > recv_avail
                      \/ ~recv_raw /\ desc.offset8 > desc.len8
           overrun == ~recv_raw /\ desc.offset8 > DescWords + SkipWords
<1>1. recv_pc = "desc" /\ Len(recv_buf) = DescWords
  BY DEF CheckDescriptor
<1>2. /\ f \in Unread /\ p \in Packet /\ WellFormed(p)
      /\ desc.len8 = p.len8 /\ desc.offset8 = p.offset8
  BY <1>1, UnderRead
<1>3. Total(p) <= recv_avail /\ recv_avail \in Nat
  BY <1>1 DEF RingInv, RecvInv, TypeOK
<1> HIDE DEF p, desc
<1>4. ~corrupt
  BY <1>2, <1>3 DEF Packet, WellFormed, Total, DescWords
<1>5. /\ recv_pc' = IF overrun THEN "panic" ELSE "copy"
      /\ recv_result' = recv_result
      /\ UNCHANGED <<ringVars, sendVars, recv_raw, recv_avail, recv_buf, sent,
                     received, written, consumed>>
  BY <1>4 DEF CheckDescriptor, desc
<1>6. TypeOK' /\ NoCorrupt'
  BY <1>5 DEF RingInv, TypeOK, NoCorrupt, ringVars, sendVars
<1>7. CountsInv' /\ LayoutInv' /\ UnreadIntact' /\ SendInv'
  BY <1>5 DEF RingInv, CountsInv, LayoutInv, UnreadIntact, Unread, SendInv,
              ringVars, sendVars
<1>8. RecvInv'
  <2>1. recv_pc' = "copy" => DescWords <= WordsToRead'
    <3> SUFFICES ASSUME recv_pc' = "copy" PROVE DescWords <= WordsToRead'
      OBVIOUS
    <3>1. WordsToRead' = DataStart(recv_raw, desc.offset8) + CopyLen(recv_raw, desc)
      BY <1>5 DEF WordsToRead, desc
    <3> QED BY <1>2, <3>1, BufAssumption
            DEF DataStart, CopyLen, Packet, WellFormed, DescWords
  <2>2. DescWords \in Nat /\ recv_pc' # "desc"
    BY <1>5 DEF DescWords
  <2> QED BY <1>1, <1>5, <2>1, <2>2 DEF RingInv, RecvInv
<1>9. recv_pc' = IF ~recv_raw /\ p.offset8 > DescWords + SkipWords
                   THEN "panic" ELSE "copy"
  BY <1>2, <1>5
<1>10. f \in 1 .. Len(sent)
  BY <1>2 DEF Unread, RingInv, TypeOK
<1> QED BY <1>6, <1>7, <1>8, <1>9, <1>10 DEF RingInv, p

(* What RecvAdvance does, in terms of the packet under the receiver. *)
LEMMA AdvanceEffect ==
  ASSUME RingInv, RecvAdvance
  PROVE  LET p == sent[Len(received) + 1]
         IN /\ Len(received) \in Nat /\ Len(received) < Len(sent)
            /\ p \in Packet /\ WellFormed(p) /\ p.at = consumed
            /\ read_index' = (read_index + Total(p)) % Words
            /\ consumed' = consumed + Total(p)
            /\ received' = Append(received, Delivered(p, recv_raw))
<1> DEFINE p == sent[Len(received) + 1]
           desc == recv_buf[1]
           first == DataStart(recv_raw, desc.offset8)
           got == [id |-> desc.id,
                   words |-> [j \in 1 .. CopyLen(recv_raw, desc) |-> recv_buf[first + j]]]
<1>1. recv_pc = "copy" /\ Len(recv_buf) = WordsToRead /\ recv_pc # "idle"
  BY DEF RecvAdvance
<1>2. /\ p \in Packet /\ WellFormed(p) /\ p.at = consumed
      /\ desc.id = p.id /\ desc.len8 = p.len8 /\ desc.offset8 = p.offset8
      /\ WordsToRead = DataStart(recv_raw, p.offset8) + CopyLen(recv_raw, p)
      /\ DataStart(recv_raw, p.offset8) \in DescWords .. p.len8
      /\ CopyLen(recv_raw, p) \in Nat
  BY <1>1, UnderRead
<1>3. Len(received) \in Nat /\ Len(received) < Len(sent)
  BY <1>1 DEF RingInv, RecvInv, TypeOK
<1>4. \A k \in 1 .. Len(recv_buf) : recv_buf[k] = Word(p, k - 1)
  BY <1>1 DEF RingInv, RecvInv
<1>5. /\ read_index' = (read_index + desc.len8 + 1) % Words
      /\ consumed' = consumed + desc.len8 + 1
      /\ received' = Append(received, got)
  BY DEF RecvAdvance
<1>6. read_index \in Nat /\ consumed \in Nat
  BY WordsAssumption DEF RingInv, TypeOK
<1> HIDE DEF p, desc
<1>7. CopyLen(recv_raw, desc) = CopyLen(recv_raw, p) /\ first = DataStart(recv_raw, p.offset8)
  BY <1>2 DEF CopyLen
<1>8. got = Delivered(p, recv_raw)
  <2>1. \A j \in 1 .. CopyLen(recv_raw, p) :
          recv_buf[first + j] = Word(p, DataStart(recv_raw, p.offset8) + j - 1)
    <3> SUFFICES ASSUME NEW j \in 1 .. CopyLen(recv_raw, p)
                 PROVE  recv_buf[first + j] = Word(p, first + j - 1)
      BY <1>7
    <3>1. first + j \in 1 .. Len(recv_buf)
      BY <1>1, <1>2, <1>7 DEF DescWords, Packet
    <3>2. first \in Nat /\ j \in Nat
      BY <1>2, <1>7 DEF DescWords, Packet
    <3> HIDE DEF first
    <3> QED BY <1>4, <3>1, <3>2
  <2> HIDE DEF first
  <2> QED BY <1>2, <1>7, <2>1 DEF Delivered
<1>9. /\ read_index + desc.len8 + 1 = read_index + Total(p)
      /\ consumed + desc.len8 + 1 = consumed + Total(p)
  BY <1>2, <1>6 DEF Total, Packet
<1> QED BY <1>2, <1>3, <1>5, <1>8, <1>9 DEF p

(* What a receive hands over is made of words. *)
LEMMA DeliveredType ==
  ASSUME NEW p \in Packet, WellFormed(p), NEW raw \in BOOLEAN
  PROVE  Delivered(p, raw) \in [id : Nat, words : Seq(WordType)]
<1>1. /\ DataStart(raw, p.offset8) \in Nat /\ DataStart(raw, p.offset8) <= p.len8
      /\ CopyLen(raw, p) \in Nat /\ p.len8 \in Nat /\ p.offset8 \in Nat /\ p.id \in Nat
  BY BufAssumption DEF DataStart, CopyLen, Packet, WellFormed, DescWords
<1>2. \A j \in 1 .. CopyLen(raw, p) : Word(p, DataStart(raw, p.offset8) + j - 1) \in WordType
  BY <1>1 DEF Word, WordType
<1> QED BY <1>1, <1>2 DEF Delivered

(* Releasing a packet leaves the others, and the room granted, in place. *)
LEMMA RecvAdvanceInv ==
  ASSUME RingInv, RecvAdvance
  PROVE  RingInv'
<1> DEFINE f == Len(received) + 1
           p == sent[f]
           t == Total(p)
<1>1. /\ Len(received) \in Nat /\ Len(sent) \in Nat /\ f \in 1 .. Len(sent)
      /\ p \in Packet /\ WellFormed(p) /\ p.at = consumed
      /\ read_index' = (read_index + t) % Words
      /\ consumed' = consumed + t
      /\ received' = Append(received, Delivered(p, recv_raw))
  BY AdvanceEffect DEF RingInv, TypeOK
<1>2. /\ recv_pc' = "idle" /\ recv_result' = "ok"
      /\ UNCHANGED <<write_index, data, sendVars, recv_raw, recv_avail, recv_buf,
                     sent, written>>
  BY DEF RecvAdvance
<1>3. /\ Words \in Nat \ {0} /\ written \in Nat /\ consumed \in Nat
      /\ t \in Nat /\ recv_raw \in BOOLEAN
      /\ received \in Seq([id : Nat, words : Seq(WordType)])
  <2>1. t \in Nat
    BY <1>1 DEF Total, Packet
  <2> QED BY <2>1, WordsAssumption DEF RingInv, TypeOK
<1>4. Delivered(p, recv_raw) \in [id : Nat, words : Seq(WordType)]
  BY <1>1, <1>3, DeliveredType
<1>5. received' \in Seq([id : Nat, words : Seq(WordType)]) /\ Len(received') = f
  BY <1>1, <1>3, <1>4
<1>6. consumed + t <= written
  BY <1>1 DEF RingInv, LayoutInv
<1>7. consumed + t = IF f < Len(sent) THEN sent[f + 1].at ELSE written
  BY <1>1 DEF RingInv, LayoutInv
<1>8. read_index' = consumed' % Words /\ read_index' \in 0 .. Words - 1
  <2>1. read_index' = ((consumed % Words) + t) % Words
    BY <1>1 DEF RingInv, CountsInv
  <2>2. read_index' = (consumed + t) % Words
    BY <1>3, <2>1, ModAdd, Zenon
  <2>3. consumed + t \in Nat
    BY <1>3
  <2>4. (consumed + t) % Words \in 0 .. Words - 1
    BY <1>3, <2>3, DivMod, Zenon
  <2> QED BY <1>1, <2>2, <2>4
<1> HIDE DEF p, t
<1>9. TypeOK'
  <2>1. consumed' \in Nat
    BY <1>1, <1>3
  <2> QED BY <1>2, <1>5, <1>8, <2>1 DEF RingInv, TypeOK, sendVars
<1>10. CountsInv'
  <2>1. consumed' <= written' /\ written' - consumed' < Words
    BY <1>1, <1>2, <1>3, <1>6 DEF RingInv, CountsInv
  <2> QED BY <1>2, <1>8, <2>1 DEF RingInv, CountsInv
<1>11. LayoutInv'
  <2>1. consumed' = IF Len(received') < Len(sent') THEN sent'[Len(received') + 1].at
                                                   ELSE written'
    BY <1>1, <1>2, <1>5, <1>7
  <2>2. Len(received') <= Len(sent')
    BY <1>1, <1>2, <1>5
  <2> QED BY <1>2, <2>1, <2>2 DEF RingInv, LayoutInv
<1>12. UnreadIntact'
  <2>1. Unread' \subseteq Unread
    BY <1>1, <1>2, <1>5 DEF Unread
  <2> QED BY <1>2, <2>1 DEF RingInv, UnreadIntact
<1>13. SendInv'
  <2>1. CASE send_pc = "copy"
    <3>1. Total(send_pkt) \in Nat
      BY DEF RingInv, TypeOK, Packet, Total
    <3>2. written + Total(send_pkt) - (consumed + t) < Words
      BY <1>3, <2>1, <3>1 DEF RingInv, SendInv
    <3>3. UNCHANGED <<send_pc, send_pkt, send_pos, data, written>>
      BY <1>2 DEF sendVars
    <3>4. SendInv
      BY DEF RingInv
    <3> QED BY <1>1, <2>1, <3>2, <3>3, <3>4 DEF SendInv
  <2>2. CASE send_pc # "copy"
    BY <1>2, <2>2 DEF SendInv, sendVars
  <2> QED BY <2>1, <2>2
<1>14. RecvInv' /\ NoCorrupt'
  BY <1>2 DEF RecvInv, NoCorrupt
<1> QED BY <1>9, <1>10, <1>11, <1>12, <1>13, <1>14 DEF RingInv

(* Every step of either side keeps the invariant. *)
LEMMA NextInv == RingInv /\ [Next]_vars => RingInv'
<1> SUFFICES ASSUME RingInv, [Next]_vars PROVE RingInv'
  OBVIOUS
<1>1. CASE Send
  <2>1. PICK n \in PayloadLens :
          \/ send_packet(n) \/ send_comp(n) \/ send_packet_with_page_buffer(n)
          \/ HostXferPages(n)
    BY <1>1 DEF Send
  <2>2. CASE send_packet(n)
    BY <2>2, SendStartInv DEF send_packet, VM_PKT_DATA_INBAND, DescWords
  <2>3. CASE send_comp(n)
    BY <2>3, SendStartInv DEF send_comp, VM_PKT_COMP, DescWords
  <2>4. CASE send_packet_with_page_buffer(n)
    BY <2>4, SendStartInv DEF send_packet_with_page_buffer,
       VM_PKT_DATA_USING_GPA_DIRECT, PageBufferHeaderWords, DescWords
  <2>5. CASE HostXferPages(n)
    <3>1. PICK ranges \in XferRanges :
            SendStart(VM_PKT_DATA_USING_XFER_PAGES, XferHeaderWords(ranges), n)
      BY <2>5 DEF HostXferPages
    <3>2. XferHeaderWords(ranges) \in Nat /\ XferHeaderWords(ranges) >= DescWords
      BY XferAssumption DEF XferHeaderWords, DescWords
    <3> QED BY <3>1, <3>2, SendStartInv DEF VM_PKT_DATA_USING_XFER_PAGES
  <2> QED BY <2>1, <2>2, <2>3, <2>4, <2>5
<1>2. CASE copy_to
  BY <1>2, CopyToInv
<1>3. CASE SendPublish
  BY <1>3, SendPublishInv
<1>4. CASE Recv
  BY <1>4, RecvStartInv, Zenon DEF Recv, recv_packet, recv_packet_raw
<1>5. CASE copy_from
  BY <1>5, CopyFromInv
<1>6. CASE CheckDescriptor
  BY <1>6, CheckDescriptorInv
<1>7. CASE RecvAdvance
  BY <1>7, RecvAdvanceInv
<1>8. CASE UNCHANGED vars
  BY <1>8 DEF vars, ringVars, sendVars, recvVars, RingInv, TypeOK, CountsInv,
     LayoutInv, UnreadIntact, Unread, SendInv, RecvInv, NoCorrupt, WordsToRead
<1> QED BY <1>1, <1>2, <1>3, <1>4, <1>5, <1>6, <1>7, <1>8 DEF Next, Halted

(* The inductive invariant holds in every reachable state of the ring.     *)
THEOREM RingInvariant == Spec => []RingInv
BY InitInv, NextInv, PTL DEF Spec

(* For every ring size and every interleaving of the two sides: the fill   *)
(* level either side computes from the wrapped indices is the number of    *)
(* unread words, so a full ring is never taken for an empty one.           *)
THEOREM FillLevelIsExact == Spec => []IndicesTellFill
<1>1. RingInv => IndicesTellFill
  BY FillLevel DEF RingInv, TypeOK, CountsInv, IndicesTellFill
<1> QED BY <1>1, RingInvariant, PTL

(* No send operation overwrites a packet that has not been released. *)
THEOREM NoOverwrite == Spec => []UnreadIntact
<1>1. RingInv => UnreadIntact
  BY DEF RingInv
<1> QED BY <1>1, RingInvariant, PTL

(* Between two ends that follow the protocol, recv_packet and              *)
(* recv_packet_raw never return RingError::Corrupt.                        *)
THEOREM NeverCorrupt == Spec => []NoCorrupt
<1>1. RingInv => NoCorrupt
  BY DEF RingInv
<1> QED BY <1>1, RingInvariant, PTL

(***************************************************************************)
(* The ring implements a FIFO of packets.                                  *)
(***************************************************************************)

(* What is left of a sequence after its first m elements. *)
LEMMA RestOfSequence ==
  ASSUME NEW S, NEW s \in Seq(S), NEW m \in Nat, m <= Len(s)
  PROVE  LET q == [i \in 1 .. Len(s) - m |-> s[i + m]]
         IN /\ Len(s) - m \in Nat /\ q \in Seq(S) /\ Len(q) = Len(s) - m
            /\ \A i \in 1 .. Len(s) - m : i + m \in 1 .. Len(s) /\ q[i] = s[i + m]
<1>1. Len(s) \in Nat /\ Len(s) - m \in Nat
  OBVIOUS
<1>2. \A i \in 1 .. Len(s) - m : i + m \in 1 .. Len(s) /\ s[i + m] \in S
  BY <1>1
<1> QED BY <1>1, <1>2

(* A sequence that is another one from its second element on is its tail. *)
LEMMA IsTail ==
  ASSUME NEW S, NEW q \in Seq(S), NEW r \in Seq(S), NEW n \in Nat \ {0},
         Len(q) = n, Len(r) = n - 1, \A i \in 1 .. n - 1 : r[i] = q[i + 1]
  PROVE  r = Tail(q)
<1>1. Tail(q) \in Seq(S) /\ Len(Tail(q)) = n - 1
  OBVIOUS
<1>2. \A i \in 1 .. n - 1 : Tail(q)[i] = q[i + 1]
  OBVIOUS
<1>3. ASSUME NEW t \in Seq(S), Len(t) = n - 1
      PROVE  t = [i \in 1 .. n - 1 |-> t[i]]
  BY <1>3
<1>4. Tail(q) = [i \in 1 .. n - 1 |-> Tail(q)[i]]
  <2> DEFINE t == Tail(q)
  <2>1. t \in Seq(S) /\ Len(t) = n - 1
    BY <1>1
  <2> HIDE DEF t
  <2>2. t = [i \in 1 .. n - 1 |-> t[i]]
    BY <1>3, <2>1
  <2> QED BY <2>2 DEF t
<1>5. r = [i \in 1 .. n - 1 |-> r[i]]
  BY <1>3
<1>6. \A i \in 1 .. n - 1 : r[i] = Tail(q)[i]
  BY <1>2
<1> QED BY <1>4, <1>5, <1>6

(* Publishing a packet puts it at the end of the queue. *)
LEMMA PublishIsPut ==
  ASSUME RingInv, SendPublish
  PROVE  Q!Put
<1> DEFINE m == Len(received)
           n == Len(sent) - m
<1>1. /\ sent' = Append(sent, send_pkt) /\ received' = received
      /\ send_pkt \in Packet /\ sent \in Seq(Packet)
      /\ m \in Nat /\ Len(sent) \in Nat /\ m <= Len(sent)
  <2>1. sent' = Append(sent, send_pkt) /\ received' = received
    BY DEF SendPublish
  <2>2. /\ send_pkt \in Packet /\ sent \in Seq(Packet)
        /\ m \in Nat /\ Len(sent) \in Nat
    BY DEF RingInv, TypeOK
  <2>3. m <= Len(sent)
    BY DEF RingInv, LayoutInv
  <2> QED BY <2>1, <2>2, <2>3
<1>2. /\ sent' \in Seq(Packet) /\ Len(sent') = Len(sent) + 1
      /\ sent'[Len(sent) + 1] = send_pkt
      /\ \A i \in 1 .. Len(sent) : sent'[i] = sent[i]
  BY <1>1
<1>3. /\ n \in Nat /\ Queue \in Seq(Packet) /\ Len(Queue) = n
      /\ \A i \in 1 .. n : i + m \in 1 .. Len(sent) /\ Queue[i] = sent[i + m]
  BY <1>1, RestOfSequence DEF Queue
<1>4. /\ Queue' \in Seq(Packet) /\ Len(Queue') = Len(sent') - m
      /\ \A i \in 1 .. Len(sent') - m : Queue'[i] = sent'[i + m]
  <2>1. m <= Len(sent')
    BY <1>1, <1>2
  <2>2. Queue' = [i \in 1 .. Len(sent') - m |-> sent'[i + m]]
    BY <1>1 DEF Queue
  <2> HIDE DEF m
  <2> QED BY <1>1, <1>2, <2>1, <2>2, RestOfSequence, ZenonT(30)
<1>5. Len(sent') - m = n + 1 /\ (n + 1) + m = Len(sent) + 1
  BY <1>1, <1>2
<1>6. Len(Queue') = n + 1 /\ Queue'[n + 1] = send_pkt
  <2> HIDE DEF m, n
  <2> QED BY <1>2, <1>3, <1>4, <1>5
<1>7. \A i \in 1 .. n : Queue'[i] = Queue[i]
  <2> SUFFICES ASSUME NEW i \in 1 .. n PROVE Queue'[i] = Queue[i]
    OBVIOUS
  <2> HIDE DEF m, n
  <2>1. i \in 1 .. n + 1 /\ i + m \in 1 .. Len(sent) /\ Queue[i] = sent[i + m]
    BY <1>3
  <2>2. Queue'[i] = sent'[i + m]
    BY <1>4, <1>5, <2>1
  <2> QED BY <1>2, <2>1, <2>2
<1> HIDE DEF n, m
<1>8. Queue' = Append(Queue, send_pkt)
  BY <1>1, <1>3, <1>4, <1>6, <1>7
<1>9. Queue' # << >> /\ Queue'[Len(Queue')] = send_pkt
  BY <1>3, <1>6
<1> QED BY <1>1, <1>8, <1>9 DEF Q!Put

(* Releasing a packet takes the head of the queue and hands it over. *)
LEMMA AdvanceIsTake ==
  ASSUME RingInv, RecvAdvance
  PROVE  Q!Take(recv_raw)
<1> DEFINE m == Len(received)
           n == Len(sent) - m
           p == sent[m + 1]
<1>1. /\ m \in Nat /\ m < Len(sent) /\ received' = Append(received, Delivered(p, recv_raw))
  BY AdvanceEffect
<1>2. /\ sent' = sent /\ sent \in Seq(Packet) /\ Len(sent) \in Nat
      /\ received \in Seq([id : Nat, words : Seq(WordType)])
  BY DEF RecvAdvance, RingInv, TypeOK
<1>3. Len(received') = m + 1
  BY <1>1, <1>2
<1>4. /\ n \in Nat \ {0} /\ Queue \in Seq(Packet) /\ Len(Queue) = n
      /\ \A i \in 1 .. n : i + m \in 1 .. Len(sent) /\ Queue[i] = sent[i + m]
  BY <1>1, <1>2, RestOfSequence DEF Queue
<1>5. /\ Queue' \in Seq(Packet) /\ Len(Queue') = Len(sent) - (m + 1)
      /\ \A i \in 1 .. Len(sent) - (m + 1) : Queue'[i] = sent[i + (m + 1)]
  <2>1. m + 1 <= Len(sent) /\ m + 1 \in Nat
    BY <1>1, <1>2
  <2>2. Queue' = [i \in 1 .. Len(sent) - (m + 1) |-> sent[i + (m + 1)]]
    BY <1>2, <1>3 DEF Queue
  <2> HIDE DEF m
  <2> QED BY <1>2, <2>1, <2>2, RestOfSequence, Zenon
<1>6. Len(Queue') = n - 1 /\ \A i \in 1 .. n - 1 : Queue'[i] = Queue[i + 1]
  <2>1. Len(sent) - (m + 1) = n - 1
    BY <1>1, <1>2
  <2>2. ASSUME NEW i \in 1 .. n - 1
        PROVE  Queue'[i] = Queue[i + 1]
    <3>1. Queue'[i] = sent[i + (m + 1)]
      BY <1>5, <2>1
    <3>2. i + 1 \in 1 .. n /\ (i + 1) + m = i + (m + 1)
      BY <1>1, <1>4
    <3>3. Queue[i + 1] = sent[(i + 1) + m]
      BY <1>4, <3>2
    <3> QED BY <3>1, <3>2, <3>3
  <2> QED BY <1>5, <2>1, <2>2
<1>7. Queue # << >> /\ Head(Queue) = p
  <2>1. 1 \in 1 .. n /\ 1 + m = m + 1
    BY <1>1, <1>4
  <2>2. Queue[1] = p
    BY <1>4, <2>1
  <2> HIDE DEF n, m, p
  <2> QED BY <1>4, <2>2
<1> HIDE DEF n, m, p
<1>8. Queue' = Tail(Queue)
  <2>1. n \in Nat \ {0} /\ Queue \in Seq(Packet) /\ Len(Queue) = n
    BY <1>4
  <2>2. Queue' \in Seq(Packet)
    BY <1>5
  <2> QED BY ONLY <1>6, <2>1, <2>2, IsTail
<1> QED BY <1>1, <1>7, <1>8 DEF Q!Take

(* For every ring size, payload length and buffer size, the ring is a FIFO *)
(* of packets: a send that returns Ok puts its packet in, a receive that   *)
(* returns a packet hands over the oldest one whole and takes it out, and  *)
(* every other step changes nothing that either caller can see.            *)
THEOREM RingImplementsQueue == Spec => ImplementsQueue
<1>1. Init => Q!Init
  <2> SUFFICES ASSUME Init PROVE Queue = << >> /\ received = << >>
    BY DEF Q!Init
  <2> QED BY DEF Init, Queue
<1>2. RingInv /\ [Next]_vars => [Q!Next]_(Q!vars)
  <2> SUFFICES ASSUME RingInv, [Next]_vars PROVE [Q!Next]_(Q!vars)
    OBVIOUS
  <2>1. CASE SendPublish
    BY <2>1, PublishIsPut DEF Q!Next
  <2>2. CASE RecvAdvance
    <3>1. recv_raw \in BOOLEAN
      BY DEF RingInv, TypeOK
    <3> QED BY <2>2, <3>1, AdvanceIsTake DEF Q!Next
  <2>3. CASE sent' = sent /\ received' = received
    <3>1. Queue' = Queue
      BY <2>3, Zenon DEF Queue
    <3> QED BY <2>3, <3>1 DEF Q!vars
  <2>4. Send => sent' = sent /\ received' = received
    BY Zenon DEF Send, send_packet, send_comp, send_packet_with_page_buffer,
       HostXferPages, SendStart
  <2>5. Recv => sent' = sent /\ received' = received
    BY DEF Recv, recv_packet, recv_packet_raw, RecvStart
  <2>6. copy_to \/ copy_from \/ CheckDescriptor => sent' = sent /\ received' = received
    BY DEF copy_to, copy_from, CheckDescriptor
  <2>7. UNCHANGED vars => sent' = sent /\ received' = received
    BY DEF vars
  <2>8. SendPublish \/ RecvAdvance \/ (sent' = sent /\ received' = received)
    BY <2>4, <2>5, <2>6, <2>7 DEF Next, Halted
  <2> QED BY <2>1, <2>2, <2>3, <2>8
<1> QED BY <1>1, <1>2, RingInvariant, PTL DEF Spec, ImplementsQueue, Q!Spec

(***************************************************************************)
(* The scratch buffer of recv_packet.                                      *)
(***************************************************************************)
ShortHeader(p) ==
  p.type # VM_PKT_DATA_USING_XFER_PAGES => p.offset8 <= PageBufferHeaderWords

(* Only a transfer-page packet has a header whose length the sender picks. *)
HeadersInv ==
  /\ ShortHeader(send_pkt)
  /\ \A i \in 1 .. Len(sent) : ShortHeader(sent[i])
  /\ PanicsOnLongHeader

LEMMA ScratchIsSevenRanges == XferHeaderWords(7) = DescWords + SkipWords
BY DEF XferHeaderWords, DescWords, SkipWords

(* A step that touches neither `sent` nor `received` leaves the oldest     *)
(* unread packet the same.                                                 *)
LEMMA HeadersFrame ==
  ASSUME HeadersInv, sent' = sent, received' = received, ShortHeader(send_pkt'),
         \/ recv_pc' = recv_pc /\ recv_raw' = recv_raw
         \/ recv_pc' \in {"idle", "desc"}
  PROVE  HeadersInv'
<1>1. \A i \in 1 .. Len(sent') : ShortHeader(sent'[i])
  BY DEF HeadersInv
<1>2. CASE recv_pc' = recv_pc /\ recv_raw' = recv_raw
  <2>1. PanicsOnLongHeader'
    BY <1>2 DEF HeadersInv, PanicsOnLongHeader
  <2> QED BY <1>1, <2>1 DEF HeadersInv
<1>3. CASE recv_pc' \in {"idle", "desc"}
  <2>1. PanicsOnLongHeader'
    BY <1>3 DEF PanicsOnLongHeader
  <2> QED BY <1>1, <2>1 DEF HeadersInv
<1> QED BY <1>2, <1>3

(* For every ring size, packet and buffer: recv_packet panics on a         *)
(* transfer-page packet of more than 7 ranges and on nothing else, and     *)
(* recv_packet_raw never panics.                                           *)
THEOREM PanicsAreLongHeaders == Spec => []PanicsOnLongHeader
<1>1. Init => HeadersInv
  BY DEF Init, HeadersInv, ShortHeader, NoPacket, PanicsOnLongHeader,
     PageBufferHeaderWords
<1>2. RingInv /\ HeadersInv /\ [Next]_vars => HeadersInv'
  <2> SUFFICES ASSUME RingInv, HeadersInv, [Next]_vars PROVE HeadersInv'
    OBVIOUS
  <2>1. CASE Send
    <3>1. /\ sent' = sent /\ received' = received
          /\ recv_pc' = recv_pc /\ recv_raw' = recv_raw
      BY <2>1, Zenon DEF Send, send_packet, send_comp,
         send_packet_with_page_buffer, HostXferPages, SendStart, recvVars
    <3>2. ShortHeader(send_pkt')
      <4>1. ASSUME NEW type \in Nat, NEW header \in Nat, NEW n \in PayloadLens,
                   SendStart(type, header, n),
                   type # VM_PKT_DATA_USING_XFER_PAGES => header <= PageBufferHeaderWords
            PROVE  ShortHeader(send_pkt')
        BY <4>1 DEF SendStart, HeadersInv, ShortHeader
      <4>2. PICK n \in PayloadLens :
              \/ send_packet(n) \/ send_comp(n)
              \/ send_packet_with_page_buffer(n) \/ HostXferPages(n)
        BY <2>1 DEF Send
      <4>3. CASE HostXferPages(n)
        <5>1. PICK ranges \in XferRanges :
                SendStart(VM_PKT_DATA_USING_XFER_PAGES, XferHeaderWords(ranges), n)
          BY <4>3 DEF HostXferPages
        <5>2. XferHeaderWords(ranges) \in Nat /\ VM_PKT_DATA_USING_XFER_PAGES \in Nat
          BY XferAssumption DEF XferHeaderWords, VM_PKT_DATA_USING_XFER_PAGES
        <5> QED BY <4>1, <5>1, <5>2
      <4>4. CASE send_packet(n) \/ send_comp(n) \/ send_packet_with_page_buffer(n)
        BY <4>1, <4>4 DEF send_packet, send_comp, send_packet_with_page_buffer,
           VM_PKT_DATA_INBAND, VM_PKT_COMP, VM_PKT_DATA_USING_GPA_DIRECT,
           PageBufferHeaderWords, DescWords
      <4> QED BY <4>2, <4>3, <4>4
    <3> QED BY <3>1, <3>2, HeadersFrame
  <2>2. CASE SendPublish
    <3>1. /\ sent \in Seq(Packet) /\ sent' = Append(sent, send_pkt)
          /\ send_pkt \in Packet /\ send_pkt' = send_pkt
          /\ recv_pc' = recv_pc /\ recv_raw' = recv_raw /\ received' = received
      BY <2>2 DEF SendPublish, RingInv, TypeOK, recvVars
    <3>2. \A i \in 1 .. Len(sent') : ShortHeader(sent'[i])
      BY <3>1 DEF HeadersInv
    <3>3. recv_pc # "idle" => sent'[Len(received') + 1] = sent[Len(received) + 1]
      <4>1. received \in Seq([id : Nat, words : Seq(WordType)])
        BY DEF RingInv, TypeOK
      <4>2. recv_pc # "idle" => Len(received) + 1 \in 1 .. Len(sent)
        BY <3>1, <4>1 DEF RingInv, RecvInv
      <4> QED BY <3>1, <4>2
    <3>4. PanicsOnLongHeader'
      BY <3>1, <3>3 DEF HeadersInv, PanicsOnLongHeader
    <3> QED BY <3>1, <3>2, <3>4 DEF HeadersInv
  <2>3. CASE CheckDescriptor
    <3> DEFINE oldest == sent[Len(received) + 1]
    <3>1. /\ sent' = sent /\ received' = received /\ send_pkt' = send_pkt
          /\ recv_raw' = recv_raw
      BY <2>3 DEF CheckDescriptor, sendVars
    <3>2. /\ recv_pc' = IF ~recv_raw /\ oldest.offset8 > XferHeaderWords(7)
                          THEN "panic" ELSE "copy"
          /\ Len(received) + 1 \in 1 .. Len(sent)
      BY <2>3, CheckDescriptorInv, ScratchIsSevenRanges
    <3>3. ShortHeader(oldest) /\ oldest.offset8 \in Nat
      <4>1. oldest \in Packet
        BY <3>2 DEF RingInv, TypeOK
      <4> QED BY <3>2, <4>1 DEF HeadersInv, Packet
    <3> HIDE DEF oldest
    <3>4. oldest.offset8 > XferHeaderWords(7) =>
            oldest.type = VM_PKT_DATA_USING_XFER_PAGES
      BY <3>3 DEF ShortHeader, XferHeaderWords, PageBufferHeaderWords
    <3>5. oldest.offset8 > XferHeaderWords(7) \/ oldest.offset8 <= XferHeaderWords(7)
      BY <3>3 DEF XferHeaderWords
    <3>6. PanicsOnLongHeader'
      BY <3>1, <3>2, <3>4, <3>5 DEF PanicsOnLongHeader, oldest
    <3> QED BY <3>1, <3>6 DEF HeadersInv
  <2>4. CASE RecvAdvance
    <3>1. sent' = sent /\ send_pkt' = send_pkt /\ recv_pc' = "idle"
      BY <2>4 DEF RecvAdvance, sendVars
    <3> QED BY <3>1 DEF HeadersInv, PanicsOnLongHeader
  <2>5. CASE copy_to \/ Recv \/ copy_from \/ Halted \/ UNCHANGED vars
    <3>1. /\ sent' = sent /\ received' = received /\ send_pkt' = send_pkt
          /\ \/ recv_pc' = recv_pc /\ recv_raw' = recv_raw
             \/ recv_pc' \in {"idle", "desc"}
      BY <2>5 DEF copy_to, Recv, recv_packet, recv_packet_raw, RecvStart,
         copy_from, Halted, vars, sendVars, recvVars
    <3>2. ShortHeader(send_pkt')
      BY <3>1 DEF HeadersInv
    <3> QED BY <3>1, <3>2, HeadersFrame
  <2> QED BY <2>1, <2>2, <2>3, <2>4, <2>5 DEF Next
<1>3. HeadersInv => PanicsOnLongHeader
  BY DEF HeadersInv
<1> QED BY <1>1, <1>2, <1>3, RingInvariant, PTL DEF Spec
=============================================================================
