--------------------------- MODULE E1000Ring_proof ---------------------------
(***************************************************************************)
(* The descriptor rings of the e1000, for rings of any size and any number *)
(* of frames: who owns each descriptor (DescriptorsInv), that both rings   *)
(* are queues (RingsAreQueues), that NicE1000 panics on a bad frame only   *)
(* (PanicsOnBadFrameOnly) and that the card stays heard (StaysAlert).      *)
(*                                                                         *)
(* The registers count modulo the ring size.  The proof counts without     *)
(* wrapping: frame n lies in descriptor (n - 1) modulo the ring size, and  *)
(* each register is such a count of frames (RxInv and TxInv).              *)
(***************************************************************************)
EXTENDS E1000Ring, TLAPS

(* Receive descriptors the driver has given back *)
Returned ==
  IF pc \in {"rx_clear", "rx_return"} THEN Len(delivered) - 1
  ELSE IF pc = "panic_discard" THEN Len(delivered) + 1
  ELSE Len(delivered)

(* Frames the tail register has passed, and frames whose DD is set again   *)
Kicked == IF pc = "tx_kick" THEN posted - 1 ELSE posted
Done == Len(wire) - tx_owed

(* The descriptor of frame k + 1, in a ring of n *)
At(k, n) == k % n

(* The receive ring: the card is ahead of the driver by less than a ring,  *)
(* a frame not handed over is in its buffer, and DD marks the descriptors  *)
(* between the two.                                                        *)
RxCounts ==
  /\ delivered \in Seq(Nat) /\ arrived \in Nat
  /\ Returned \in Nat /\ Returned <= arrived /\ arrived < Returned + RX_RING_SIZE
  /\ pc \in {"rx", "rx_clear", "rx_return"} => Returned < arrived
  /\ RDH = At(arrived, RX_RING_SIZE)
  /\ RDT = At(Returned + (RX_RING_SIZE - 1), RX_RING_SIZE)
RxInOrder == \A i \in 1 .. Len(delivered) : delivered[i] = i
RxFrames == \A k \in Nat : Len(delivered) <= k /\ k < arrived => rx_buf[At(k, RX_RING_SIZE)] = k + 1
RxDone ==
  \A k \in Nat : Returned <= k /\ k < Returned + RX_RING_SIZE =>
    (rx_status[At(k, RX_RING_SIZE)].dd <=> k < arrived /\ ~(pc = "rx_return" /\ k = Returned))
RxInv == RxCounts /\ RxInOrder /\ RxFrames /\ RxDone

(* The transmit ring: all of it may be handed out, a frame not sent is in  *)
(* its buffer, and DD is clear in the descriptors from Done on; the task   *)
(* holds a token only while the next one is free.                          *)
TxCounts ==
  /\ wire \in Seq(Nat) /\ posted \in Nat /\ tx_owed \in Nat
  /\ tx_owed <= Len(wire) /\ Len(wire) <= Kicked /\ posted <= Done + TX_RING_SIZE
  /\ pc \in {"rx", "rx_clear", "rx_return", "reply", "tx"} => posted < Done + TX_RING_SIZE
  /\ TDH = At(Len(wire), TX_RING_SIZE)
  /\ TDT = At(Kicked, TX_RING_SIZE)
TxInOrder == \A i \in 1 .. Len(wire) : wire[i] = i
TxFrames == \A k \in Nat : Len(wire) <= k /\ k < posted => tx_buf[At(k, TX_RING_SIZE)] = k + 1
TxDone ==
  \A k \in Nat : Done <= k /\ k < Done + TX_RING_SIZE =>
    (tx_dd[At(k, TX_RING_SIZE)] <=> posted <= k)
TxInv == TxCounts /\ TxInOrder /\ TxFrames /\ TxDone

(* drop frees only after it has asked for the reset. *)
DropInv ==
  /\ pc = "drop_wait" => card # "running"
  /\ freed => pc = "gave_up" \/ (pc = "dropped" /\ card = "reset")

Inv == TypeOK /\ RxInv /\ TxInv /\ DropInv

-----------------------------------------------------------------------------
(* Arithmetic of the rings *)

(* An index is a count without its whole turns of the ring. *)
LEMMA Turns ==
  ASSUME NEW n \in Nat \ {0}, NEW a \in Int
  PROVE  a % n \in 0 .. n - 1 /\ a \div n \in Int /\ a = n * (a \div n) + (a % n)
OBVIOUS

(* Counts at the same index are whole turns apart: less than one turn      *)
(* apart, they are equal.                                                  *)
LEMMA SameIndex ==
  ASSUME NEW n \in Nat \ {0}, NEW a \in Int, NEW b \in Int,
         NEW p \in Int, NEW q \in Int, NEW r \in Int,
         a = n * p + r, b = n * q + r, a - b < n, b - a < n
  PROVE  a = b
<1>1. a - b = n * (p - q) /\ b - a = n * (q - p)
  OBVIOUS
<1>2. CASE p - q >= 1
  <2>1. n * (p - q) >= n
    BY <1>2
  <2> QED BY <1>1, <2>1
<1>3. CASE q - p >= 1
  <2>1. n * (q - p) >= n
    BY <1>3
  <2> QED BY <1>1, <2>1
<1>4. CASE p = q
  BY <1>4
<1> QED BY <1>2, <1>3, <1>4

(* Two descriptors less than a turn apart are different ones. *)
LEMMA Apart ==
  ASSUME NEW n \in Nat \ {0}, NEW a \in Int, NEW b \in Int,
         a % n = b % n, a - b < n, b - a < n
  PROVE  a = b
<1>1. /\ a = n * (a \div n) + (a % n) /\ a \div n \in Int /\ a % n \in Int
      /\ b = n * (b \div n) + (a % n) /\ b \div n \in Int
  BY Turns
<1> QED BY <1>1, SameIndex, Zenon

(* A count that is r and some whole turns is at index r. *)
LEMMA IndexIs ==
  ASSUME NEW n \in Nat \ {0}, NEW a \in Int, NEW p \in Int, NEW r \in 0 .. n - 1,
         a = n * p + r
  PROVE  a % n = r
<1> DEFINE s == a % n
           t == a \div n
<1>1. s \in 0 .. n - 1 /\ t \in Int /\ a = n * t + s
  BY Turns
<1> HIDE DEF s, t
<1>2. a - r = n * p + 0 /\ a - s = n * t + 0 /\ a - r \in Int /\ a - s \in Int
  BY <1>1
<1>3. (a - r) - (a - s) < n /\ (a - s) - (a - r) < n
  BY <1>1
<1>4. a - r = a - s
  BY <1>1, <1>2, <1>3, 0 \in Int, SameIndex, Zenon
<1>5. r = s
  BY <1>1, <1>4
<1> QED BY <1>5 DEF s

(* An index that moves by d is the index of the count that moves by d. *)
LEMMA Move ==
  ASSUME NEW n \in Nat \ {0}, NEW a \in Int, NEW d \in Int
  PROVE  ((a % n) + d) % n = (a + d) % n
<1> DEFINE m == a % n
           p == a \div n
           r == (m + d) % n
           q == (m + d) \div n
<1>1. m \in Int /\ p \in Int /\ a = n * p + m
  BY Turns
<1>2. r \in 0 .. n - 1 /\ q \in Int /\ m + d = n * q + r
  BY <1>1, m + d \in Int, Turns
<1> HIDE DEF m, p, r, q
<1>3. n * (p + q) = n * p + n * q /\ p + q \in Int
  BY <1>1, <1>2
<1>4. a + d = n * (p + q) + r /\ a + d \in Int
  BY <1>1, <1>2, <1>3
<1>5. (a + d) % n = r
  BY <1>2, <1>3, <1>4, IndexIs, Zenon
<1> QED BY <1>5 DEF r, m

(* A whole turn changes no index. *)
LEMMA FullTurn ==
  ASSUME NEW n \in Nat \ {0}, NEW a \in Int
  PROVE  (a + n) % n = a % n
<1> DEFINE m == a % n
           p == a \div n
<1>1. m \in 0 .. n - 1 /\ p \in Int /\ a = n * p + m
  BY Turns
<1> HIDE DEF m, p
<1>2. a + n = n * (p + 1) + m /\ p + 1 \in Int /\ a + n \in Int
  BY <1>1
<1>3. (a + n) % n = m
  BY <1>1, <1>2, IndexIs
<1> QED BY <1>3 DEF m

(* How far one index is ahead of another is how far its count is. *)
LEMMA Distance ==
  ASSUME NEW n \in Nat \ {0}, NEW a \in Int, NEW b \in Int, a <= b, b - a < n
  PROVE  ((b % n) - (a % n)) % n = b - a
<1> DEFINE x == a % n
           p == a \div n
           y == b % n
           q == b \div n
<1>1. x \in Int /\ p \in Int /\ a = n * p + x
  BY Turns
<1>2. y \in Int /\ q \in Int /\ b = n * q + y
  BY Turns
<1> HIDE DEF x, p, y, q
<1>3. y - x = n * (p - q) + (b - a) /\ y - x \in Int /\ p - q \in Int
  BY <1>1, <1>2
<1>4. b - a \in 0 .. n - 1
  OBVIOUS
<1>5. (y - x) % n = b - a
  BY <1>3, <1>4, IndexIs, Zenon
<1> QED BY <1>5 DEF x, y

(* Every descriptor is at the index of one count of a turn. *)
LEMMA Covered ==
  ASSUME NEW n \in Nat \ {0}, NEW a \in Nat, NEW i \in 0 .. n - 1
  PROVE  \E k \in Nat : a <= k /\ k < a + n /\ k % n = i
<1> DEFINE m == i - a
           k == (m % n) + a
<1>1. m \in Int /\ m + a = i
  OBVIOUS
<1> HIDE DEF m
<1>2. m % n \in 0 .. n - 1
  BY <1>1, Turns
<1>3. k \in Nat /\ a <= k /\ k < a + n
  BY <1>2
<1>4. k % n = (m + a) % n
  BY <1>1, a \in Int, Move, Zenon
<1>5. i % n = i
  BY i = n * 0 + i, i \in Int, 0 \in Int, IndexIs
<1> QED BY <1>1, <1>3, <1>4, <1>5

(* The same facts for descriptors: a frame has a descriptor, ... *)
LEMMA Place ==
  ASSUME NEW n \in Nat \ {0}, NEW k \in Int
  PROVE  At(k, n) \in 0 .. n - 1
BY Turns DEF At

(* ... the next frame has the next one, ... *)
LEMMA NextPlace ==
  ASSUME NEW n \in Nat \ {0}, NEW k \in Int
  PROVE  (At(k, n) + 1) % n = At(k + 1, n)
BY 1 \in Int, Move, Zenon DEF At

(* ... it comes round after a turn, ... *)
LEMMA PlaceAgain ==
  ASSUME NEW n \in Nat \ {0}, NEW k \in Int
  PROVE  At(k + n, n) = At(k, n)
BY FullTurn, Zenon DEF At

(* ... and not before, ... *)
LEMMA PlacesApart ==
  ASSUME NEW n \in Nat \ {0}, NEW j \in Int, NEW k \in Int,
         j # k, j - k < n, k - j < n
  PROVE  At(j, n) # At(k, n)
BY Apart, Zenon DEF At

(* ... and a turn reaches every descriptor. *)
LEMMA EveryPlace ==
  ASSUME NEW n \in Nat \ {0}, NEW a \in Nat, NEW i \in 0 .. n - 1
  PROVE  \E k \in Nat : a <= k /\ k < a + n /\ i = At(k, n)
BY Covered, Zenon DEF At

(* Some steps on from a descriptor lies the one of the frame that many     *)
(* frames later ...                                                        *)
LEMMA PlaceFrom ==
  ASSUME NEW n \in Nat \ {0}, NEW k \in Int, NEW d \in Int
  PROVE  (At(k, n) + d) % n = At(k + d, n)
BY Move, Zenon DEF At

(* ... and conversely, within a turn. *)
LEMMA StepsBetween ==
  ASSUME NEW n \in Nat \ {0}, NEW j \in Int, NEW k \in Int, j <= k, k - j < n
  PROVE  (At(k, n) - At(j, n)) % n = k - j
BY Distance, Zenon DEF At
-----------------------------------------------------------------------------
(* The receive ring *)

(* recv_with looks at the first descriptor not given back, and the card    *)
(* stops before the last one that was.                                     *)
LEMMA RxPlaces ==
  ASSUME RxCounts
  PROVE  /\ RX_RING_SIZE \in Nat \ {0} /\ Returned \in Nat /\ arrived \in Nat
         /\ Len(delivered) \in Nat
         /\ rindex = At(Returned, RX_RING_SIZE) /\ rindex \in RxIndices
         /\ rindex = At(Returned + RX_RING_SIZE, RX_RING_SIZE)
         /\ RDH \in RxIndices
         /\ RDH # RDT => arrived + 1 < Returned + RX_RING_SIZE
<1> PICK n \in Nat \ {0} : n = RX_RING_SIZE
  BY SizesAssumption
<1> PICK r \in Nat : r = Returned
  BY DEF RxCounts
<1>1. /\ arrived \in Nat /\ arrived < r + n /\ Len(delivered) \in Nat
      /\ RDT = At(r + (n - 1), n) /\ RDH = At(arrived, n)
  BY DEF RxCounts
<1>2. (RDT + 1) % n = At(r + (n - 1) + 1, n)
  BY <1>1, r + (n - 1) \in Int, NextPlace
<1>3. r + (n - 1) + 1 = r + n
  OBVIOUS
<1>4. rindex = At(r + n, n)
  BY <1>2, <1>3 DEF rindex
<1>5. rindex = At(r, n)
  BY <1>4, r \in Int, PlaceAgain
<1>6. rindex \in RxIndices /\ RDH \in RxIndices
  BY <1>1, <1>5, r \in Int, arrived \in Int, Place DEF RxIndices
<1>7. RDH # RDT => arrived # r + (n - 1)
  BY <1>1
<1>8. RDH # RDT => arrived + 1 < r + n
  BY <1>1, <1>7
<1> QED BY <1>1, <1>4, <1>5, <1>6, <1>8

(* The places where the driver has a descriptor between two steps *)
MidReceive == {"rx_clear", "rx_return", "panic_discard"}

(* Whoever does not touch the receive ring keeps its invariant; the task   *)
(* is handed a receive token only when a frame waits.                      *)
LEMMA RxAside ==
  ASSUME RxInv, UNCHANGED rxVars,
         \/ pc' = pc
         \/ /\ pc \notin MidReceive /\ pc' \notin MidReceive
            /\ pc' = "rx" => has_rx_packet
  PROVE  RxInv'
<1> USE DEF RxInv, rxVars
<1>1. Returned' = Returned /\ (pc' = "rx_return" <=> pc = "rx_return")
  BY DEF Returned, MidReceive
<1>2. has_rx_packet => Returned < arrived
  <2>1. /\ rindex = At(Returned, RX_RING_SIZE) /\ Returned \in Nat
        /\ RX_RING_SIZE \in Nat \ {0}
    BY RxPlaces
  <2>2. rx_status[At(Returned, RX_RING_SIZE)].dd => Returned < arrived
    BY <2>1 DEF RxDone
  <2> QED BY <2>1, <2>2 DEF has_rx_packet
<1>3. RxCounts'
  BY <1>1, <1>2 DEF RxCounts, MidReceive
<1>4. RxInOrder' /\ RxFrames'
  BY DEF RxInOrder, RxFrames
<1>5. RxDone'
  BY <1>1 DEF RxDone
<1> QED BY <1>3, <1>4, <1>5

(* recv_with: a good frame is the next one in order, and a bad one goes    *)
(* back to the card with its descriptor.                                   *)
LEMMA RecvWithRx == ASSUME TypeOK, RxInv, recv_with PROVE RxInv'
<1> PICK n \in Nat \ {0} : n = RX_RING_SIZE
  BY SizesAssumption
<1> PICK r \in Nat : r = Returned
  BY RxPlaces DEF RxInv
<1>1. arrived \in Nat /\ rindex = At(r, n)
  BY RxPlaces DEF RxInv
<1>1a. rindex = At(r + n, n)
  BY RxPlaces DEF RxInv
<1>2. /\ delivered \in Seq(Nat) /\ r = Len(delivered) /\ r < arrived /\ arrived < r + n
      /\ RDH = At(arrived, n) /\ RDT = At(r + (n - 1), n)
  BY DEF recv_with, RxInv, RxCounts, Returned
<1>3. rx_buf' = rx_buf /\ RDH' = RDH /\ arrived' = arrived /\ pc = "rx"
  BY DEF recv_with
<1>4. rx_status \in [0 .. n - 1 -> [dd : BOOLEAN, eop : BOOLEAN, errors : BOOLEAN]]
  BY DEF TypeOK, RxIndices
<1>5. RxInOrder /\ RxFrames /\ RxDone
  BY DEF RxInv
<1>6. CASE pc' = "panic" /\ UNCHANGED <<rx_status, RDT, delivered>>
  BY <1>3, <1>6, RxAside DEF MidReceive, rxVars
<1>7. CASE /\ rx_status' = [rx_status EXCEPT ![rindex] = Cleared] /\ RDT' = rindex
           /\ pc' = "panic_discard" /\ UNCHANGED delivered
  <2>1. Returned' = r + 1
    BY <1>2, <1>7 DEF Returned
  <2>2. RxCounts'
    <3>1. r + 1 \in Nat /\ r + 1 <= arrived /\ arrived < r + 1 + n /\ r + 1 + (n - 1) = r + n
      BY <1>1, <1>2
    <3> QED BY <1>1, <1>2, <1>3, <1>7, <1>1a, <2>1, <3>1 DEF RxCounts
  <2>3. RxInOrder' /\ RxFrames'
    BY <1>3, <1>5, <1>7 DEF RxInOrder, RxFrames
  <2>4. ASSUME NEW k \in Nat, r + 1 <= k, k < r + 1 + n
        PROVE  rx_status'[At(k, n)].dd <=> k < arrived
    <3> DEFINE i == At(k, n)
    <3>3. i \in 0 .. n - 1
      BY k \in Int, Place
    <3> HIDE DEF i
    <3>4. rx_status'[i] = IF i = rindex THEN Cleared ELSE rx_status[i]
      BY <1>4, <1>7, <3>3
    <3>1. CASE k = r + n
      <4>1. rx_status'[i] = Cleared
        BY <1>1a, <3>1, <3>4 DEF i
      <4> QED BY <1>1, <1>2, <3>1, <4>1 DEF Cleared, i
    <3>2. CASE k # r + n
      <4>1. k # r /\ r - k < n /\ k - r < n
        BY <1>1, <2>4, <3>2
      <4>2. rx_status'[i] = rx_status[i]
        BY <1>1, <3>4, <4>1, k \in Int, r \in Int, PlacesApart, Zenon DEF i
      <4>3. rx_status[At(k, n)].dd <=> k < arrived
        BY <1>1, <1>3, <1>5, <2>4, <3>2 DEF RxDone
      <4> QED BY <4>2, <4>3 DEF i
    <3> QED BY <3>1, <3>2
  <2>5. RxDone'
    BY <1>1, <1>3, <1>7, <2>1, <2>4 DEF RxDone
  <2> QED BY <2>2, <2>3, <2>5 DEF RxInv
<1>8. CASE /\ delivered' = Append(delivered, rx_buf[rindex])
           /\ pc' = "rx_clear" /\ UNCHANGED <<rx_status, RDT>>
  <2>1. rx_buf[rindex] = r + 1
    <3>1. rx_buf[At(r, n)] = r + 1
      BY <1>1, <1>2, <1>5 DEF RxFrames
    <3> QED BY <1>1, <3>1
  <2>2. delivered' \in Seq(Nat) /\ Len(delivered') = r + 1
    BY <1>1, <1>2, <1>8, <2>1
  <2>3. Returned' = r
    BY <1>1, <1>8, <2>2 DEF Returned
  <2>4. RxCounts'
    BY <1>1, <1>2, <1>3, <1>8, <2>2, <2>3 DEF RxCounts
  <2>5. RxInOrder'
    <3>1. \A i \in 1 .. r : delivered'[i] = delivered[i]
      BY <1>2, <1>8
    <3>2. delivered'[r + 1] = r + 1
      BY <1>1, <1>2, <1>8, <2>1
    <3>3. \A i \in 1 .. r : delivered[i] = i
      BY <1>2, <1>5 DEF RxInOrder
    <3>4. \A i \in 1 .. r + 1 : i \in 1 .. r \/ i = r + 1
      BY <1>1
    <3>5. \A i \in 1 .. r + 1 : delivered'[i] = i
      BY ONLY <3>1, <3>2, <3>3, <3>4
    <3> QED BY <2>2, <3>5 DEF RxInOrder
  <2>6. RxFrames'
    BY <1>1, <1>2, <1>3, <1>5, <2>2 DEF RxFrames
  <2>7. RxDone'
    BY <1>3, <1>5, <1>8, <2>3 DEF RxDone
  <2> QED BY <2>4, <2>5, <2>6, <2>7 DEF RxInv
<1> QED BY <1>6, <1>7, <1>8 DEF recv_with

(* ... blanks only the frame it has handed over, ... *)
LEMMA RecvClearRx == ASSUME TypeOK, RxInv, recv_clear PROVE RxInv'
<1> PICK n \in Nat \ {0} : n = RX_RING_SIZE
  BY SizesAssumption
<1> PICK r \in Nat : r = Returned
  BY RxPlaces DEF RxInv
<1>1. arrived \in Nat /\ rindex = At(r, n)
  BY RxPlaces DEF RxInv
<1>2. /\ delivered \in Seq(Nat) /\ Len(delivered) = r + 1 /\ r < arrived /\ arrived < r + n
      /\ RDH = At(arrived, n) /\ RDT = At(r + (n - 1), n)
  BY DEF recv_clear, RxInv, RxCounts, Returned
<1>3. /\ rx_status' = [rx_status EXCEPT ![rindex] = Cleared]
      /\ rx_buf' = [rx_buf EXCEPT ![rindex] = 0] /\ pc = "rx_clear" /\ pc' = "rx_return"
      /\ UNCHANGED <<RDH, RDT, arrived, delivered>>
  BY DEF recv_clear
<1>4. /\ rx_status \in [0 .. n - 1 -> [dd : BOOLEAN, eop : BOOLEAN, errors : BOOLEAN]]
      /\ rx_buf \in [0 .. n - 1 -> 0 .. MaxRx]
  BY DEF TypeOK, RxIndices
<1>5. RxInOrder /\ RxFrames /\ RxDone
  BY DEF RxInv
<1>6. Returned' = r
  BY <1>3 DEF Returned
<1>7. RxCounts'
  BY <1>1, <1>2, <1>3, <1>6 DEF RxCounts
<1>8. RxInOrder'
  BY <1>3, <1>5 DEF RxInOrder
<1>9. ASSUME NEW i \in 0 .. n - 1
      PROVE  /\ rx_buf'[i] = IF i = rindex THEN 0 ELSE rx_buf[i]
             /\ rx_status'[i] = IF i = rindex THEN Cleared ELSE rx_status[i]
  BY <1>3, <1>4
<1>10. ASSUME NEW k \in Nat, r < k, k < r + n
       PROVE  rx_buf'[At(k, n)] = rx_buf[At(k, n)] /\ rx_status'[At(k, n)] = rx_status[At(k, n)]
  <2>1. At(k, n) \in 0 .. n - 1
    BY k \in Int, Place
  <2>2. At(k, n) # At(r, n)
    BY <1>10, k \in Int, r \in Int, PlacesApart
  <2> QED BY <1>1, <1>9, <2>1, <2>2
<1>11. RxFrames'
  <2>1. ASSUME NEW k \in Nat, r + 1 <= k, k < arrived PROVE rx_buf'[At(k, n)] = k + 1
    <3>1. rx_buf[At(k, n)] = k + 1
      BY <1>2, <1>5, <2>1 DEF RxFrames
    <3>2. rx_buf'[At(k, n)] = rx_buf[At(k, n)]
      BY <1>1, <1>2, <1>10, <2>1
    <3> QED BY <3>1, <3>2
  <2> QED BY <1>2, <1>3, <2>1 DEF RxFrames
<1>12. RxDone'
  <2>1. ASSUME NEW k \in Nat, r <= k, k < r + n
        PROVE  rx_status'[At(k, n)].dd <=> k < arrived /\ k # r
    <3>1. CASE k = r
      <4>1. rindex \in 0 .. n - 1
        BY <1>1, r \in Int, Place
      <4>2. rx_status'[At(k, n)] = Cleared
        BY <1>1, <1>9, <3>1, <4>1
      <4> QED BY <3>1, <4>2 DEF Cleared
    <3>2. CASE k # r
      <4>1. rx_status'[At(k, n)] = rx_status[At(k, n)]
        BY <1>10, <2>1, <3>2
      <4>2. rx_status[At(k, n)].dd <=> k < arrived
        BY <1>3, <1>5, <2>1 DEF RxDone
      <4> QED BY <3>2, <4>1, <4>2
    <3> QED BY <3>1, <3>2
  <2> QED BY <1>3, <1>6, <2>1 DEF RxDone
<1> QED BY <1>7, <1>8, <1>11, <1>12 DEF RxInv

(* ... and gives back a descriptor whose DD is clear. *)
LEMMA RecvReturnRx == ASSUME RxInv, recv_return PROVE RxInv'
<1> PICK n \in Nat \ {0} : n = RX_RING_SIZE
  BY SizesAssumption
<1> PICK r \in Nat : r = Returned
  BY RxPlaces DEF RxInv
<1>1. arrived \in Nat /\ rindex = At(r, n)
  BY RxPlaces DEF RxInv
<1>2. rindex = At(r + n, n)
  BY RxPlaces DEF RxInv
<1>3. /\ delivered \in Seq(Nat) /\ Len(delivered) = r + 1 /\ r < arrived /\ arrived < r + n
      /\ RDH = At(arrived, n)
  BY DEF recv_return, RxInv, RxCounts, Returned
<1>4. /\ RDT' = rindex /\ pc = "rx_return" /\ pc' = "reply"
      /\ UNCHANGED <<rx_status, rx_buf, RDH, arrived, delivered>>
  BY DEF recv_return
<1>5. RxInOrder /\ RxFrames /\ RxDone
  BY DEF RxInv
<1>6. Returned' = r + 1
  BY <1>3, <1>4 DEF Returned
<1>7. RxCounts'
  <2>1. r + 1 + (n - 1) = r + n
    OBVIOUS
  <2> QED BY <1>1, <1>2, <1>3, <1>4, <1>6, <2>1 DEF RxCounts
<1>8. RxInOrder' /\ RxFrames'
  BY <1>4, <1>5 DEF RxInOrder, RxFrames
<1>9. ASSUME NEW k \in Nat, r + 1 <= k, k < r + 1 + n
      PROVE  rx_status[At(k, n)].dd <=> k < arrived
  <2>1. CASE k = r + n
    <3>1. ~rx_status[At(r, n)].dd
      BY <1>4, <1>5 DEF RxDone
    <3> QED BY <1>1, <1>2, <1>3, <2>1, <3>1
  <2>2. CASE k # r + n
    BY <1>5, <1>9, <2>2 DEF RxDone
  <2> QED BY <2>1, <2>2
<1>10. RxDone'
  BY <1>4, <1>6, <1>9 DEF RxDone
<1> QED BY <1>7, <1>8, <1>10 DEF RxInv

(* The card fills a descriptor it has been given, never one with a frame.  *)
LEMMA CardReceivesRx == ASSUME TypeOK, RxInv, CardReceives PROVE RxInv'
<1> PICK n \in Nat \ {0} : n = RX_RING_SIZE
  BY SizesAssumption
<1> PICK r \in Nat : r = Returned
  BY RxPlaces DEF RxInv
<1> PICK a \in Nat : a = arrived
  BY RxPlaces DEF RxInv
<1> PICK d \in Nat : d = Len(delivered)
  BY RxPlaces DEF RxInv
<1> PICK s \in Written : rx_status' = [rx_status EXCEPT ![RDH] = s]
  BY Zenon DEF CardReceives
<1>1. /\ delivered \in Seq(Nat) /\ r <= d + 1 /\ d <= r + 1
      /\ r <= a /\ (pc = "rx_return" => r < a)
      /\ RDH = At(a, n) /\ RDT = At(r + (n - 1), n)
  BY DEF RxInv, RxCounts, Returned
<1>2. a + 1 < r + n
  BY RxPlaces DEF CardReceives, RxInv
<1>3. /\ rx_buf' = [rx_buf EXCEPT ![RDH] = a + 1] /\ arrived' = a + 1
      /\ RDH' = (RDH + 1) % n
      /\ UNCHANGED <<RDT, delivered, pc>>
  BY DEF CardReceives
<1>4. /\ rx_status \in [0 .. n - 1 -> [dd : BOOLEAN, eop : BOOLEAN, errors : BOOLEAN]]
      /\ rx_buf \in [0 .. n - 1 -> 0 .. MaxRx] /\ s.dd = TRUE
  BY Zenon DEF TypeOK, RxIndices, Written
<1>5. RxInOrder /\ RxFrames /\ RxDone
  BY DEF RxInv
<1>6. Returned' = r
  BY <1>3 DEF Returned
<1>7. RDH' = At(a + 1, n)
  BY <1>1, <1>3, a \in Int, NextPlace
<1>8. RxCounts'
  BY <1>1, <1>2, <1>3, <1>6, <1>7 DEF RxInv, RxCounts
<1>9. RxInOrder'
  BY <1>3, <1>5 DEF RxInOrder
<1>10. ASSUME NEW i \in 0 .. n - 1
       PROVE  /\ rx_buf'[i] = IF i = RDH THEN a + 1 ELSE rx_buf[i]
              /\ rx_status'[i] = IF i = RDH THEN s ELSE rx_status[i]
  BY <1>3, <1>4
<1>11. ASSUME NEW k \in Nat, k # a, k - a < n, a - k < n
       PROVE  rx_buf'[At(k, n)] = rx_buf[At(k, n)] /\ rx_status'[At(k, n)] = rx_status[At(k, n)]
  <2>1. At(k, n) \in 0 .. n - 1
    BY k \in Int, Place
  <2>2. At(k, n) # At(a, n)
    BY <1>11, k \in Int, a \in Int, PlacesApart
  <2> QED BY <1>1, <1>10, <2>1, <2>2
<1>12. rx_buf'[At(a, n)] = a + 1 /\ rx_status'[At(a, n)] = s
  <2>1. At(a, n) \in 0 .. n - 1
    BY a \in Int, Place
  <2> QED BY <1>1, <1>10, <2>1
<1>13. RxFrames'
  <2>1. ASSUME NEW k \in Nat, d <= k, k < a + 1 PROVE rx_buf'[At(k, n)] = k + 1
    <3>1. CASE k = a
      BY <1>12, <3>1
    <3>2. CASE k # a
      <4>1. rx_buf[At(k, n)] = k + 1
        BY <1>5, <2>1, <3>2 DEF RxFrames
      <4>2. rx_buf'[At(k, n)] = rx_buf[At(k, n)]
        BY <1>1, <1>2, <1>11, <2>1, <3>2
      <4> QED BY <4>1, <4>2
    <3> QED BY <3>1, <3>2
  <2> QED BY <1>3, <2>1 DEF RxFrames
<1>14. RxDone'
  <2>1. ASSUME NEW k \in Nat, r <= k, k < r + n
        PROVE  rx_status'[At(k, n)].dd <=> k < a + 1 /\ ~(pc = "rx_return" /\ k = r)
    <3>1. CASE k = a
      BY <1>1, <1>4, <1>12, <3>1
    <3>2. CASE k # a
      <4>1. rx_status'[At(k, n)] = rx_status[At(k, n)]
        BY <1>1, <1>2, <1>11, <2>1, <3>2
      <4>2. rx_status[At(k, n)].dd <=> k < a /\ ~(pc = "rx_return" /\ k = r)
        BY <1>5, <2>1 DEF RxDone
      <4> QED BY <3>2, <4>1, <4>2
    <3> QED BY <3>1, <3>2
  <2> QED BY <1>3, <1>6, <2>1 DEF RxDone
<1> QED BY <1>8, <1>9, <1>13, <1>14 DEF RxInv
-----------------------------------------------------------------------------
(* The transmit ring *)

(* The tail register is the place of the next frame, and DD is set there   *)
(* exactly when not all of the ring is handed out.                         *)
LEMMA TxPlaces ==
  ASSUME TxInv
  PROVE  /\ TX_RING_SIZE \in Nat \ {0} /\ Len(wire) \in Nat /\ Kicked \in Nat /\ Done \in Nat
         /\ TDH \in TxIndices /\ TDT \in TxIndices
         /\ TDH # TDT => Len(wire) < Kicked
         /\ pc # "tx_kick" /\ has_tx_space => posted < Done + TX_RING_SIZE
         /\ pc # "tx_kick" /\ posted < Done + TX_RING_SIZE => has_tx_space
<1> PICK n \in Nat \ {0} : n = TX_RING_SIZE
  BY SizesAssumption
<1>1. /\ Len(wire) \in Nat /\ Kicked \in Nat /\ Done \in Nat
      /\ Len(wire) <= Kicked /\ TDH = At(Len(wire), n) /\ TDT = At(Kicked, n)
      /\ posted \in Nat /\ Done <= posted /\ posted <= Done + n
  BY DEF TxInv, TxCounts, Done, Kicked
<1>2. TDH # TDT => Len(wire) < Kicked
  BY <1>1
<1>3. TDH \in TxIndices /\ TDT \in TxIndices
  BY <1>1, Len(wire) \in Int, Kicked \in Int, Place DEF TxIndices
<1> PICK e \in Nat : e = Done
  BY <1>1
<1> PICK p \in Nat : p = posted
  BY <1>1
<1>4. e <= p /\ p <= e + n
  BY <1>1
<1>5. TxDone
  BY DEF TxInv
<1>6. ASSUME pc # "tx_kick", has_tx_space PROVE p < e + n
  <2>1. tx_dd[At(p, n)]
    BY <1>1, <1>6 DEF has_tx_space, tindex, Kicked
  <2>2. CASE p = e + n
    <3>1. At(p, n) = At(e, n)
      BY <2>2, e \in Int, PlaceAgain
    <3>2. tx_dd[At(e, n)]
      BY <2>1, <3>1
    <3>3. p <= e
      BY <1>5, <3>2 DEF TxDone
    <3> QED BY <2>2, <3>3
  <2> QED BY <1>4, <2>2
<1>7. ASSUME pc # "tx_kick", p < e + n PROVE has_tx_space
  <2>1. tx_dd[At(p, n)]
    BY <1>4, <1>5, <1>7 DEF TxDone
  <2> QED BY <1>1, <1>7, <2>1 DEF has_tx_space, tindex, Kicked
<1> QED BY <1>1, <1>2, <1>3, <1>6, <1>7

(* The places where the task holds a token for the next transmit           *)
(* descriptor *)
TxToken == {"rx", "rx_clear", "rx_return", "reply", "tx"}

(* Whoever does not touch the transmit ring keeps its invariant; the task  *)
(* is handed a transmit token only when DD is set.                         *)
LEMMA TxAside ==
  ASSUME TxInv, UNCHANGED txVars,
         \/ pc' = pc
         \/ /\ pc # "tx_kick" /\ pc' # "tx_kick"
            /\ pc' \in TxToken => pc \in TxToken \/ has_tx_space
  PROVE  TxInv'
<1> USE DEF txVars
<1>1. Kicked' = Kicked /\ Done' = Done
  BY DEF Kicked, Done
<1>2. pc # "tx_kick" /\ has_tx_space => posted < Done + TX_RING_SIZE
  BY TxPlaces
<1>3. pc' \in TxToken => posted < Done + TX_RING_SIZE
  BY <1>2 DEF TxInv, TxCounts, TxToken
<1>4. TxCounts'
  BY <1>1, <1>3 DEF TxInv, TxCounts, TxToken
<1>5. TxInOrder' /\ TxFrames'
  BY DEF TxInv, TxInOrder, TxFrames
<1>6. TxDone'
  BY <1>1 DEF TxInv, TxDone
<1> QED BY <1>4, <1>5, <1>6 DEF TxInv

(* transmit_with finds DD set, and fills the descriptor of the next frame. *)
LEMMA TransmitWithTx ==
  ASSUME TypeOK, TxInv, transmit_with
  PROVE  TxInv' /\ pc' = "tx_kick"
<1> PICK n \in Nat \ {0} : n = TX_RING_SIZE
  BY SizesAssumption
<1> PICK w \in Nat : w = Len(wire)
  BY TxPlaces
<1> PICK e \in Nat : e = Done
  BY TxPlaces
<1> PICK p \in Nat : p = posted
  BY DEF TxInv, TxCounts
<1>1. /\ wire \in Seq(Nat) /\ e <= w /\ w <= p /\ p < e + n
      /\ TDH = At(w, n) /\ TDT = At(p, n) /\ tx_owed \in Nat /\ tx_owed <= w
  BY DEF transmit_with, TxInv, TxCounts, Done, Kicked
<1>2. has_tx_space
  BY <1>1, TxPlaces DEF transmit_with
<1>3. /\ tx_buf' = [tx_buf EXCEPT ![TDT] = p + 1] /\ tx_dd' = [tx_dd EXCEPT ![TDT] = FALSE]
      /\ posted' = p + 1 /\ pc' = "tx_kick"
  BY <1>2 DEF transmit_with, has_tx_space, tindex
<1>4. UNCHANGED <<TDH, TDT, tx_owed, wire>>
  BY DEF transmit_with
<1>5. tx_dd \in [0 .. n - 1 -> BOOLEAN] /\ tx_buf \in [0 .. n - 1 -> 0 .. MaxTx]
  BY DEF TypeOK, TxIndices
<1>6. TxInOrder /\ TxFrames /\ TxDone
  BY DEF TxInv
<1>7. Kicked' = p /\ Done' = e
  BY <1>3, <1>4 DEF Kicked, Done
<1>8. TxCounts'
  BY <1>1, <1>3, <1>4, <1>7 DEF TxCounts
<1>9. TxInOrder'
  BY <1>4, <1>6 DEF TxInOrder
<1>10. ASSUME NEW i \in 0 .. n - 1
       PROVE  /\ tx_buf'[i] = IF i = TDT THEN p + 1 ELSE tx_buf[i]
              /\ tx_dd'[i] = IF i = TDT THEN FALSE ELSE tx_dd[i]
  BY <1>3, <1>5
<1>11. ASSUME NEW k \in Nat, k # p, k - p < n, p - k < n
       PROVE  tx_buf'[At(k, n)] = tx_buf[At(k, n)] /\ tx_dd'[At(k, n)] = tx_dd[At(k, n)]
  <2>1. At(k, n) \in 0 .. n - 1
    BY k \in Int, Place
  <2>2. At(k, n) # At(p, n)
    BY <1>11, k \in Int, p \in Int, PlacesApart
  <2> QED BY <1>1, <1>10, <2>1, <2>2, Zenon
<1>12. tx_buf'[At(p, n)] = p + 1 /\ tx_dd'[At(p, n)] = FALSE
  <2>1. At(p, n) \in 0 .. n - 1
    BY p \in Int, Place
  <2> QED BY <1>1, <1>10, <2>1, Zenon
<1>13. TxFrames'
  <2>1. ASSUME NEW k \in Nat, w <= k, k < p + 1 PROVE tx_buf'[At(k, n)] = k + 1
    <3>1. CASE k = p
      BY <1>12, <3>1
    <3>2. CASE k # p
      <4>1. tx_buf[At(k, n)] = k + 1
        BY <1>6, <2>1, <3>2 DEF TxFrames
      <4>2. tx_buf'[At(k, n)] = tx_buf[At(k, n)]
        BY <1>1, <1>11, <2>1, <3>2
      <4> QED BY <4>1, <4>2
    <3> QED BY <3>1, <3>2
  <2> QED BY <1>3, <1>4, <2>1 DEF TxFrames
<1>14. TxDone'
  <2>1. ASSUME NEW k \in Nat, e <= k, k < e + n
        PROVE  tx_dd'[At(k, n)] <=> p + 1 <= k
    <3>1. CASE k = p
      BY <1>12, <3>1
    <3>2. CASE k # p
      <4>1. tx_dd'[At(k, n)] = tx_dd[At(k, n)]
        BY <1>1, <1>11, <2>1, <3>2
      <4>2. tx_dd[At(k, n)] <=> p <= k
        BY <1>6, <2>1 DEF TxDone
      <4> QED BY <3>2, <4>1, <4>2
    <3> QED BY <3>1, <3>2
  <2> QED BY <1>3, <1>7, <2>1 DEF TxDone
<1> QED BY <1>3, <1>8, <1>9, <1>13, <1>14 DEF TxInv

(* It moves the tail to the next frame's descriptor. *)
LEMMA TransmitKickTx == ASSUME TxInv, transmit_kick PROVE TxInv'
<1> PICK n \in Nat \ {0} : n = TX_RING_SIZE
  BY SizesAssumption
<1> PICK c \in Nat : c = Kicked
  BY TxPlaces
<1>1. /\ wire \in Seq(Nat) /\ posted = c + 1 /\ TDH = At(Len(wire), n) /\ TDT = At(c, n)
      /\ tx_owed \in Nat /\ tx_owed <= Len(wire) /\ Len(wire) <= c /\ posted <= Done + n
  BY DEF transmit_kick, TxInv, TxCounts, Kicked
<1>2. /\ TDT' = (TDT + 1) % n /\ pc' = "idle"
      /\ UNCHANGED <<tx_dd, tx_buf, TDH, tx_owed, posted, wire>>
  BY DEF transmit_kick, tindex
<1>3. TDT' = At(c + 1, n)
  BY <1>1, <1>2, c \in Int, NextPlace
<1>4. Kicked' = c + 1 /\ Done' = Done
  BY <1>1, <1>2 DEF Kicked, Done
<1>5. TxCounts'
  BY <1>1, <1>2, <1>3, <1>4 DEF TxCounts
<1>6. TxInOrder' /\ TxFrames'
  BY <1>2 DEF TxInv, TxInOrder, TxFrames
<1>7. TxDone'
  BY <1>2, <1>4 DEF TxInv, TxDone
<1> QED BY <1>5, <1>6, <1>7 DEF TxInv

(* The card sends the frames in order, ... *)
LEMMA CardTransmitsTx == ASSUME TxInv, CardTransmits PROVE TxInv'
<1> PICK n \in Nat \ {0} : n = TX_RING_SIZE
  BY SizesAssumption
<1> PICK w \in Nat : w = Len(wire)
  BY TxPlaces
<1>1. w < Kicked
  BY TxPlaces DEF CardTransmits
<1>2. /\ wire \in Seq(Nat) /\ posted \in Nat /\ Kicked \in Nat /\ Kicked <= posted
      /\ TDH = At(w, n) /\ TDT = At(Kicked, n) /\ tx_owed \in Nat /\ tx_owed <= w
      /\ posted <= Done + n
      /\ pc \in {"rx", "rx_clear", "rx_return", "reply", "tx"} => posted < Done + n
  BY TxPlaces DEF TxInv, TxCounts, Kicked
<1>3. /\ wire' = Append(wire, tx_buf[TDH]) /\ TDH' = (TDH + 1) % n /\ tx_owed' = tx_owed + 1
      /\ UNCHANGED <<tx_dd, tx_buf, TDT, posted, pc>>
  BY DEF CardTransmits
<1>4. TxInOrder /\ TxFrames /\ TxDone
  BY DEF TxInv
<1>5. tx_buf[TDH] = w + 1
  <2>1. tx_buf[At(w, n)] = w + 1
    BY <1>1, <1>2, <1>4 DEF TxFrames
  <2> QED BY <1>2, <2>1
<1>6. wire' \in Seq(Nat) /\ Len(wire') = w + 1
  BY <1>2, <1>3, <1>5
<1>7. TDH' = At(w + 1, n)
  BY <1>2, <1>3, w \in Int, NextPlace, Zenon
<1>8. Kicked' = Kicked /\ Done' = Done
  BY <1>2, <1>3, <1>6 DEF Kicked, Done
<1>9. TxCounts'
  BY <1>1, <1>2, <1>3, <1>6, <1>7, <1>8 DEF TxCounts
<1>10. TxInOrder'
  <2>1. \A i \in 1 .. w : wire'[i] = wire[i]
    BY <1>2, <1>3
  <2>2. wire'[w + 1] = w + 1
    BY <1>2, <1>3, <1>5
  <2>3. \A i \in 1 .. w : wire[i] = i
    BY <1>4 DEF TxInOrder
  <2>4. \A i \in 1 .. w + 1 : i \in 1 .. w \/ i = w + 1
    OBVIOUS
  <2>5. \A i \in 1 .. w + 1 : wire'[i] = i
    BY ONLY <2>1, <2>2, <2>3, <2>4
  <2> QED BY <1>6, <2>5 DEF TxInOrder
<1>11. TxFrames'
  BY <1>3, <1>4, <1>6 DEF TxFrames
<1>12. TxDone'
  BY <1>3, <1>4, <1>8 DEF TxDone
<1> QED BY <1>9, <1>10, <1>11, <1>12 DEF TxInv

(* ... and sets DD in the same order. *)
LEMMA CardSetsDDTx == ASSUME TypeOK, TxInv, CardSetsDD PROVE TxInv'
<1> PICK n \in Nat \ {0} : n = TX_RING_SIZE
  BY SizesAssumption
<1> PICK e \in Nat : e = Done
  BY TxPlaces
<1>1. /\ wire \in Seq(Nat) /\ Len(wire) \in Nat /\ posted \in Nat /\ tx_owed \in Nat
      /\ tx_owed > 0 /\ e = Len(wire) - tx_owed
      /\ TDH = At(Len(wire), n) /\ posted <= e + n
  BY DEF CardSetsDD, TxInv, TxCounts, Done
<1>2. /\ tx_dd' = [tx_dd EXCEPT ![(TDH - tx_owed) % n] = TRUE] /\ tx_owed' = tx_owed - 1
      /\ UNCHANGED <<tx_buf, TDH, TDT, posted, wire, pc>>
  BY DEF CardSetsDD
<1>3. (TDH - tx_owed) % n = At(e, n)
  <2> PICK w \in Nat : w = Len(wire)
    BY <1>1
  <2> PICK o \in Int : o = 0 - tx_owed
    BY <1>1
  <2>1. ((w % n) + o) % n = (w + o) % n
    BY w \in Int, Move, Zenon
  <2>2. w % n \in Int
    BY w \in Int, Turns
  <2>3. (w % n) + o = TDH - tx_owed
    BY <1>1, <2>2 DEF At
  <2>4. w + o = e
    BY <1>1
  <2> QED BY <2>1, <2>3, <2>4 DEF At
<1>4. tx_dd \in [0 .. n - 1 -> BOOLEAN]
  BY DEF TypeOK, TxIndices
<1>5. TxInOrder /\ TxFrames /\ TxDone
  BY DEF TxInv
<1>6. Kicked' = Kicked /\ Done' = e + 1
  BY <1>1, <1>2 DEF Kicked, Done
<1>7. TxCounts'
  BY <1>1, <1>2, <1>6 DEF TxInv, TxCounts
<1>8. TxInOrder' /\ TxFrames'
  BY <1>2, <1>5 DEF TxInOrder, TxFrames
<1>9. ASSUME NEW i \in 0 .. n - 1
      PROVE  tx_dd'[i] = IF i = At(e, n) THEN TRUE ELSE tx_dd[i]
  BY <1>2, <1>3, <1>4, Zenon
<1>10. ASSUME NEW k \in Nat, e + 1 <= k, k < e + 1 + n
       PROVE  tx_dd'[At(k, n)] <=> posted <= k
  <2>1. At(k, n) \in 0 .. n - 1
    BY k \in Int, Place
  <2>2. CASE k = e + n
    <3>1. At(k, n) = At(e, n)
      BY <2>2, e \in Int, PlaceAgain
    <3> QED BY <1>1, <1>9, <2>1, <2>2, <3>1, Zenon
  <2>3. CASE k # e + n
    <3>1. At(k, n) # At(e, n)
      BY <1>10, <2>3, k \in Int, e \in Int, PlacesApart
    <3>2. tx_dd'[At(k, n)] = tx_dd[At(k, n)]
      BY <1>9, <2>1, <3>1, Zenon
    <3>3. tx_dd[At(k, n)] <=> posted <= k
      BY <1>5, <1>10, <2>3 DEF TxDone
    <3> QED BY <3>2, <3>3
  <2> QED BY <2>2, <2>3
<1>11. TxDone'
  BY <1>2, <1>6, <1>10 DEF TxDone
<1> QED BY <1>7, <1>8, <1>11 DEF TxInv
-----------------------------------------------------------------------------
(* Types, and drop *)

(* The interrupt side of a step, as far as types go *)
IrqSteps ==
  \/ UNCHANGED irqVars \/ Unmask \/ Route \/ RaiseCause \/ handler_wake
  \/ executor_poll \/ register_waker \/ StackWakes
  \/ Refuse(has_rx_packet, has_tx_space)
  \/ cause' = FALSE /\ UNCHANGED <<unmasked, routed, latched, handler, taskVars>>
  \/ cause' = FALSE /\ unmasked' = FALSE /\ UNCHANGED <<routed, latched, handler, taskVars>>
  \/ /\ latched' = FALSE /\ cause' = FALSE /\ handler' = "wake"
     /\ UNCHANGED <<unmasked, routed, taskVars>>

(* Every step is one of these. *)
LEMMA IrqStep == ASSUME Next \/ UNCHANGED vars PROVE IrqSteps
<1> USE DEF IrqSteps
<1>1. CASE Probe
  BY <1>1 DEF Probe, init_ims, init_icr, install_pci_isr, enable_interrupts
<1>2. CASE Handler
  BY <1>2 DEF Handler, e1000_handler
<1>3. CASE Task
  BY <1>3 DEF Task, receive, transmit, recv_with, recv_clear, recv_return, transmit_with,
              transmit_kick, DropTxToken, drop_free
<1>4. CASE drop \/ Stopped \/ UNCHANGED vars
  BY <1>4 DEF drop, Stopped, vars
<1>5. CASE Card
  BY <1>5 DEF Card, CardReceives, CardTransmits, CardSetsDD, CardResets
<1>6. CASE StackWakes /\ UNCHANGED ringVars
  BY <1>6
<1> QED BY <1>1, <1>2, <1>3, <1>4, <1>5, <1>6, Zenon DEF Next

(* They keep the types. *)
LEMMA IrqType == ASSUME IrqTypeOK, IrqSteps PROVE IrqTypeOK'
<1> USE DEF IrqTypeOK, irqVars, lineVars, taskVars
<1>1. CASE UNCHANGED irqVars
  BY <1>1
<1>2. CASE Unmask \/ RaiseCause
  <2>1. latched' \in BOOLEAN
    BY <1>2, Zenon DEF Unmask, RaiseCause, Latch
  <2> QED BY <1>2, <2>1, Zenon DEF Unmask, RaiseCause
<1>3. CASE Route
  BY <1>3 DEF Route
<1>4. CASE handler_wake
  <2>1. woken' \in BOOLEAN
    BY <1>4, Zenon DEF handler_wake
  <2> QED BY <1>4, <2>1 DEF handler_wake
<1>5. CASE executor_poll \/ register_waker \/ StackWakes
  BY <1>5, Zenon DEF executor_poll, register_waker, StackWakes
<1>6. CASE Refuse(has_rx_packet, has_tx_space)
  BY <1>6 DEF Refuse
<1>7. CASE \/ cause' = FALSE /\ UNCHANGED <<unmasked, routed, latched, handler, taskVars>>
           \/ cause' = FALSE /\ unmasked' = FALSE
              /\ UNCHANGED <<routed, latched, handler, taskVars>>
           \/ /\ latched' = FALSE /\ cause' = FALSE /\ handler' = "wake"
              /\ UNCHANGED <<unmasked, routed, taskVars>>
  BY <1>7, Zenon
<1> QED BY <1>1, <1>2, <1>3, <1>4, <1>5, <1>6, <1>7, Zenon DEF IrqSteps

(* A step that raises the line of a routed pin latches an interrupt, and   *)
(* the handler that takes the interrupt lets the line fall.                *)
LEMMA AlertStep == ASSUME IrqTypeOK, IrqSteps, routed, ~Deaf PROVE ~Deaf'
<1> USE DEF Deaf, Line
<1>1. CASE UNCHANGED irqVars
  BY <1>1 DEF irqVars, lineVars
<1>2. CASE Unmask \/ RaiseCause
  BY <1>2, Zenon DEF Unmask, RaiseCause, Latch, IrqTypeOK
<1>3. CASE Route
  BY <1>3 DEF Route
<1>4. CASE \/ handler_wake \/ executor_poll \/ register_waker \/ StackWakes
           \/ Refuse(has_rx_packet, has_tx_space)
  BY <1>4, Zenon DEF handler_wake, executor_poll, register_waker, StackWakes, Refuse, lineVars
<1>5. CASE \/ cause' = FALSE /\ UNCHANGED <<unmasked, routed, latched, handler, taskVars>>
           \/ cause' = FALSE /\ unmasked' = FALSE
              /\ UNCHANGED <<routed, latched, handler, taskVars>>
           \/ /\ latched' = FALSE /\ cause' = FALSE /\ handler' = "wake"
              /\ UNCHANGED <<unmasked, routed, taskVars>>
  BY <1>5, Zenon
<1> QED BY <1>1, <1>2, <1>3, <1>4, <1>5, Zenon DEF IrqSteps

(* The steps that leave both rings alone, and hand out a token at most *)
Plain ==
  /\ UNCHANGED <<rxVars, txVars>>
  /\ \/ pc' = pc
     \/ /\ pc \notin MidReceive \cup {"tx_kick"} /\ pc' \notin MidReceive \cup {"tx_kick"}
        /\ pc' = "rx" => has_rx_packet
        /\ pc' \in TxToken => has_tx_space

(* Probe, the handler, the tokens, drop and a reset are such steps. *)
LEMMA PlainSteps ==
  ASSUME \/ Probe \/ Handler \/ receive \/ transmit \/ DropTxToken \/ drop \/ drop_free
         \/ CardResets \/ UNCHANGED ringVars \/ Stopped
  PROVE  Plain
<1> USE DEF Plain, MidReceive, TxToken
<1>1. CASE Probe
  BY <1>1 DEF Probe, init_ims, init_icr, install_pci_isr, enable_interrupts
<1>2. CASE Handler \/ UNCHANGED ringVars
  BY <1>2 DEF Handler, e1000_handler, ringVars
<1>3. CASE receive \/ transmit \/ DropTxToken
  BY <1>3 DEF receive, transmit, DropTxToken
<1>4. CASE drop \/ drop_free \/ CardResets
  BY <1>4 DEF drop, drop_free, CardResets
<1>5. CASE Stopped
  BY <1>5 DEF Stopped, vars, ringVars
<1> QED BY <1>1, <1>2, <1>3, <1>4, <1>5

(* What a step may be, as the rings see it *)
RingSteps ==
  \/ Plain \/ recv_with \/ recv_clear \/ recv_return \/ transmit_with \/ transmit_kick
  \/ CardReceives \/ CardTransmits \/ CardSetsDD

(* Every step is one of these. *)
LEMMA RingStep == ASSUME Next \/ UNCHANGED vars PROVE RingSteps
<1>1. UNCHANGED vars => UNCHANGED ringVars
  BY DEF vars
<1> QED BY <1>1, PlainSteps DEF Next, Task, Card, RingSteps

(* The counts of both rings are kept by every step. *)
LEMMA CountsStep == ASSUME TypeOK, RxInv, TxInv, RingSteps PROVE RxInv' /\ TxInv'
<1> USE DEF MidReceive, TxToken
<1>1. CASE Plain
  BY <1>1, RxAside, TxAside DEF Plain
<1>2. CASE recv_with
  <2>1. UNCHANGED txVars /\ pc = "rx" /\ pc' \in {"panic", "panic_discard", "rx_clear"}
    BY <1>2 DEF recv_with
  <2> QED BY <1>2, <2>1, RecvWithRx, TxAside
<1>3. CASE recv_clear
  <2>1. UNCHANGED txVars /\ pc = "rx_clear" /\ pc' = "rx_return"
    BY <1>3 DEF recv_clear
  <2> QED BY <1>3, <2>1, RecvClearRx, TxAside
<1>4. CASE recv_return
  <2>1. UNCHANGED txVars /\ pc = "rx_return" /\ pc' = "reply"
    BY <1>4 DEF recv_return
  <2> QED BY <1>4, <2>1, RecvReturnRx, TxAside
<1>5. CASE transmit_with
  <2>1. UNCHANGED rxVars /\ pc \in {"tx", "reply"} /\ pc' \in {"tx_kick", "panic"}
    BY <1>5 DEF transmit_with
  <2> QED BY <1>5, <2>1, TransmitWithTx, RxAside
<1>6. CASE transmit_kick
  <2>1. UNCHANGED rxVars /\ pc = "tx_kick" /\ pc' = "idle"
    BY <1>6 DEF transmit_kick
  <2> QED BY <1>6, <2>1, TransmitKickTx, RxAside
<1>7. CASE CardReceives
  <2>1. UNCHANGED txVars /\ pc' = pc
    BY <1>7 DEF CardReceives
  <2> QED BY <1>7, <2>1, CardReceivesRx, TxAside
<1>8. CASE CardTransmits
  <2>1. UNCHANGED rxVars /\ pc' = pc
    BY <1>8 DEF CardTransmits
  <2> QED BY <1>8, <2>1, CardTransmitsTx, RxAside
<1>9. CASE CardSetsDD
  <2>1. UNCHANGED rxVars /\ pc' = pc
    BY <1>9 DEF CardSetsDD
  <2> QED BY <1>9, <2>1, CardSetsDDTx, RxAside
<1> QED BY <1>1, <1>2, <1>3, <1>4, <1>5, <1>6, <1>7, <1>8, <1>9 DEF RingSteps

(* Registers that count frames are indices, and no more frames are owed a  *)
(* DD than the ring has descriptors.                                       *)
LEMMA RegisterType ==
  ASSUME RxCounts', TxCounts'
  PROVE  /\ RDH' \in RxIndices /\ RDT' \in RxIndices
         /\ TDH' \in TxIndices /\ TDT' \in TxIndices /\ tx_owed' \in 0 .. TX_RING_SIZE
<1> PICK n \in Nat \ {0} : n = RX_RING_SIZE
  BY SizesAssumption
<1> PICK m \in Nat \ {0} : m = TX_RING_SIZE
  BY SizesAssumption
<1> PICK r \in Nat : r = Returned'
  BY DEF RxCounts
<1>c. posted' \in Nat /\ wire' \in Seq(Nat)
  BY DEF TxCounts
<1>k. Kicked' \in Int /\ Kicked' <= posted'
  <2>1. Kicked' = posted' \/ Kicked' = posted' - 1
    BY ONLY Kicked' = Kicked' DEF Kicked
  <2> QED BY ONLY <1>c, <2>1
<1> PICK c \in Int : c = Kicked'
  BY <1>k
<1>1. arrived' \in Int /\ RDH' = At(arrived', n) /\ RDT' = At(r + (n - 1), n)
  BY DEF RxCounts
<1>2. RDH' \in RxIndices /\ RDT' \in RxIndices
  BY <1>1, r + (n - 1) \in Int, Place DEF RxIndices
<1>l. Len(wire)' \in Int
  BY <1>c
<1>3. /\ TDH' = At(Len(wire)', m) /\ TDT' = At(c, m)
      /\ tx_owed' \in Nat /\ posted' <= Done' + m /\ Len(wire)' <= c
  BY DEF TxCounts
<1>4. TDH' \in TxIndices /\ TDT' \in TxIndices
  BY <1>3, <1>l, Place DEF TxIndices
<1>5. Done' = Len(wire)' - tx_owed'
  BY DEF Done
<1>6. tx_owed' <= m
  BY <1>3, <1>5, <1>c, <1>l, <1>k
<1> QED BY <1>2, <1>3, <1>4, <1>6

(* Buffers and descriptors keep their types, ... *)
LEMMA BufferType ==
  ASSUME TypeOK, RingSteps
  PROVE  /\ rx_status' \in [RxIndices -> [dd : BOOLEAN, eop : BOOLEAN, errors : BOOLEAN]]
         /\ rx_buf' \in [RxIndices -> 0 .. MaxRx] /\ arrived' \in 0 .. MaxRx
         /\ tx_dd' \in [TxIndices -> BOOLEAN] /\ tx_buf' \in [TxIndices -> 0 .. MaxTx]
         /\ posted' \in 0 .. MaxTx
<1> DEFINE Status == [dd : BOOLEAN, eop : BOOLEAN, errors : BOOLEAN]
           RxFrame == 0 .. MaxRx
           TxFrame == 0 .. MaxTx
           RxTyped(status, buf, n) ==
             /\ status \in [RxIndices -> Status] /\ buf \in [RxIndices -> RxFrame] /\ n \in RxFrame
           TxTyped(dd, buf, n) ==
             /\ dd \in [TxIndices -> BOOLEAN] /\ buf \in [TxIndices -> TxFrame] /\ n \in TxFrame
<1> SUFFICES RxTyped(rx_status', rx_buf', arrived') /\ TxTyped(tx_dd', tx_buf', posted')
  OBVIOUS
<1>1. RxTyped(rx_status, rx_buf, arrived) /\ TxTyped(tx_dd, tx_buf, posted)
  BY DEF TypeOK
<1>2. Cleared \in Status /\ Written \subseteq Status
  BY Zenon DEF Cleared, Written
<1>3. 0 \in RxFrame
  BY BoundsAssumption
<1>4. arrived < MaxRx => arrived + 1 \in RxFrame
  BY <1>1, BoundsAssumption
<1>5. posted < MaxTx => posted + 1 \in TxFrame
  BY <1>1, BoundsAssumption
<1> HIDE DEF Status, RxFrame, TxFrame
<1>6. CASE Plain \/ recv_return \/ transmit_kick \/ CardTransmits
  BY <1>1, <1>6 DEF Plain, recv_return, transmit_kick, CardTransmits, rxVars, txVars
<1>7. CASE recv_with
  BY <1>1, <1>2, <1>7 DEF recv_with, txVars
<1>8. CASE recv_clear
  BY <1>1, <1>2, <1>3, <1>8, Zenon DEF recv_clear, txVars
<1>9. CASE transmit_with
  BY <1>1, <1>5, <1>9, Zenon DEF transmit_with, rxVars
<1>10. CASE CardReceives
  BY <1>1, <1>2, <1>4, <1>10, Zenon DEF CardReceives, txVars
<1>11. CASE CardSetsDD
  BY <1>1, <1>11, Zenon DEF CardSetsDD, rxVars
<1> QED BY <1>6, <1>7, <1>8, <1>9, <1>10, <1>11 DEF RingSteps

(* ... and so does the rest. *)
LEMMA ControlType ==
  ASSUME TypeOK, DropInv, Next \/ UNCHANGED vars
  PROVE  /\ card' \in {"running", "resetting", "reset"} /\ freed' \in BOOLEAN
         /\ pc' \in {"ims", "icr", "route", "enable", "idle", "rx", "rx_clear", "rx_return", "tx",
                     "reply", "tx_kick", "panic", "panic_discard", "drop_wait", "dropped", "gave_up"}
         /\ DropInv'
<1> USE DEF TypeOK, DropInv, ringVars
<1>1. CASE Probe
  BY <1>1 DEF Probe, init_ims, init_icr, install_pci_isr, enable_interrupts
<1>2. CASE Handler \/ UNCHANGED vars \/ Stopped \/ (StackWakes /\ UNCHANGED ringVars)
  BY <1>2 DEF Handler, e1000_handler, Stopped, vars
<1>3. CASE Task
  <2>1. CASE receive \/ transmit \/ DropTxToken
    BY <2>1 DEF receive, transmit, DropTxToken
  <2>2. CASE recv_with \/ recv_clear \/ recv_return
    BY <2>2 DEF recv_with, recv_clear, recv_return
  <2>3. CASE transmit_with \/ transmit_kick
    BY <2>3 DEF transmit_with, transmit_kick
  <2>4. CASE drop_free
    BY <2>4 DEF drop_free
  <2>5. CASE UNCHANGED ringVars
    BY <2>5
  <2> QED BY <1>3, <2>1, <2>2, <2>3, <2>4, <2>5 DEF Task
<1>4. CASE drop
  BY <1>4 DEF drop
<1>5. CASE Card
  BY <1>5 DEF Card, CardReceives, CardTransmits, CardSetsDD, CardResets
<1> QED BY <1>1, <1>2, <1>3, <1>4, <1>5 DEF Next
-----------------------------------------------------------------------------
(* The rings start empty, with every receive descriptor but one given to   *)
(* the card.                                                               *)
LEMMA InitInv == Init => Inv
<1> SUFFICES ASSUME Init PROVE Inv
  OBVIOUS
<1> PICK n \in Nat \ {0, 1} : n = RX_RING_SIZE
  BY SizesAssumption
<1> PICK m \in Nat \ {0, 1} : m = TX_RING_SIZE
  BY SizesAssumption
<1>1. /\ Returned = 0 /\ Kicked = 0 /\ Done = 0 /\ Len(delivered) = 0 /\ Len(wire) = 0
      /\ delivered \in Seq(Nat) /\ wire \in Seq(Nat)
  BY DEF Init, Returned, Kicked, Done
<1>2. /\ At(0, n) = 0 /\ At(0, m) = 0 /\ At(0 + (n - 1), n) = n - 1
  <2>1. 0 = n * 0 + 0 /\ 0 = m * 0 + 0 /\ n - 1 = n * 0 + (n - 1)
    OBVIOUS
  <2>2. n - 1 \in Int /\ n - 1 \in 0 .. n - 1 /\ 0 \in Int /\ 0 \in 0 .. n - 1 /\ 0 \in 0 .. m - 1
        /\ 0 + (n - 1) = n - 1
    OBVIOUS
  <2> QED BY <2>1, <2>2, IndexIs DEF At
<1>3. TypeOK
  <2>1. IrqTypeOK
    BY Zenon DEF Init, IrqInit, IrqTypeOK
  <2>2. rx_status \in [RxIndices -> [dd : BOOLEAN, eop : BOOLEAN, errors : BOOLEAN]]
    BY DEF Init, Cleared
  <2>3. /\ rx_buf \in [RxIndices -> 0 .. MaxRx] /\ tx_buf \in [TxIndices -> 0 .. MaxTx]
        /\ tx_dd \in [TxIndices -> BOOLEAN] /\ arrived \in 0 .. MaxRx /\ posted \in 0 .. MaxTx
    BY BoundsAssumption DEF Init
  <2>4. /\ RDH \in RxIndices /\ RDT \in RxIndices /\ TDH \in TxIndices /\ TDT \in TxIndices
        /\ tx_owed \in 0 .. TX_RING_SIZE
    BY DEF Init, RxIndices, TxIndices
  <2> QED BY <2>1, <2>2, <2>3, <2>4, Zenon DEF Init, TypeOK
<1>4. RxInv
  <2>1. RxCounts
    BY <1>1, <1>2 DEF Init, RxCounts
  <2>2. RxInOrder /\ RxFrames
    BY <1>1 DEF Init, RxInOrder, RxFrames
  <2>3. \A k \in Nat : At(k, n) \in 0 .. n - 1
    BY Place
  <2>4. RxDone
    BY <1>1, <2>3, SMTT(30) DEF Init, RxDone, RxIndices, Cleared
  <2> QED BY <2>1, <2>2, <2>4 DEF RxInv
<1>5. TxInv
  <2>1. TxCounts
    BY <1>1, <1>2 DEF Init, TxCounts
  <2>2. TxInOrder /\ TxFrames
    BY <1>1 DEF Init, TxInOrder, TxFrames
  <2>3. \A k \in Nat : At(k, m) \in 0 .. m - 1
    BY Place
  <2>4. TxDone
    BY <1>1, <2>3 DEF Init, TxDone, TxIndices
  <2> QED BY <2>1, <2>2, <2>4 DEF TxInv
<1>6. DropInv
  BY DEF Init, DropInv
<1> QED BY <1>3, <1>4, <1>5, <1>6 DEF Inv

(* Every step keeps the invariant. *)
LEMMA InvStep == Inv /\ [Next]_vars => Inv'
<1> SUFFICES ASSUME Inv, Next \/ UNCHANGED vars PROVE Inv'
  OBVIOUS
<1>1. TypeOK /\ RxInv /\ TxInv /\ DropInv /\ IrqTypeOK
  BY DEF Inv, TypeOK
<1>2. RingSteps /\ IrqSteps
  BY RingStep, IrqStep
<1>3. RxInv' /\ TxInv'
  BY <1>1, <1>2, CountsStep
<1>4. DropInv'
  BY <1>1, ControlType
<1>5. TypeOK'
  <2>1. IrqTypeOK'
    BY <1>1, <1>2, IrqType
  <2>2. RxCounts' /\ TxCounts'
    BY <1>3 DEF RxInv, TxInv
  <2> QED BY <1>1, <1>2, <2>1, <2>2, RegisterType, BufferType, ControlType DEF TypeOK
<1> QED BY <1>3, <1>4, <1>5 DEF Inv

(* The counts hold in every reachable state. *)
THEOREM RingCounts == Spec => []Inv
BY InitInv, InvStep, PTL DEF Spec

(* Driver and card agree on who owns each descriptor, for every ring size, *)
(* and drop frees the rings of a quiet card only, or of one it gave up on. *)
THEOREM DescriptorsAreOwned == Spec => []DescriptorsInv
<1>1. Inv => DescriptorsInv
  <2> SUFFICES ASSUME Inv PROVE DescriptorsInv
    OBVIOUS
  <2>1. TypeOK /\ FreedMeansQuiet /\ RxCounts /\ RxDone
    BY DEF Inv, RxInv, DropInv, FreedMeansQuiet
  <2> PICK n \in Nat \ {0} : n = RX_RING_SIZE
    BY SizesAssumption
  <2> PICK r \in Nat : r = Returned
    BY <2>1 DEF RxCounts
  <2>2. /\ arrived \in Nat /\ r <= arrived /\ arrived < r + n
        /\ rindex = At(r, n) /\ RDH = At(arrived, n)
    BY <2>1, RxPlaces DEF RxCounts
  <2>3. (RDH - rindex) % n = arrived - r
    BY <2>2, arrived \in Int, r \in Int, arrived - r < n, StepsBetween, Zenon
  <2>4. ASSUME NEW i \in RxIndices
        PROVE  rx_status[i].dd <=> /\ (i - rindex) % n < (RDH - rindex) % n
                                   /\ ~(pc = "rx_return" /\ i = rindex)
    <3> PICK k \in Nat : r <= k /\ k < r + n /\ i = At(k, n)
      BY EveryPlace, Zenon DEF RxIndices
    <3>1. (i - rindex) % n = k - r
      BY <2>2, k \in Int, r \in Int, k - r < n, StepsBetween, Zenon
    <3>2. i = rindex <=> k = r
      BY <2>2, k \in Int, r \in Int, PlacesApart
    <3>3. rx_status[i].dd <=> k < arrived /\ ~(pc = "rx_return" /\ k = r)
      BY <2>1 DEF RxDone
    <3>4. k - r < arrived - r <=> k < arrived
      BY <2>2
    <3> QED BY <2>3, <3>1, <3>2, <3>3, <3>4
  <2> QED BY <2>1, <2>4 DEF DescriptorsInv, RxOwnership
<1> QED BY <1>1, RingCounts, PTL

(* What rx_ready and tx_ready promise still holds when the token is used:  *)
(* for every ring size, a panic means that the card reported a bad frame.  *)
THEOREM PanicsAreBadFrames == Spec => PanicsOnBadFrameOnly
<1>1. Inv /\ [Next]_vars =>
        [~Panicked /\ Panicked' => pc = "rx" /\ rx_status[rindex].dd /\ rx_status[rindex] # Good]_vars
  <2> SUFFICES ASSUME Inv, Next \/ UNCHANGED vars, ~Panicked, Panicked'
               PROVE  pc = "rx" /\ rx_status[rindex].dd /\ rx_status[rindex] # Good
    OBVIOUS
  <2>1. TypeOK /\ TxInv /\ RxCounts /\ RxDone
    BY DEF Inv, RxInv
  <2>2. recv_with
    <3>1. ~transmit_with
      BY <2>1, TransmitWithTx DEF Panicked
    <3>2. CASE Probe \/ Handler \/ drop \/ Card \/ Stopped \/ UNCHANGED vars \/ UNCHANGED ringVars
      BY <3>2 DEF Panicked, Probe, init_ims, init_icr, install_pci_isr, enable_interrupts, Handler,
                  e1000_handler, drop, Card, CardReceives, CardTransmits, CardSetsDD, CardResets,
                  Stopped, vars, ringVars
    <3>3. CASE receive \/ transmit \/ recv_clear \/ recv_return \/ transmit_kick \/ DropTxToken
               \/ drop_free
      BY <3>3 DEF Panicked, receive, transmit, recv_clear, recv_return, transmit_kick, DropTxToken,
                  drop_free
    <3> QED BY <3>1, <3>2, <3>3 DEF Next, Task
  <2>3. pc = "rx" /\ rx_status[rindex] # Good
    BY <2>2 DEF recv_with, Panicked, Good
  <2>4. rx_status[rindex].dd
    <3> PICK n \in Nat \ {0} : n = RX_RING_SIZE
      BY SizesAssumption
    <3> PICK r \in Nat : r = Returned
      BY <2>1 DEF RxCounts
    <3>1. r < arrived /\ rindex = At(r, n)
      BY <2>1, <2>3, RxPlaces DEF RxCounts
    <3> QED BY <2>1, <2>3, <3>1 DEF RxDone
  <2> QED BY <2>3, <2>4
<1> QED BY <1>1, RingCounts, PTL DEF Spec, PanicsOnBadFrameOnly

(* Once the pin is routed, no step leaves the line high with nothing       *)
(* latched: the card stays heard.                                          *)
THEOREM CardStaysHeard == Spec => StaysAlert
<1>1. Inv /\ [Next]_vars => [routed /\ ~Deaf => ~Deaf']_vars
  <2> SUFFICES ASSUME Inv, Next \/ UNCHANGED vars, routed, ~Deaf PROVE ~Deaf'
    OBVIOUS
  <2>1. IrqTypeOK
    BY DEF Inv, TypeOK
  <2> QED BY <2>1, IrqStep, AlertStep
<1> QED BY <1>1, RingCounts, PTL DEF Spec, StaysAlert
-----------------------------------------------------------------------------
(* Both rings are queues *)

(* The frames after number a, up to number b *)
Frames(a, b) == [i \in 1 .. b - a |-> a + i]

(* One more frame at the end, ... *)
LEMMA FramesPut ==
  ASSUME NEW a \in Nat, NEW b \in Nat, a <= b
  PROVE  /\ Frames(a, b + 1) # << >>
         /\ Frames(a, b + 1)[Len(Frames(a, b + 1))] = b + 1
         /\ Frames(a, b + 1) = Append(Frames(a, b), b + 1)
<1> DEFINE s == Frames(a, b)
           t == Frames(a, b + 1)
<1>1. s \in Seq(Nat) /\ Len(s) = b - a /\ t \in Seq(Nat) /\ Len(t) = (b - a) + 1
  BY DEF Frames
<1>2. \A i \in 1 .. b - a : s[i] = a + i /\ t[i] = a + i
  BY DEF Frames
<1>3. t[(b - a) + 1] = b + 1
  BY DEF Frames
<1> HIDE DEF s, t
<1>4. Append(s, b + 1) \in Seq(Nat) /\ Len(Append(s, b + 1)) = (b - a) + 1
  BY <1>1
<1>5. \A i \in 1 .. Len(t) : t[i] = Append(s, b + 1)[i]
  BY <1>1, <1>2, <1>3
<1>6. t = Append(s, b + 1)
  BY <1>1, <1>4, <1>5
<1> QED BY <1>1, <1>3, <1>6, SMTT(30) DEF s, t

(* ... and one less in front. *)
LEMMA FramesTake ==
  ASSUME NEW a \in Nat, NEW b \in Nat, a < b
  PROVE  /\ Frames(a, b) # << >> /\ Head(Frames(a, b)) = a + 1
         /\ Frames(a + 1, b) = Tail(Frames(a, b))
<1> DEFINE s == Frames(a, b)
           t == Frames(a + 1, b)
<1>1. s \in Seq(Nat) /\ Len(s) = b - a /\ t \in Seq(Nat) /\ Len(t) = (b - a) - 1
  BY DEF Frames
<1>2. \A i \in 1 .. Len(t) : t[i] = (a + 1) + i /\ s[i + 1] = a + (i + 1)
  BY DEF Frames
<1>3. s[1] = a + 1
  BY DEF Frames
<1> HIDE DEF s, t
<1>4. Tail(s) \in Seq(Nat) /\ Len(Tail(s)) = (b - a) - 1 /\ Head(s) = s[1] /\ s # << >>
  BY <1>1
<1>5. \A i \in 1 .. Len(t) : t[i] = Tail(s)[i]
  BY <1>1, <1>2, <1>4
<1>6. t = Tail(s)
  BY <1>1, <1>4, <1>5, SMTT(30)
<1> QED BY <1>3, <1>4, <1>6 DEF s, t

(* The receive ring holds the frames that came in and were not handed over, *)
LEMMA RxPendingIs == ASSUME Inv PROVE RxPending = Frames(Len(delivered), arrived)
<1> PICK n \in Nat \ {0} : n = RX_RING_SIZE
  BY SizesAssumption
<1>1. RxCounts /\ RxFrames
  BY DEF Inv, RxInv
<1> PICK r \in Nat : r = Returned
  BY <1>1 DEF RxCounts
<1> PICK d \in Nat : d = Len(delivered)
  BY <1>1, RxPlaces
<1> PICK a \in Nat : a = arrived
  BY <1>1, RxPlaces
<1>2. /\ r <= a /\ a < r + n /\ RDH = At(a, n) /\ RDT = At(r + (n - 1), n) /\ rindex = At(r, n)
  BY <1>1, RxPlaces DEF RxCounts
<1> DEFINE filled == (RDH - rindex) % RX_RING_SIZE
           taken == CASE pc \in {"rx_clear", "rx_return"} -> 1
                      [] pc = "panic_discard" -> -1
                      [] OTHER -> 0
<1>3. filled = a - r
  BY <1>2, a \in Int, r \in Int, a - r < n, StepsBetween, Zenon
<1>4. taken \in Int /\ d = r + taken
  <2>1. CASE pc \in {"rx_clear", "rx_return"}
    <3>1. taken = 1 /\ r = d - 1
      BY <2>1 DEF Returned
    <3> QED BY <3>1
  <2>2. CASE pc = "panic_discard"
    <3>1. taken = -1 /\ r = d + 1
      BY <2>2 DEF Returned
    <3> QED BY <3>1
  <2>3. CASE pc \notin {"rx_clear", "rx_return", "panic_discard"}
    <3>1. taken = 0 /\ r = d
      BY <2>3 DEF Returned
    <3> QED BY <3>1
  <2> QED BY <2>1, <2>2, <2>3
<1> HIDE DEF filled, taken
<1>5. filled - taken = a - d
  BY <1>3, <1>4
<1>6. ASSUME NEW i \in 1 .. a - d PROVE rx_buf[(RDT + taken + i) % RX_RING_SIZE] = d + i
  <2>1. (At(r + (n - 1), n) + (taken + i)) % n = At((r + (n - 1)) + (taken + i), n)
    BY <1>4, r + (n - 1) \in Int, taken + i \in Int, PlaceFrom, Zenon
  <2>2. (r + (n - 1)) + (taken + i) = (d + (i - 1)) + n
    BY <1>4
  <2>3. At((d + (i - 1)) + n, n) = At(d + (i - 1), n)
    BY d + (i - 1) \in Int, PlaceAgain
  <2>4. At(r + (n - 1), n) \in Int
    BY r + (n - 1) \in Int, Place
  <2>5. RDT + taken + i = At(r + (n - 1), n) + (taken + i)
    BY <1>2, <1>4, <2>4
  <2>6. (RDT + taken + i) % RX_RING_SIZE = At(d + (i - 1), n)
    BY <2>1, <2>2, <2>3, <2>5
  <2>7. d + (i - 1) \in Nat /\ d <= d + (i - 1) /\ d + (i - 1) < a /\ (d + (i - 1)) + 1 = d + i
    OBVIOUS
  <2>8. rx_buf[At(d + (i - 1), n)] = (d + (i - 1)) + 1
    BY <1>1, <2>7 DEF RxFrames
  <2> QED BY <2>6, <2>7, <2>8
<1>7. RxPending = [i \in 1 .. filled - taken |-> rx_buf[(RDT + taken + i) % RX_RING_SIZE]]
  BY DEF RxPending, filled, taken
<1>8. RxPending = [i \in 1 .. a - d |-> rx_buf[(RDT + taken + i) % RX_RING_SIZE]]
  BY <1>5, <1>7
<1> QED BY <1>6, <1>8, Zenon DEF Frames

(* the transmit ring those handed to the card and not sent, even when it   *)
(* is overfilled.                                                          *)
LEMMA TxPendingIs == ASSUME Inv PROVE TxPending = Frames(Len(wire), Kicked)
<1> PICK n \in Nat \ {0} : n = TX_RING_SIZE
  BY SizesAssumption
<1>1. TxInv /\ TxCounts /\ TxFrames /\ TxDone
  BY DEF Inv, TxInv
<1> PICK w \in Nat : w = Len(wire)
  BY <1>1, TxPlaces
<1> PICK c \in Nat : c = Kicked
  BY <1>1, TxPlaces
<1> PICK e \in Nat : e = Done
  BY <1>1, TxPlaces
<1> PICK p \in Nat : p = posted
  BY <1>1 DEF TxCounts
<1>2. /\ w <= c /\ c <= p /\ p <= e + n /\ e <= w /\ TDH = At(w, n) /\ TDT = At(c, n)
      /\ (tx_owed = 0 <=> e = w) /\ (pc = "tx_kick" <=> c # p)
  BY <1>1 DEF TxCounts, Kicked, Done
<1>3. (IF Overfilled THEN TX_RING_SIZE ELSE Unsent) = c - w
  <2>1. CASE c - w < n
    <3>1. Unsent = c - w
      BY <1>2, <2>1, c \in Int, w \in Int, StepsBetween, Zenon DEF Unsent
    <3>2. ~Overfilled
      <4> SUFFICES ASSUME Overfilled PROVE FALSE
        OBVIOUS
      <4>1. c = w
        <5>1. At(c, n) = At(w, n)
          BY <1>2 DEF Overfilled
        <5> QED BY <1>2, <2>1, <5>1, c \in Int, w \in Int, w - c < n, PlacesApart
      <4>2. p = w /\ e = w
        BY <1>2, <4>1 DEF Overfilled
      <4>3. tx_dd[At(w, n)]
        BY <1>1, <4>2 DEF TxDone
      <4>4. At(w, n) \in TxIndices
        BY w \in Int, Place DEF TxIndices
      <4> QED BY <4>3, <4>4 DEF Overfilled
    <3> QED BY <3>1, <3>2
  <2>2. CASE c - w = n
    <3>1. e = w /\ p = c /\ c = w + n
      BY <1>2, <2>2
    <3>2. TDT = TDH
      BY <1>2, <3>1, w \in Int, PlaceAgain, Zenon
    <3>3. ASSUME NEW i \in TxIndices PROVE ~tx_dd[i]
      <4> PICK k \in Nat : e <= k /\ k < e + n /\ i = At(k, n)
        BY EveryPlace, Zenon DEF TxIndices
      <4> QED BY <1>1, <3>1 DEF TxDone
    <3>4. Overfilled
      BY <1>2, <3>1, <3>2, <3>3 DEF Overfilled
    <3> QED BY <2>2, <3>4
  <2> QED BY <1>2, <2>1, <2>2
<1>4. ASSUME NEW i \in 1 .. c - w PROVE tx_buf[(TDH + i - 1) % TX_RING_SIZE] = w + i
  <2>1. (At(w, n) + (i - 1)) % n = At(w + (i - 1), n)
    BY w \in Int, i - 1 \in Int, PlaceFrom, Zenon
  <2>2. At(w, n) \in Int
    BY w \in Int, Place
  <2>3. TDH + i - 1 = At(w, n) + (i - 1)
    BY <1>2, <2>2
  <2>4. w + (i - 1) \in Nat /\ w <= w + (i - 1) /\ w + (i - 1) < p /\ (w + (i - 1)) + 1 = w + i
    BY <1>2
  <2>5. tx_buf[At(w + (i - 1), n)] = (w + (i - 1)) + 1
    BY <1>1, <2>4 DEF TxFrames
  <2> QED BY <2>1, <2>3, <2>4, <2>5
<1>5. TxPending = [i \in 1 .. c - w |-> tx_buf[(TDH + i - 1) % TX_RING_SIZE]]
  BY <1>3 DEF TxPending
<1> QED BY <1>4, <1>5, Zenon DEF Frames

PendingAreFrames ==
  RxPending = Frames(Len(delivered), arrived) /\ TxPending = Frames(Len(wire), Kicked)

(* A frame the card takes in is put, a frame recv_with hands over is       *)
(* taken, and every other step leaves the receive queue alone.             *)
LEMMA RxQueueStep ==
  ASSUME Inv, RingSteps, PendingAreFrames, PendingAreFrames'
  PROVE  [RxQueue!Next]_(RxQueue!vars)
<1>1. RxCounts /\ RxFrames /\ MaxRx \in Nat /\ arrived \in 0 .. MaxRx
  BY BoundsAssumption DEF Inv, RxInv, TypeOK
<1> PICK d \in Nat : d = Len(delivered)
  BY <1>1, RxPlaces
<1> PICK a \in Nat : a = arrived
  BY <1>1, RxPlaces
<1>2. RxPending = Frames(d, a) /\ RxPending' = Frames(Len(delivered'), arrived')
  BY DEF PendingAreFrames
<1>3. CASE arrived' = arrived /\ delivered' = delivered
  BY <1>2, <1>3 DEF RxQueue!vars
<1>4. CASE CardReceives
  <2>1. arrived' = a + 1 /\ delivered' = delivered /\ a + 1 \in 1 .. MaxRx
    BY <1>1, <1>4 DEF CardReceives
  <2>2. d <= a
    <3>1. pc \in {"rx_clear", "rx_return"} => Returned + 1 = d /\ Returned < a
      BY <1>1 DEF RxCounts, Returned
    <3>2. pc \notin {"rx_clear", "rx_return"} => d <= Returned /\ Returned <= a
      BY <1>1 DEF RxCounts, Returned
    <3> QED BY <1>1, <3>1, <3>2 DEF RxCounts
  <2>3. RxPending' = Frames(d, a + 1)
    BY <1>2, <2>1
  <2>4. RxQueue!Put
    BY <1>2, <2>1, <2>2, <2>3, FramesPut, ZenonT(30) DEF RxQueue!Put
  <2> QED BY <2>4 DEF RxQueue!Next
<1>5. CASE recv_with /\ delivered' # delivered
  <2>1. /\ pc = "rx" /\ arrived' = arrived /\ delivered' = Append(delivered, rx_buf[rindex])
    BY <1>5 DEF recv_with
  <2>2. d = Returned /\ d < a
    BY <1>1, <2>1 DEF Returned, RxCounts
  <2>3. rx_buf[rindex] = d + 1
    <3>1. rindex = At(d, RX_RING_SIZE)
      BY <1>1, <2>2, RxPlaces
    <3> QED BY <1>1, <2>2, <3>1 DEF RxFrames
  <2>4. Len(delivered') = d + 1
    BY <1>1, <2>1, <2>3 DEF RxCounts
  <2>5. RxPending' = Frames(d + 1, a)
    BY <1>2, <2>1, <2>4
  <2>6. RxQueue!Take(TRUE)
    BY <1>2, <2>1, <2>2, <2>3, <2>5, FramesTake, SMTT(30) DEF RxQueue!Take, Whole
  <2> QED BY <2>6, Zenon DEF RxQueue!Next
<1>6. CASE recv_with /\ delivered' = delivered
  BY <1>3, <1>6 DEF recv_with
<1>7. CASE \/ Plain \/ recv_clear \/ recv_return \/ transmit_with \/ transmit_kick
           \/ CardTransmits \/ CardSetsDD
  BY <1>3, <1>7 DEF Plain, recv_clear, recv_return, transmit_with, transmit_kick, CardTransmits,
                    CardSetsDD, rxVars
<1> QED BY <1>4, <1>5, <1>6, <1>7 DEF RingSteps

(* A frame the tail register passes is put, a frame the card sends is      *)
(* taken, and every other step leaves the transmit queue alone.            *)
LEMMA TxQueueStep ==
  ASSUME Inv, RingSteps, PendingAreFrames, PendingAreFrames'
  PROVE  [TxQueue!Next]_(TxQueue!vars)
<1>1. TypeOK /\ TxInv /\ TxCounts /\ TxFrames /\ MaxTx \in Nat /\ posted \in 0 .. MaxTx
  BY BoundsAssumption DEF Inv, TxInv, TypeOK
<1> PICK n \in Nat \ {0} : n = TX_RING_SIZE
  BY SizesAssumption
<1> PICK w \in Nat : w = Len(wire)
  BY <1>1, TxPlaces
<1> PICK c \in Nat : c = Kicked
  BY <1>1, TxPlaces
<1>2. TxPending = Frames(w, c) /\ TxPending' = Frames(Len(wire'), Kicked')
  BY DEF PendingAreFrames
<1>3. CASE wire' = wire /\ Kicked' = Kicked
  BY <1>2, <1>3 DEF TxQueue!vars
<1>4. CASE transmit_kick
  <2>1. pc = "tx_kick" /\ pc' = "idle" /\ posted' = posted /\ wire' = wire
    BY <1>4 DEF transmit_kick
  <2>2. Kicked' = c + 1 /\ c + 1 \in 1 .. MaxTx
    BY <1>1, <2>1 DEF Kicked
  <2>3. w <= c
    BY <1>1 DEF TxCounts
  <2>4. TxPending' = Frames(w, c + 1)
    BY <1>2, <2>1, <2>2
  <2>5. TxQueue!Put
    BY <1>2, <2>1, <2>2, <2>3, <2>4, FramesPut, ZenonT(30) DEF TxQueue!Put
  <2> QED BY <2>5 DEF TxQueue!Next
<1>5. CASE CardTransmits
  <2>1. TDH # TDT /\ wire' = Append(wire, tx_buf[TDH]) /\ Kicked' = c
    BY <1>5 DEF CardTransmits, Kicked
  <2>2. w < c
    BY <1>1, <2>1, TxPlaces
  <2>3. TDH = At(w, n) /\ w < posted
    BY <1>1, <2>2 DEF TxCounts, Kicked
  <2>4. tx_buf[TDH] = w + 1
    BY <1>1, <2>3 DEF TxFrames
  <2>5. Len(wire') = w + 1
    BY <1>1, <2>1, <2>4 DEF TxCounts
  <2>6. TxPending' = Frames(w + 1, c)
    BY <1>2, <2>1, <2>5
  <2>7. TxQueue!Take(TRUE)
    BY <1>2, <2>1, <2>2, <2>4, <2>6, FramesTake, Zenon DEF TxQueue!Take, Whole
  <2> QED BY <2>7, Zenon DEF TxQueue!Next
<1>6. CASE transmit_with
  <2>1. pc' = "tx_kick"
    BY <1>1, <1>6, TransmitWithTx
  <2>2. pc # "tx_kick" /\ posted' = posted + 1 /\ wire' = wire
    BY <1>6, <2>1 DEF transmit_with
  <2>3. Kicked' = Kicked
    BY <1>1, <2>1, <2>2 DEF Kicked
  <2> QED BY <1>3, <2>2, <2>3
<1>7. CASE Plain
  BY <1>3, <1>7, Zenon DEF Plain, Kicked, txVars
<1>8. CASE recv_with \/ recv_clear \/ recv_return \/ CardReceives \/ CardSetsDD
  <2>1. posted' = posted /\ wire' = wire
    BY <1>8 DEF recv_with, recv_clear, recv_return, CardReceives, CardSetsDD, txVars
  <2>2. pc' = "tx_kick" <=> pc = "tx_kick"
    BY <1>8 DEF recv_with, recv_clear, recv_return, CardReceives, CardSetsDD
  <2>3. Kicked' = Kicked
    BY <2>1, <2>2, Zenon DEF Kicked
  <2> QED BY <1>3, <2>1, <2>3
<1> QED BY <1>4, <1>5, <1>6, <1>7, <1>8 DEF RingSteps

(* For every ring size and any number of frames, both rings are FIFOs:     *)
(* recv_with hands every frame over once, whole and in order, and the card *)
(* sends each frame transmit_with made ready once and in order, whatever   *)
(* the other side does between any two of their steps.                     *)
THEOREM RingsImplementQueues == Spec => RingsAreQueues
<1>1. Inv => PendingAreFrames
  BY RxPendingIs, TxPendingIs DEF PendingAreFrames
<1>2. Init => RxQueue!Init /\ TxQueue!Init
  <2> SUFFICES ASSUME Init PROVE RxQueue!Init /\ TxQueue!Init
    OBVIOUS
  <2>1. PendingAreFrames
    BY <1>1, InitInv
  <2>2. Len(delivered) = 0 /\ arrived = 0 /\ Len(wire) = 0 /\ Kicked = 0
    BY DEF Init, Kicked
  <2>3. Frames(0, 0) = << >>
    BY DEF Frames
  <2> QED BY <2>1, <2>2, <2>3 DEF Init, PendingAreFrames, RxQueue!Init, TxQueue!Init
<1>3. Inv /\ PendingAreFrames /\ PendingAreFrames' /\ [Next]_vars
        => [RxQueue!Next]_(RxQueue!vars) /\ [TxQueue!Next]_(TxQueue!vars)
  BY RingStep, RxQueueStep, TxQueueStep
<1> QED
  BY <1>1, <1>2, <1>3, RingCounts, PTL
     DEF Spec, RingsAreQueues, RxIsQueue, TxIsQueue, RxQueue!Spec, TxQueue!Spec
=============================================================================
