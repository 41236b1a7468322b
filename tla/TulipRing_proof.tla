--------------------------- MODULE TulipRing_proof ---------------------------
(***************************************************************************)
(* The tulip for rings of any size and any number of frames.  First its    *)
(* interrupts: the edge-triggered line is never left high unnoticed        *)
(* (NeverDeaf), and no frame is forgotten but in the two cases that        *)
(* FrameNoticed names.  Then its rings: driver and card stay in step       *)
(* (DescriptorsInv), and both rings are queues (RingsAreQueues).           *)
(*                                                                         *)
(* The rings are counted without wrapping: frame n lies in descriptor      *)
(* (n - 1) modulo the ring size, in the transmit ring n, behind the setup  *)
(* frame; rx_next, tx_next and the card's places are such counts, and OWN  *)
(* marks the descriptors between them (RxInv and TxInv).                   *)
(***************************************************************************)
EXTENDS TulipRing, FiniteSetTheorems, TLAPS

(* Until probe is over the card stays masked and the task queued, and the  *)
(* pin is routed before the card is unmasked.                              *)
ProbeOrder ==
  /\ pc \in {"new", "setup_wait", "route"} => ~routed
  /\ pc \in {"new", "setup_wait", "route", "enable"} =>
       ~unmasked /\ ~latched /\ handler = "idle"

(* In the middle of tulip_handler the card is masked. *)
HandlerMasks == handler \in {"read", "ack", "unmask"} => ~unmasked

(* A task that sleeps will be polled, or can be woken by the handler.      *)
Wakeable == task = "asleep" => registered \/ woken

IInv == IrqTypeOK /\ ProbeOrder /\ HandlerMasks /\ Wakeable /\ NeverDeaf /\ FrameNoticed

(* The steps of probe, driver and card that leave interrupts, the task and *)
(* the next receive descriptor alone *)
Aside ==
  /\ UNCHANGED <<irqVars, rx_own, rx_next>>
  /\ \/ pc' = pc
     \/ pc' \notin {"new", "setup_wait", "route", "enable"}
     \/ pc \in {"new", "setup_wait"} /\ pc' \in {"setup_wait", "route"}

(* The steps of the rings are such steps, but for the ones that return a   *)
(* receive descriptor or fill one.                                         *)
LEMMA RingStepsAside ==
  ASSUME \/ send_setup_frame \/ setup_done
         \/ receive \/ transmit \/ recv_with \/ transmit_with \/ transmit_own
         \/ DropTxToken \/ CardTransmits \/ UNCHANGED vars
  PROVE  Aside
<1> USE DEF Aside, rxVars, txVars
<1>1. CASE send_setup_frame \/ setup_done
  BY <1>1 DEF send_setup_frame, setup_done
<1>2. CASE receive \/ transmit \/ DropTxToken
  BY <1>2 DEF receive, transmit, DropTxToken
<1>3. CASE recv_with \/ transmit_with \/ transmit_own
  BY <1>3 DEF recv_with, transmit_with, transmit_own
<1>4. CASE CardTransmits \/ UNCHANGED vars
  BY <1>4 DEF CardTransmits, vars, ringVars
<1> QED
  BY <1>1, <1>2, <1>3, <1>4

(* Such a step keeps the invariant. *)
LEMMA AsideInv == IInv /\ Aside => IInv'
<1> SUFFICES ASSUME IInv, Aside PROVE IInv'
  OBVIOUS
<1> USE DEF IInv, Aside, irqVars, lineVars, taskVars
<1>1. IrqTypeOK' /\ HandlerMasks' /\ Wakeable'
  BY DEF IrqTypeOK, HandlerMasks, Wakeable
<1>2. ProbeOrder'
  BY DEF ProbeOrder
<1>3. NeverDeaf' /\ FrameNoticed'
  BY DEF NeverDeaf, Deaf, Line, FrameNoticed, has_rx_packet
<1> QED
  BY <1>1, <1>2, <1>3

(* Init establishes the invariant: everything is off. *)
LEMMA InitInv == Init => IInv
  BY Zenon DEF Init, IrqInit, IInv, IrqTypeOK, ProbeOrder, HandlerMasks, Wakeable, NeverDeaf,
         Deaf, FrameNoticed

(* Probe routes the pin while the card is masked, then unmasks it: if a    *)
(* frame has come by then, the line rises now.                             *)
LEMMA ProbeInv == IInv /\ (install_pci_isr \/ enable_interrupts) => IInv'
<1> SUFFICES ASSUME IInv, install_pci_isr \/ enable_interrupts PROVE IInv'
  OBVIOUS
<1> USE DEF IInv, rxVars, taskVars
<1>1. CASE install_pci_isr
  <2>1. IrqTypeOK' /\ ProbeOrder' /\ HandlerMasks' /\ Wakeable'
    BY <1>1 DEF install_pci_isr, Route, IrqTypeOK, ProbeOrder, HandlerMasks, Wakeable
  <2>2. NeverDeaf'
    BY <1>1 DEF install_pci_isr, Route, ProbeOrder, NeverDeaf, Deaf, Line
  <2>3. FrameNoticed'
    BY <1>1 DEF install_pci_isr, Route, FrameNoticed, has_rx_packet
  <2> QED
    BY <2>1, <2>2, <2>3
<1>2. CASE enable_interrupts
  <2>1. IrqTypeOK'
    BY <1>2 DEF enable_interrupts, Unmask, Latch, Line, IrqTypeOK
  <2>2. ProbeOrder' /\ HandlerMasks' /\ Wakeable'
    BY <1>2 DEF enable_interrupts, Unmask, ProbeOrder, HandlerMasks, Wakeable
  <2>3. NeverDeaf'
    BY <1>2 DEF enable_interrupts, Unmask, Latch, Line, IrqTypeOK, NeverDeaf, Deaf
  <2>4. FrameNoticed'
    BY <1>2 DEF enable_interrupts, Unmask, FrameNoticed, has_rx_packet
  <2> QED
    BY <2>1, <2>2, <2>3, <2>4
<1> QED
  BY <1>1, <1>2

(* The handler clears the cause only after it has masked the card, and     *)
(* what it clears it has seen; it ends with the task woken, if the task is *)
(* asleep.                                                                 *)
LEMMA HandlerInv == IInv /\ Handler => IInv'
<1> SUFFICES ASSUME IInv, Handler PROVE IInv'
  OBVIOUS
<1> USE DEF IInv, ringVars, rxVars, lineVars, taskVars
<1>1. CASE tulip_handler
  BY <1>1, Zenon DEF tulip_handler, IrqTypeOK, ProbeOrder, HandlerMasks, Wakeable, NeverDeaf,
              Deaf, Line, FrameNoticed
<1>2. CASE tulip_read
  BY <1>2 DEF tulip_read, IrqTypeOK, ProbeOrder, HandlerMasks, Wakeable, NeverDeaf,
              Deaf, Line, FrameNoticed
<1>3. CASE tulip_ack
  <2>1. IrqTypeOK'
    BY <1>3 DEF tulip_ack, Latch, Line, IrqTypeOK
  <2>2. ProbeOrder' /\ HandlerMasks' /\ Wakeable' /\ FrameNoticed'
    BY <1>3 DEF tulip_ack, ProbeOrder, HandlerMasks, Wakeable, FrameNoticed
  <2>3. NeverDeaf'
    BY <1>3 DEF tulip_ack, HandlerMasks, NeverDeaf, Deaf, Line
  <2> QED
    BY <2>1, <2>2, <2>3
<1>4. CASE tulip_unmask
  <2>1. IrqTypeOK'
    BY <1>4 DEF tulip_unmask, Latch, Line, IrqTypeOK
  <2>2. ProbeOrder' /\ HandlerMasks' /\ Wakeable' /\ FrameNoticed'
    BY <1>4 DEF tulip_unmask, ProbeOrder, HandlerMasks, Wakeable, FrameNoticed
  <2>3. NeverDeaf'
    BY <1>4 DEF tulip_unmask, Latch, Line, IrqTypeOK, NeverDeaf, Deaf
  <2> QED
    BY <2>1, <2>2, <2>3
<1>5. CASE handler_wake /\ UNCHANGED <<ringVars, status>>
  <2>1. IrqTypeOK'
    BY <1>5 DEF handler_wake, IrqTypeOK
  <2>2. ProbeOrder' /\ HandlerMasks' /\ Wakeable'
    BY <1>5 DEF handler_wake, ProbeOrder, HandlerMasks, Wakeable, IrqTypeOK
  <2>3. NeverDeaf'
    BY <1>5 DEF handler_wake, NeverDeaf, Deaf, Line
  <2>4. task = "polling" \/ woken' \/ missed' # {}
    BY <1>5 DEF handler_wake, Wakeable, IrqTypeOK
  <2>5. FrameNoticed'
    BY <1>5, <2>4 DEF handler_wake, FrameNoticed
  <2> QED
    BY <2>1, <2>2, <2>3, <2>5
<1> QED
  BY <1>1, <1>2, <1>3, <1>4, <1>5 DEF Handler

(* The task falls asleep registered, and beside a frame only if it says    *)
(* why.                                                                    *)
LEMMA TaskInv ==
  ASSUME IInv, UNCHANGED <<ringVars, status>>,
         \/ executor_poll \/ Refuse(has_rx_packet, has_tx_space) \/ register_waker
         \/ StackWakes
  PROVE  IInv'
<1> USE DEF IInv, ringVars, rxVars, lineVars
<1>1. UNCHANGED <<lineVars, handler, pc, rx_own, rx_next>>
  BY DEF executor_poll, Refuse, register_waker, StackWakes
<1>2. ProbeOrder' /\ HandlerMasks' /\ NeverDeaf'
  BY <1>1 DEF ProbeOrder, HandlerMasks, NeverDeaf, Deaf, Line
<1>3. IrqTypeOK'
  BY <1>1, Zenon DEF executor_poll, Refuse, register_waker, StackWakes, IrqTypeOK
<1>4. Wakeable'
  BY DEF executor_poll, Refuse, register_waker, StackWakes, Wakeable
<1>5. FrameNoticed'
  BY <1>1 DEF executor_poll, Refuse, register_waker, StackWakes, FrameNoticed, has_rx_packet
<1> QED
  BY <1>2, <1>3, <1>4, <1>5

(* A descriptor is returned by a task that goes on looking. *)
LEMMA ReturnInv == IInv /\ recv_return => IInv'
<1> SUFFICES ASSUME IInv, recv_return PROVE IInv'
  OBVIOUS
<1> USE DEF IInv, recv_return, irqVars, lineVars, taskVars
<1>1. IrqTypeOK' /\ ProbeOrder' /\ HandlerMasks' /\ Wakeable'
  BY DEF IrqTypeOK, ProbeOrder, HandlerMasks, Wakeable
<1>2. NeverDeaf' /\ FrameNoticed'
  BY DEF NeverDeaf, Deaf, Line, FrameNoticed, Runs
<1> QED
  BY <1>1, <1>2

(* A frame that arrives leaves its cause, and an edge if the line was low. *)
LEMMA CardInv == IInv /\ CardReceives => IInv'
<1> SUFFICES ASSUME IInv, CardReceives PROVE IInv'
  OBVIOUS
<1> USE DEF IInv, CardReceives, RaiseCause, taskVars
<1>1. IrqTypeOK'
  BY DEF IrqTypeOK, Latch, Line
<1>2. ProbeOrder'
  BY DEF ProbeOrder, Latch, Line, IrqTypeOK
<1>3. HandlerMasks' /\ Wakeable' /\ FrameNoticed'
  BY DEF HandlerMasks, Wakeable, FrameNoticed
<1>4. NeverDeaf'
  BY DEF NeverDeaf, Deaf, Latch, Line, IrqTypeOK
<1> QED
  BY <1>1, <1>2, <1>3, <1>4

(* The invariant holds in every reachable state. *)
THEOREM InterruptInvariant == Spec => []IInv
<1>1. IInv /\ [Next]_vars => IInv'
  <2> SUFFICES ASSUME IInv, [Next]_vars PROVE IInv'
    OBVIOUS
  <2>1. CASE Probe
    BY <2>1, ProbeInv, RingStepsAside, AsideInv DEF Probe
  <2>2. CASE Handler
    BY <2>2, HandlerInv
  <2>3. CASE Task
    BY <2>3, TaskInv, ReturnInv, RingStepsAside, AsideInv DEF Task
  <2>4. CASE CardReceives
    BY <2>4, CardInv
  <2>5. CASE CardTransmits \/ UNCHANGED vars
    BY <2>5, RingStepsAside, AsideInv
  <2>6. CASE StackWakes /\ UNCHANGED <<ringVars, status>>
    BY <2>6, TaskInv
  <2> QED
    BY <2>1, <2>2, <2>3, <2>4, <2>5, <2>6 DEF Next
<1> QED
  BY InitInv, <1>1, PTL DEF Spec

(* For any number of frames, the line of the routed pin is never left high *)
(* with no interrupt latched: probe's order and tulip_handler's masking,   *)
(* reading, clearing and unmasking lose no edge.                           *)
THEOREM NeverLeftDeaf == Spec => []NeverDeaf
<1>1. IInv => NeverDeaf
  BY DEF IInv
<1> QED
  BY InterruptInvariant, <1>1, PTL

(* For rings of any size, a frame in the receive ring always has the task  *)
(* looking for it or somebody on the way to wake the task, but for the two *)
(* exceptions of DynNic::receive: the first registration comes after the   *)
(* look, and a full transmit ring refuses the frame without an interrupt   *)
(* to come back for it.                                                    *)
THEOREM FramesAreNoticed == Spec => []FrameNoticed
<1>1. IInv => FrameNoticed
  BY DEF IInv
<1> QED
  BY InterruptInvariant, <1>1, PTL

(* For any number of frames and rings of any size, the card keeps raising  *)
(* interrupts and its frames are noticed: the line handling of probe and   *)
(* tulip_handler, and the waker of DynNic::receive, together.              *)
THEOREM TulipStaysAlert == Spec => []AlertInv
<1>1. NeverDeaf /\ FrameNoticed => AlertInv
  BY DEF AlertInv
<1> QED
  BY NeverLeftDeaf, FramesAreNoticed, <1>1, PTL
-----------------------------------------------------------------------------
(* The rings.  Both sides walk them modulo the ring size; the proof counts *)
(* without wrapping, and OWN tells the counts apart.                       *)

(* Receive descriptors the driver has given back *)
Returned == IF pc = "rx_return" THEN Len(delivered) - 1 ELSE Len(delivered)

(* Transmit descriptors that were given to the card, that tx_next has      *)
(* passed, and that were filled; the setup frame is the first of them      *)
Handed == IF pc = "new" THEN 0 ELSE IF pc = "tx_own" THEN posted ELSE posted + 1
Passed == IF pc \in {"new", "setup_wait"} THEN 0 ELSE Handed
Filled == IF pc = "new" THEN 0 ELSE posted + 1

(* The descriptor of item k, counted from 0, in a ring of n *)
At(k, n) == k % n

(* The receive ring: the card is ahead of the driver by a ring at most, a  *)
(* frame not handed over is in its buffer, and the card owns what it has   *)
(* not filled.                                                             *)
RxCounts ==
  /\ delivered \in Seq(Nat) /\ arrived \in Nat
  /\ Returned \in Nat /\ Returned <= arrived /\ arrived <= Returned + RX_RING_SIZE
  /\ pc \in {"rx", "rx_return"} => Returned < arrived
  /\ rx_next = At(Returned, RX_RING_SIZE) /\ card_rx = At(arrived, RX_RING_SIZE)
RxFrames == \A k \in Nat : Len(delivered) <= k /\ k < arrived => rx_buf[At(k, RX_RING_SIZE)] = k + 1
RxOwn ==
  \A k \in Nat : Returned <= k /\ k < Returned + RX_RING_SIZE =>
    (rx_own[At(k, RX_RING_SIZE)] <=> arrived <= k)
RxInv == RxCounts /\ RxFrames /\ RxOwn

(* The transmit ring: the driver is ahead of the card by a ring at most,   *)
(* what was filled and not sent is in its buffer, and the card owns what   *)
(* it was given and has not sent; a token means a free descriptor.         *)
TxCounts ==
  /\ wire \in Seq(Nat) /\ posted \in Nat
  /\ Len(wire) <= Handed /\ Handed <= Len(wire) + TX_RING_SIZE
  /\ pc \in {"rx", "rx_return", "reply", "tx", "tx_own"} => Handed < Len(wire) + TX_RING_SIZE
  /\ pc \in {"new", "setup_wait"} => posted = 0
  /\ tx_next = At(Passed, TX_RING_SIZE) /\ card_tx = At(Len(wire), TX_RING_SIZE)
TxFrames == \A k \in Nat : Len(wire) <= k /\ k < Filled => tx_buf[At(k, TX_RING_SIZE)] = k
TxOwn ==
  \A k \in Nat : Len(wire) <= k /\ k < Len(wire) + TX_RING_SIZE =>
    (tx_own[At(k, TX_RING_SIZE)] <=> k < Handed)
TxInv == TxCounts /\ TxFrames /\ TxOwn

RingInv == TypeOK /\ RxInv /\ TxInv /\ NoPanic
-----------------------------------------------------------------------------
(* Arithmetic of the rings *)

(* An index is a count without its whole turns of the ring. *)
LEMMA Turns ==
  ASSUME NEW n \in Nat \ {0}, NEW a \in Int
  PROVE  a % n \in 0 .. n - 1 /\ a \div n \in Int /\ a = n * (a \div n) + (a % n)
OBVIOUS

(* Counts at the same index are whole turns apart: less than one turn      *)
(* apart, they are equal.                                                  *)
LEMMA SameIndex ==
  ASSUME NEW n \in Nat \ {0}, NEW a \in Int, NEW b \in Int,
         NEW p \in Int, NEW q \in Int, NEW r \in Int,
         a = n * p + r, b = n * q + r, a - b < n, b - a < n
  PROVE  a = b
<1>1. a - b = n * (p - q) /\ b - a = n * (q - p)
  OBVIOUS
<1>2. CASE p - q >= 1
  <2>1. n * (p - q) >= n
    BY <1>2
  <2> QED BY <1>1, <2>1
<1>3. CASE q - p >= 1
  <2>1. n * (q - p) >= n
    BY <1>3
  <2> QED BY <1>1, <2>1
<1>4. CASE p = q
  BY <1>4
<1> QED BY <1>2, <1>3, <1>4

(* Two descriptors less than a turn apart are different ones. *)
LEMMA Apart ==
  ASSUME NEW n \in Nat \ {0}, NEW a \in Int, NEW b \in Int,
         a % n = b % n, a - b < n, b - a < n
  PROVE  a = b
<1>1. /\ a = n * (a \div n) + (a % n) /\ a \div n \in Int /\ a % n \in Int
      /\ b = n * (b \div n) + (a % n) /\ b \div n \in Int
  BY Turns
<1> QED BY <1>1, SameIndex, Zenon

(* A count that is r and some whole turns is at index r. *)
LEMMA IndexIs ==
  ASSUME NEW n \in Nat \ {0}, NEW a \in Int, NEW p \in Int, NEW r \in 0 .. n - 1,
         a = n * p + r
  PROVE  a % n = r
<1> DEFINE s == a % n
           t == a \div n
<1>1. s \in 0 .. n - 1 /\ t \in Int /\ a = n * t + s
  BY Turns
<1> HIDE DEF s, t
<1>2. a - r = n * p + 0 /\ a - s = n * t + 0 /\ a - r \in Int /\ a - s \in Int
  BY <1>1
<1>3. (a - r) - (a - s) < n /\ (a - s) - (a - r) < n
  BY <1>1
<1>4. a - r = a - s
  BY <1>1, <1>2, <1>3, 0 \in Int, SameIndex, Zenon
<1>5. r = s
  BY <1>1, <1>4
<1> QED BY <1>5 DEF s

(* An index that moves by d is the index of the count that moves by d. *)
LEMMA Move ==
  ASSUME NEW n \in Nat \ {0}, NEW a \in Int, NEW d \in Int
  PROVE  ((a % n) + d) % n = (a + d) % n
<1> DEFINE m == a % n
           p == a \div n
           r == (m + d) % n
           q == (m + d) \div n
<1>1. m \in Int /\ p \in Int /\ a = n * p + m
  BY Turns
<1>2. r \in 0 .. n - 1 /\ q \in Int /\ m + d = n * q + r
  BY <1>1, m + d \in Int, Turns
<1> HIDE DEF m, p, r, q
<1>3. n * (p + q) = n * p + n * q /\ p + q \in Int
  BY <1>1, <1>2
<1>4. a + d = n * (p + q) + r /\ a + d \in Int
  BY <1>1, <1>2, <1>3
<1>5. (a + d) % n = r
  BY <1>2, <1>3, <1>4, IndexIs, Zenon
<1> QED BY <1>5 DEF r, m

(* A whole turn changes no index. *)
LEMMA FullTurn ==
  ASSUME NEW n \in Nat \ {0}, NEW a \in Int
  PROVE  (a + n) % n = a % n
<1> DEFINE m == a % n
           p == a \div n
<1>1. m \in 0 .. n - 1 /\ p \in Int /\ a = n * p + m
  BY Turns
<1> HIDE DEF m, p
<1>2. a + n = n * (p + 1) + m /\ p + 1 \in Int /\ a + n \in Int
  BY <1>1
<1>3. (a + n) % n = m
  BY <1>1, <1>2, IndexIs
<1> QED BY <1>3 DEF m

(* How far one index is ahead of another is how far its count is. *)
LEMMA Distance ==
  ASSUME NEW n \in Nat \ {0}, NEW a \in Int, NEW b \in Int, a <= b, b - a < n
  PROVE  ((b % n) - (a % n)) % n = b - a
<1> DEFINE x == a % n
           p == a \div n
           y == b % n
           q == b \div n
<1>1. x \in Int /\ p \in Int /\ a = n * p + x
  BY Turns
<1>2. y \in Int /\ q \in Int /\ b = n * q + y
  BY Turns
<1> HIDE DEF x, p, y, q
<1>3. y - x = n * (p - q) + (b - a) /\ y - x \in Int /\ p - q \in Int
  BY <1>1, <1>2
<1>4. b - a \in 0 .. n - 1
  OBVIOUS
<1>5. (y - x) % n = b - a
  BY <1>3, <1>4, IndexIs, Zenon
<1> QED BY <1>5 DEF x, y

(* Every descriptor is at the index of one count of a turn. *)
LEMMA Covered ==
  ASSUME NEW n \in Nat \ {0}, NEW a \in Nat, NEW i \in 0 .. n - 1
  PROVE  \E k \in Nat : a <= k /\ k < a + n /\ k % n = i
<1> DEFINE m == i - a
           k == (m % n) + a
<1>1. m \in Int /\ m + a = i
  OBVIOUS
<1> HIDE DEF m
<1>2. m % n \in 0 .. n - 1
  BY <1>1, Turns
<1>3. k \in Nat /\ a <= k /\ k < a + n
  BY <1>2
<1>4. k % n = (m + a) % n
  BY <1>1, a \in Int, Move, Zenon
<1>5. i % n = i
  BY i = n * 0 + i, i \in Int, 0 \in Int, IndexIs
<1> QED BY <1>1, <1>3, <1>4, <1>5

(* The same facts for descriptors: a frame has a descriptor, ... *)
LEMMA Place ==
  ASSUME NEW n \in Nat \ {0}, NEW k \in Int
  PROVE  At(k, n) \in 0 .. n - 1
BY Turns DEF At

(* ... the next frame has the next one, ... *)
LEMMA NextPlace ==
  ASSUME NEW n \in Nat \ {0}, NEW k \in Int
  PROVE  (At(k, n) + 1) % n = At(k + 1, n)
BY 1 \in Int, Move, Zenon DEF At

(* ... it comes round after a turn, ... *)
LEMMA PlaceAgain ==
  ASSUME NEW n \in Nat \ {0}, NEW k \in Int
  PROVE  At(k + n, n) = At(k, n)
BY FullTurn, Zenon DEF At

(* ... and not before, ... *)
LEMMA PlacesApart ==
  ASSUME NEW n \in Nat \ {0}, NEW j \in Int, NEW k \in Int,
         j # k, j - k < n, k - j < n
  PROVE  At(j, n) # At(k, n)
BY Apart, Zenon DEF At

(* ... and a turn reaches every descriptor. *)
LEMMA EveryPlace ==
  ASSUME NEW n \in Nat \ {0}, NEW a \in Nat, NEW i \in 0 .. n - 1
  PROVE  \E k \in Nat : a <= k /\ k < a + n /\ i = At(k, n)
BY Covered, Zenon DEF At

(* Some steps on from a descriptor lies the one of the frame that many     *)
(* items later ...                                                        *)
LEMMA PlaceFrom ==
  ASSUME NEW n \in Nat \ {0}, NEW k \in Int, NEW d \in Int
  PROVE  (At(k, n) + d) % n = At(k + d, n)
BY Move, Zenon DEF At

(* ... and conversely, within a turn. *)
LEMMA StepsBetween ==
  ASSUME NEW n \in Nat \ {0}, NEW j \in Int, NEW k \in Int, j <= k, k - j < n
  PROVE  (At(k, n) - At(j, n)) % n = k - j
BY Distance, Zenon DEF At
-----------------------------------------------------------------------------
(* The receive ring *)

(* Before the step: places and counts *)
LEMMA RxPlaces ==
  ASSUME RxInv
  PROVE  /\ RX_RING_SIZE \in Nat \ {0} /\ Returned \in Nat /\ arrived \in Nat
         /\ Len(delivered) \in Nat /\ Returned <= Len(delivered) /\ Len(delivered) <= Returned + 1
         /\ Returned <= arrived /\ arrived <= Returned + RX_RING_SIZE
         /\ Len(delivered) <= arrived
         /\ rx_next = At(Returned, RX_RING_SIZE) /\ card_rx = At(arrived, RX_RING_SIZE)
         /\ has_rx_packet <=> Returned < arrived
         /\ rx_own[card_rx] => arrived < Returned + RX_RING_SIZE
<1> PICK n \in Nat \ {0} : n = RX_RING_SIZE
  BY SizesAssumption
<1>1. RxCounts /\ RxOwn
  BY DEF RxInv
<1> PICK r \in Nat : r = Returned
  BY <1>1 DEF RxCounts
<1> PICK a \in Nat : a = arrived
  BY <1>1 DEF RxCounts
<1> PICK d \in Nat : d = Len(delivered)
  BY <1>1 DEF RxCounts
<1>2. r <= a /\ a <= r + n /\ rx_next = At(r, n) /\ card_rx = At(a, n)
  BY <1>1 DEF RxCounts
<1>3. r <= d /\ d <= r + 1 /\ d <= a
  BY <1>1 DEF RxCounts, Returned
<1>4. rx_own[At(r, n)] <=> a <= r
  BY <1>1 DEF RxOwn
<1>5. has_rx_packet <=> r < a
  BY <1>2, <1>4 DEF has_rx_packet
<1>6. rx_own[card_rx] => a < r + n
  <2> SUFFICES ASSUME a = r + n PROVE ~rx_own[card_rx]
    BY <1>2
  <2>1. At(r + n, n) = At(r, n)
    BY r \in Int, PlaceAgain
  <2> QED BY <1>2, <1>4, <2>1
<1> QED BY <1>2, <1>3, <1>5, <1>6

(* A step that leaves the ring alone, and hands out a token at most *)
LEMMA RxAside ==
  ASSUME RxInv, UNCHANGED <<rx_own, rx_buf, rx_next, card_rx, arrived, delivered>>,
         \/ pc' = pc
         \/ pc # "rx_return" /\ pc' # "rx_return" /\ (pc' = "rx" => has_rx_packet)
  PROVE  RxInv'
<1>1. Returned' = Returned
  BY DEF Returned
<1>2. pc' \in {"rx", "rx_return"} => Returned < arrived
  BY RxPlaces DEF RxInv, RxCounts
<1>3. RxCounts'
  BY <1>1, <1>2 DEF RxInv, RxCounts
<1>4. RxFrames' /\ RxOwn'
  BY <1>1 DEF RxInv, RxFrames, RxOwn
<1> QED BY <1>3, <1>4 DEF RxInv

(* recv_with finds the frame it was promised. *)
LEMMA RecvWithRx == ASSUME RxInv, recv_with PROVE RxInv' /\ pc' = "rx_return"
<1> PICK n \in Nat \ {0} : n = RX_RING_SIZE
  BY SizesAssumption
<1> PICK r \in Nat : r = Returned
  BY RxPlaces
<1>1. RxCounts /\ RxFrames /\ RxOwn /\ pc = "rx"
  BY DEF RxInv, recv_with
<1>2. r = Len(delivered) /\ r < arrived /\ rx_next = At(r, n) /\ has_rx_packet
  BY <1>1, RxPlaces DEF Returned, RxCounts
<1>3. /\ delivered' = Append(delivered, rx_buf[rx_next]) /\ pc' = "rx_return"
      /\ rx_own' = rx_own /\ rx_buf' = rx_buf /\ rx_next' = rx_next /\ card_rx' = card_rx
      /\ arrived' = arrived
  BY <1>2 DEF recv_with, has_rx_packet
<1>4. rx_buf[rx_next] = r + 1
  BY <1>1, <1>2 DEF RxFrames
<1>5. delivered' \in Seq(Nat) /\ Len(delivered') = r + 1
  BY <1>1, <1>2, <1>3, <1>4 DEF RxCounts
<1>6. Returned' = r
  BY <1>3, <1>5 DEF Returned
<1>7. RxCounts'
  BY <1>1, <1>2, <1>3, <1>5, <1>6 DEF RxCounts
<1>8. RxFrames'
  <2> SUFFICES ASSUME NEW k \in Nat, r + 1 <= k, k < arrived PROVE rx_buf[At(k, n)] = k + 1
    BY <1>3, <1>5 DEF RxFrames
  <2> QED BY <1>1, <1>2 DEF RxFrames
<1>9. RxOwn'
  BY <1>1, <1>3, <1>6 DEF RxOwn
<1> QED BY <1>3, <1>7, <1>8, <1>9 DEF RxInv

(* The descriptor given back is the last one of the next turn. *)
LEMMA RecvReturnRx == ASSUME TypeOK, RxInv, recv_return PROVE RxInv'
<1> PICK n \in Nat \ {0} : n = RX_RING_SIZE
  BY SizesAssumption
<1> PICK r \in Nat : r = Returned
  BY RxPlaces
<1> PICK a \in Nat : a = arrived
  BY RxPlaces
<1>1. RxCounts /\ RxFrames /\ RxOwn /\ pc = "rx_return"
  BY DEF RxInv, recv_return
<1>2. r + 1 = Len(delivered) /\ r < a /\ a <= r + n /\ rx_next = At(r, n)
  BY <1>1, RxPlaces DEF Returned, RxCounts
<1>3. /\ rx_own' = [rx_own EXCEPT ![rx_next] = TRUE] /\ rx_next' = (rx_next + 1) % n
      /\ pc' = "reply" /\ rx_buf' = rx_buf /\ card_rx' = card_rx /\ arrived' = a
      /\ delivered' = delivered
  BY DEF recv_return
<1>4. Returned' = r + 1
  BY <1>2, <1>3 DEF Returned
<1>5. rx_next' = At(r + 1, n)
  BY <1>2, <1>3, r \in Int, NextPlace
<1>6. RxCounts'
  BY <1>1, <1>2, <1>3, <1>4, <1>5 DEF RxCounts
<1>7. RxFrames'
  BY <1>1, <1>3 DEF RxFrames
<1>8. RxOwn'
  <2> SUFFICES ASSUME NEW k \in Nat, r + 1 <= k, k < (r + 1) + n
               PROVE  rx_own'[At(k, n)] <=> a <= k
    BY <1>3, <1>4 DEF RxOwn
  <2>1. rx_own \in [0 .. n - 1 -> BOOLEAN]
    BY DEF TypeOK, RxIndices
  <2>2. At(k, n) \in 0 .. n - 1
    BY k \in Int, Place
  <2>3. rx_own'[At(k, n)] = IF At(k, n) = At(r, n) THEN TRUE ELSE rx_own[At(k, n)]
    BY <1>2, <1>3, <2>1, <2>2
  <2>4. CASE k = r + n
    <3>1. At(k, n) = At(r, n)
      BY <2>4, r \in Int, PlaceAgain
    <3> QED BY <1>2, <2>3, <2>4, <3>1
  <2>5. CASE k # r + n
    <3>1. At(k, n) # At(r, n)
      BY <2>5, k \in Int, r \in Int, k # r, k - r < n, r - k < n, PlacesApart
    <3>2. rx_own[At(k, n)] <=> a <= k
      BY <1>1, <2>5 DEF RxOwn
    <3> QED BY <2>3, <3>1, <3>2
  <2> QED BY <2>4, <2>5
<1> QED BY <1>6, <1>7, <1>8 DEF RxInv

(* The card fills the first descriptor it owns. *)
LEMMA CardReceivesRx == ASSUME TypeOK, RxInv, CardReceives PROVE RxInv'
<1> PICK n \in Nat \ {0} : n = RX_RING_SIZE
  BY SizesAssumption
<1> PICK r \in Nat : r = Returned
  BY RxPlaces
<1> PICK a \in Nat : a = arrived
  BY RxPlaces
<1> PICK d \in Nat : d = Len(delivered)
  BY RxPlaces
<1>1. RxCounts /\ RxFrames /\ RxOwn
  BY DEF RxInv
<1>2. r <= d /\ d <= a /\ r <= a /\ a < r + n /\ card_rx = At(a, n)
  BY RxPlaces DEF CardReceives
<1>3. /\ rx_own' = [rx_own EXCEPT ![card_rx] = FALSE]
      /\ rx_buf' = [rx_buf EXCEPT ![card_rx] = a + 1]
      /\ card_rx' = (card_rx + 1) % n /\ arrived' = a + 1
      /\ rx_next' = rx_next /\ delivered' = delivered /\ pc' = pc
  BY DEF CardReceives
<1>4. Returned' = r
  BY <1>3 DEF Returned
<1>5. card_rx' = At(a + 1, n)
  BY <1>2, <1>3, a \in Int, NextPlace
<1>6. RxCounts'
  BY <1>1, <1>2, <1>3, <1>4, <1>5 DEF RxCounts
<1>7. rx_own \in [0 .. n - 1 -> BOOLEAN] /\ DOMAIN rx_buf = 0 .. n - 1
  BY DEF TypeOK, RxIndices
<1>8. ASSUME NEW k \in Nat, r <= k, k < r + n
      PROVE  /\ rx_own'[At(k, n)] = IF k = a THEN FALSE ELSE rx_own[At(k, n)]
             /\ rx_buf'[At(k, n)] = IF k = a THEN a + 1 ELSE rx_buf[At(k, n)]
  <2>1. At(k, n) \in 0 .. n - 1
    BY k \in Int, Place
  <2>2. k # a => At(k, n) # At(a, n)
    BY <1>2, <1>8, k \in Int, a \in Int, k - a < n, a - k < n, PlacesApart
  <2> QED BY <1>2, <1>3, <1>7, <2>1, <2>2
<1>9. RxFrames'
  <2> SUFFICES ASSUME NEW k \in Nat, d <= k, k < a + 1 PROVE rx_buf'[At(k, n)] = k + 1
    BY <1>3 DEF RxFrames
  <2>1. k # a => rx_buf[At(k, n)] = k + 1
    BY <1>1 DEF RxFrames
  <2>2. r <= k /\ k < r + n
    BY <1>2
  <2>3. rx_buf'[At(k, n)] = IF k = a THEN a + 1 ELSE rx_buf[At(k, n)]
    BY <1>8, <2>2, Zenon
  <2> QED BY <2>1, <2>3
<1>10. RxOwn'
  <2> SUFFICES ASSUME NEW k \in Nat, r <= k, k < r + n PROVE rx_own'[At(k, n)] <=> a + 1 <= k
    BY <1>3, <1>4 DEF RxOwn
  <2>1. rx_own[At(k, n)] <=> a <= k
    BY <1>1 DEF RxOwn
  <2>2. rx_own'[At(k, n)] = IF k = a THEN FALSE ELSE rx_own[At(k, n)]
    BY <1>8, Zenon
  <2> QED BY <2>1, <2>2
<1> QED BY <1>6, <1>9, <1>10 DEF RxInv
-----------------------------------------------------------------------------
(* The transmit ring *)

(* Before the step: places and counts *)
LEMMA TxPlaces ==
  ASSUME TxInv
  PROVE  /\ TX_RING_SIZE \in Nat \ {0} /\ Len(wire) \in Nat /\ Handed \in Nat /\ posted \in Nat
         /\ Len(wire) <= Handed /\ Handed <= Len(wire) + TX_RING_SIZE
         /\ Handed <= Filled /\ Filled \in Nat
         /\ tx_next = At(Passed, TX_RING_SIZE) /\ card_tx = At(Len(wire), TX_RING_SIZE)
         /\ pc \notin {"new", "setup_wait"} => (has_tx_space <=> Handed < Len(wire) + TX_RING_SIZE)
         /\ tx_own[card_tx] <=> Len(wire) < Handed
<1> PICK n \in Nat \ {0} : n = TX_RING_SIZE
  BY SizesAssumption
<1>1. TxCounts /\ TxOwn
  BY DEF TxInv
<1> PICK w \in Nat : w = Len(wire)
  BY <1>1 DEF TxCounts
<1> PICK p \in Nat : p = posted
  BY <1>1 DEF TxCounts
<1>2. Handed \in Nat /\ Filled \in Nat /\ Handed <= Filled
  BY DEF Handed, Filled
<1> PICK h \in Nat : h = Handed
  BY <1>2
<1>3. w <= h /\ h <= w + n /\ tx_next = At(Passed, n) /\ card_tx = At(w, n)
  BY <1>1 DEF TxCounts
<1>4. tx_own[At(w, n)] <=> w < h
  BY <1>1 DEF TxOwn
<1>5. ASSUME pc \notin {"new", "setup_wait"} PROVE has_tx_space <=> h < w + n
  <2>1. tx_next = At(h, n)
    BY <1>3, <1>5 DEF Passed
  <2>2. CASE h < w + n
    BY <1>1, <1>3, <2>1, <2>2 DEF TxOwn, has_tx_space
  <2>3. CASE h = w + n
    <3>1. At(w + n, n) = At(w, n)
      BY w \in Int, PlaceAgain, Zenon
    <3>2. tx_own[At(w, n)]
      BY <1>4, <2>3
    <3> QED BY <2>1, <2>3, <3>1, <3>2 DEF has_tx_space
  <2> QED BY <1>3, <2>2, <2>3
<1> QED BY <1>2, <1>3, <1>4, <1>5

(* The places where the task holds a transmit token, or has just used it *)
TxToken == {"rx", "rx_return", "reply", "tx"}

(* A step that leaves the ring alone, and hands out a token at most *)
LEMMA TxAside ==
  ASSUME TxInv, UNCHANGED txVars,
         \/ pc' = pc
         \/ /\ pc \notin {"new", "setup_wait", "tx_own"} /\ pc' \notin {"new", "setup_wait", "tx_own"}
            /\ pc' \in TxToken => pc \in TxToken \/ has_tx_space
  PROVE  TxInv'
<1>1. Handed' = Handed /\ Passed' = Passed /\ Filled' = Filled
  BY DEF Handed, Passed, Filled, txVars
<1>2. TxCounts /\ TxFrames /\ TxOwn
  BY DEF TxInv
<1>3. UNCHANGED <<tx_own, tx_buf, tx_next, card_tx, posted, wire>>
  BY DEF txVars
<1>4. pc' \in {"rx", "rx_return", "reply", "tx", "tx_own"} => Handed < Len(wire) + TX_RING_SIZE
  BY <1>2, TxPlaces DEF TxCounts, TxToken
<1>5. TxCounts'
  BY <1>1, <1>2, <1>3, <1>4 DEF TxCounts
<1>6. TxFrames' /\ TxOwn'
  BY <1>1, <1>2, <1>3 DEF TxFrames, TxOwn
<1> QED BY <1>5, <1>6 DEF TxInv

(* send_setup_frame finds an empty ring. *)
LEMMA SendSetupTx == ASSUME TypeOK, TxInv, send_setup_frame PROVE TxInv' /\ pc' = "setup_wait"
<1> PICK n \in Nat \ {0} : n = TX_RING_SIZE
  BY SizesAssumption
<1>1. TxCounts /\ TxOwn /\ pc = "new"
  BY DEF TxInv, send_setup_frame
<1>2. /\ Handed = 0 /\ Len(wire) = 0 /\ posted = 0 /\ wire \in Seq(Nat)
      /\ tx_next = At(0, n) /\ card_tx = At(0, n)
  BY <1>1 DEF TxCounts, Handed, Passed
<1>3. ~tx_own[tx_next]
  BY <1>1, <1>2 DEF TxOwn
<1>4. /\ tx_buf' = [tx_buf EXCEPT ![tx_next] = 0] /\ tx_own' = [tx_own EXCEPT ![tx_next] = TRUE]
      /\ pc' = "setup_wait" /\ UNCHANGED <<tx_next, card_tx, posted, wire>>
  BY <1>3 DEF send_setup_frame, Setup
<1>5. Handed' = 1 /\ Passed' = 0 /\ Filled' = 1
  BY <1>2, <1>4 DEF Handed, Passed, Filled
<1>6. TxCounts'
  BY <1>2, <1>4, <1>5 DEF TxCounts
<1>7. tx_own \in [0 .. n - 1 -> BOOLEAN] /\ DOMAIN tx_buf = 0 .. n - 1 /\ At(0, n) \in 0 .. n - 1
  BY 0 \in Int, Place DEF TypeOK, TxIndices
<1>8. TxFrames'
  BY <1>2, <1>4, <1>5, <1>7 DEF TxFrames
<1>9. TxOwn'
  <2> SUFFICES ASSUME NEW k \in Nat, k < n PROVE tx_own'[At(k, n)] <=> k < 1
    BY <1>2, <1>4, <1>5 DEF TxOwn
  <2>1. At(k, n) \in 0 .. n - 1
    BY k \in Int, Place
  <2>2. k # 0 => At(k, n) # At(0, n)
    BY k \in Int, 0 \in Int, k - 0 < n, 0 - k < n, PlacesApart
  <2>3. tx_own'[At(k, n)] = IF k = 0 THEN TRUE ELSE tx_own[At(k, n)]
    BY <1>2, <1>4, <1>7, <2>1, <2>2, Zenon
  <2>4. k # 0 => ~tx_own[At(k, n)]
    BY <1>1, <1>2 DEF TxOwn
  <2> QED BY <2>3, <2>4
<1> QED BY <1>4, <1>6, <1>8, <1>9 DEF TxInv

(* Whether the card has sent the setup frame or not, the ring moves on.    *)
LEMMA SetupDoneTx == ASSUME TxInv, setup_done PROVE TxInv'
<1> PICK n \in Nat \ {0} : n = TX_RING_SIZE
  BY SizesAssumption
<1>1. TxCounts /\ TxFrames /\ TxOwn /\ pc = "setup_wait" /\ pc' = "route"
  BY DEF TxInv, setup_done
<1>2. tx_next' = (tx_next + 1) % n /\ UNCHANGED <<tx_own, tx_buf, card_tx, posted, wire>>
  BY DEF setup_done
<1>3. posted = 0 /\ tx_next = At(0, n) /\ Handed = 1 /\ Filled = 1
  BY <1>1 DEF TxCounts, Handed, Passed, Filled
<1>4. Handed' = 1 /\ Passed' = 1 /\ Filled' = 1
  BY <1>1, <1>2, <1>3 DEF Handed, Passed, Filled
<1>5. tx_next' = At(1, n)
  <2>1. (At(0, n) + 1) % n = At(0 + 1, n)
    BY 0 \in Int, NextPlace
  <2> QED BY <1>2, <1>3, <2>1
<1>6. TxCounts'
  BY <1>1, <1>2, <1>3, <1>4, <1>5 DEF TxCounts
<1>7. TxFrames' /\ TxOwn'
  BY <1>1, <1>2, <1>3, <1>4 DEF TxFrames, TxOwn
<1> QED BY <1>6, <1>7 DEF TxInv

(* transmit_with finds the descriptor it was promised, ... *)
LEMMA TransmitWithTx == ASSUME TypeOK, TxInv, transmit_with PROVE TxInv' /\ pc' = "tx_own"
<1> PICK n \in Nat \ {0} : n = TX_RING_SIZE
  BY SizesAssumption
<1> PICK w \in Nat : w = Len(wire)
  BY TxPlaces
<1> PICK h \in Nat : h = Handed
  BY TxPlaces
<1>1. TxCounts /\ TxFrames /\ TxOwn /\ pc \in {"tx", "reply"}
  BY DEF TxInv, transmit_with
<1>2. h = posted + 1 /\ Filled = h /\ tx_next = At(h, n) /\ w <= h /\ h < w + n
  BY <1>1 DEF TxCounts, Handed, Passed, Filled
<1>3. has_tx_space
  BY <1>1, <1>2, TxPlaces
<1>4. /\ tx_buf' = [tx_buf EXCEPT ![tx_next] = h] /\ posted' = h /\ pc' = "tx_own"
      /\ UNCHANGED <<tx_own, tx_next, card_tx, wire>>
  BY <1>2, <1>3 DEF transmit_with, has_tx_space
<1>5. Handed' = h /\ Passed' = h /\ Filled' = h + 1
  BY <1>4 DEF Handed, Passed, Filled
<1>6. TxCounts'
  BY <1>1, <1>2, <1>4, <1>5 DEF TxCounts
<1>7. DOMAIN tx_buf = 0 .. n - 1
  BY DEF TypeOK, TxIndices
<1>8. TxFrames'
  <2> SUFFICES ASSUME NEW k \in Nat, w <= k, k < h + 1 PROVE tx_buf'[At(k, n)] = k
    BY <1>4, <1>5 DEF TxFrames
  <2>1. At(k, n) \in 0 .. n - 1
    BY k \in Int, Place
  <2>2. k - h < n /\ h - k < n
    BY <1>2
  <2>3. k # h => At(k, n) # At(h, n)
    BY <2>2, k \in Int, h \in Int, PlacesApart
  <2>4. k # h => tx_buf[At(k, n)] = k
    BY <1>1, <1>2 DEF TxFrames
  <2> QED BY <1>2, <1>4, <1>7, <2>1, <2>3, <2>4
<1>9. TxOwn'
  BY <1>1, <1>4, <1>5 DEF TxOwn
<1> QED BY <1>4, <1>6, <1>8, <1>9 DEF TxInv

(* ... and hands it over. *)
LEMMA TransmitOwnTx == ASSUME TypeOK, TxInv, transmit_own PROVE TxInv'
<1> PICK n \in Nat \ {0} : n = TX_RING_SIZE
  BY SizesAssumption
<1> PICK w \in Nat : w = Len(wire)
  BY TxPlaces
<1> PICK h \in Nat : h = Handed
  BY TxPlaces
<1>1. TxCounts /\ TxFrames /\ TxOwn /\ pc = "tx_own"
  BY DEF TxInv, transmit_own
<1>2. h = posted /\ Filled = h + 1 /\ tx_next = At(h, n) /\ w <= h /\ h < w + n
  BY <1>1 DEF TxCounts, Handed, Passed, Filled
<1>3. /\ tx_own' = [tx_own EXCEPT ![tx_next] = TRUE] /\ tx_next' = (tx_next + 1) % n
      /\ pc' = "idle" /\ UNCHANGED <<tx_buf, card_tx, posted, wire>>
  BY DEF transmit_own
<1>4. Handed' = h + 1 /\ Passed' = h + 1 /\ Filled' = h + 1
  BY <1>2, <1>3 DEF Handed, Passed, Filled
<1>5. tx_next' = At(h + 1, n)
  BY <1>2, <1>3, h \in Int, NextPlace
<1>6. TxCounts'
  BY <1>1, <1>2, <1>3, <1>4, <1>5 DEF TxCounts
<1>7. TxFrames'
  BY <1>1, <1>2, <1>3, <1>4 DEF TxFrames
<1>8. tx_own \in [0 .. n - 1 -> BOOLEAN]
  BY DEF TypeOK, TxIndices
<1>9. TxOwn'
  <2> SUFFICES ASSUME NEW k \in Nat, w <= k, k < w + n PROVE tx_own'[At(k, n)] <=> k < h + 1
    BY <1>3, <1>4 DEF TxOwn
  <2>1. At(k, n) \in 0 .. n - 1
    BY k \in Int, Place, Zenon
  <2>2. k - h < n /\ h - k < n
    BY <1>2
  <2>3. k # h => At(k, n) # At(h, n)
    BY <2>2, k \in Int, h \in Int, PlacesApart
  <2>4. tx_own'[At(k, n)] = IF k = h THEN TRUE ELSE tx_own[At(k, n)]
    BY <1>2, <1>3, <1>8, <2>1, <2>3, Zenon
  <2>5. tx_own[At(k, n)] <=> k < h
    BY <1>1 DEF TxOwn
  <2> QED BY <2>4, <2>5
<1> QED BY <1>6, <1>7, <1>9 DEF TxInv

(* The card sends the oldest frame it owns. *)
LEMMA CardTransmitsTx == ASSUME TypeOK, TxInv, CardTransmits PROVE TxInv'
<1> PICK n \in Nat \ {0} : n = TX_RING_SIZE
  BY SizesAssumption
<1> PICK w \in Nat : w = Len(wire)
  BY TxPlaces
<1> PICK h \in Nat : h = Handed
  BY TxPlaces
<1>1. TxCounts /\ TxFrames /\ TxOwn
  BY DEF TxInv
<1>2. w < h /\ h <= w + n /\ h <= Filled /\ Filled \in Nat /\ card_tx = At(w, n)
  BY TxPlaces DEF CardTransmits
<1>3. /\ wire' = Append(wire, tx_buf[card_tx]) /\ tx_own' = [tx_own EXCEPT ![card_tx] = FALSE]
      /\ card_tx' = (card_tx + 1) % n /\ UNCHANGED <<tx_buf, tx_next, posted, pc>>
  BY DEF CardTransmits
<1>4. Handed' = h /\ Passed' = Passed /\ Filled' = Filled
  BY <1>3 DEF Handed, Passed, Filled
<1>5. tx_buf[card_tx] = w
  BY <1>1, <1>2 DEF TxFrames
<1>6. wire' \in Seq(Nat) /\ Len(wire') = w + 1
  BY <1>1, <1>3, <1>5 DEF TxCounts
<1>7. card_tx' = At(w + 1, n)
  BY <1>2, <1>3, w \in Int, NextPlace, Zenon
<1>8. TxCounts'
  BY <1>1, <1>2, <1>3, <1>4, <1>6, <1>7 DEF TxCounts
<1>9. TxFrames'
  <2> SUFFICES ASSUME NEW k \in Nat, w + 1 <= k, k < Filled PROVE tx_buf[At(k, n)] = k
    BY <1>3, <1>4, <1>6 DEF TxFrames
  <2> QED BY <1>1 DEF TxFrames
<1>10. tx_own \in [0 .. n - 1 -> BOOLEAN]
  BY DEF TypeOK, TxIndices
<1>11. TxOwn'
  <2> SUFFICES ASSUME NEW k \in Nat, w + 1 <= k, k < (w + 1) + n
               PROVE  tx_own'[At(k, n)] <=> k < h
    BY <1>4, <1>6 DEF TxOwn
  <2>1. At(k, n) \in 0 .. n - 1
    BY k \in Int, Place, Zenon
  <2>2. tx_own'[At(k, n)] = IF At(k, n) = At(w, n) THEN FALSE ELSE tx_own[At(k, n)]
    BY <1>2, <1>3, <1>10, <2>1
  <2>3. CASE k = w + n
    <3>1. At(w + n, n) = At(w, n)
      BY w \in Int, PlaceAgain, Zenon
    <3> QED BY <1>2, <2>2, <2>3, <3>1
  <2>4. CASE k # w + n
    <3>1. k # w /\ k - w < n /\ w - k < n /\ w <= k /\ k < w + n
      BY <2>4
    <3>2. At(k, n) # At(w, n)
      BY <3>1, k \in Int, w \in Int, PlacesApart
    <3>3. tx_own[At(k, n)] <=> k < h
      BY <1>1, <3>1 DEF TxOwn
    <3> QED BY <2>2, <3>2, <3>3
  <2> QED BY <2>3, <2>4
<1> QED BY <1>8, <1>9, <1>11 DEF TxInv
-----------------------------------------------------------------------------
(* All steps *)

(* The steps that leave both rings alone, and hand out a token at most *)
Plain ==
  /\ UNCHANGED <<rxVars, txVars>>
  /\ \/ pc' = pc
     \/ /\ {pc, pc'} \cap {"new", "setup_wait", "rx_return", "tx_own", "panic"} = {}
        /\ pc' = "rx" => has_rx_packet
        /\ pc' \in TxToken => pc \in TxToken \/ has_tx_space

(* What a step may be, as the rings see it *)
RingSteps ==
  \/ Plain \/ send_setup_frame \/ setup_done \/ recv_with \/ recv_return \/ transmit_with
  \/ transmit_own \/ CardReceives \/ CardTransmits

(* Every step is one of these. *)
LEMMA RingStep == ASSUME Next \/ UNCHANGED vars PROVE RingSteps
<1> USE DEF RingSteps, Plain, ringVars
<1>1. CASE Probe
  BY <1>1 DEF Probe, install_pci_isr, enable_interrupts, TxToken
<1>2. CASE Handler
  BY <1>2 DEF Handler, tulip_handler, tulip_read, tulip_ack, tulip_unmask
<1>3. CASE Task
  BY <1>3 DEF Task, receive, transmit, DropTxToken, TxToken
<1>4. CASE CardReceives \/ CardTransmits
  BY <1>4
<1>5. CASE StackWakes /\ UNCHANGED <<ringVars, status>>
  BY <1>5
<1>6. CASE UNCHANGED vars
  BY <1>6 DEF vars
<1> QED BY <1>1, <1>2, <1>3, <1>4, <1>5, <1>6 DEF Next

(* The counts of both rings are kept by every step, and no token was given *)
(* in vain.                                                                *)
LEMMA CountsStep ==
  ASSUME TypeOK, RxInv, TxInv, NoPanic, RingSteps
  PROVE  RxInv' /\ TxInv' /\ NoPanic'
<1> USE DEF NoPanic
<1>1. CASE Plain
  <2>1. UNCHANGED <<rx_own, rx_buf, rx_next, card_rx, arrived, delivered>> /\ UNCHANGED txVars
    BY <1>1 DEF Plain, rxVars
  <2> QED BY <1>1, <2>1, RxAside, TxAside, Zenon DEF Plain
<1>2. CASE send_setup_frame
  <2>1. /\ UNCHANGED <<rx_own, rx_buf, rx_next, card_rx, arrived, delivered>> /\ pc = "new"
        /\ pc' \in {"panic", "setup_wait"}
    BY <1>2 DEF send_setup_frame, rxVars
  <2> QED BY <1>2, <2>1, SendSetupTx, RxAside
<1>3. CASE setup_done
  <2>1. /\ UNCHANGED <<rx_own, rx_buf, rx_next, card_rx, arrived, delivered>> /\ pc = "setup_wait"
        /\ pc' = "route"
    BY <1>3 DEF setup_done
  <2> QED BY <1>3, <2>1, SetupDoneTx, RxAside
<1>4. CASE recv_with
  <2>1. UNCHANGED txVars /\ pc = "rx"
    BY <1>4 DEF recv_with
  <2> QED BY <1>4, <2>1, RecvWithRx, TxAside DEF TxToken
<1>5. CASE recv_return
  <2>1. UNCHANGED txVars /\ pc = "rx_return" /\ pc' = "reply"
    BY <1>5 DEF recv_return
  <2> QED BY <1>5, <2>1, RecvReturnRx, TxAside DEF TxToken
<1>6. CASE transmit_with
  <2>1. /\ UNCHANGED <<rx_own, rx_buf, rx_next, card_rx, arrived, delivered>>
        /\ pc \in {"tx", "reply"}
    BY <1>6 DEF transmit_with, rxVars
  <2> QED BY <1>6, <2>1, TransmitWithTx, RxAside
<1>7. CASE transmit_own
  <2>1. /\ UNCHANGED <<rx_own, rx_buf, rx_next, card_rx, arrived, delivered>> /\ pc = "tx_own"
        /\ pc' = "idle"
    BY <1>7 DEF transmit_own, rxVars
  <2> QED BY <1>7, <2>1, TransmitOwnTx, RxAside
<1>8. CASE CardReceives
  <2>1. UNCHANGED txVars /\ pc' = pc
    BY <1>8 DEF CardReceives
  <2> QED BY <1>8, <2>1, CardReceivesRx, TxAside
<1>9. CASE CardTransmits
  <2>1. UNCHANGED <<rx_own, rx_buf, rx_next, card_rx, arrived, delivered>> /\ pc' = pc
    BY <1>9 DEF CardTransmits, rxVars
  <2> QED BY <1>9, <2>1, CardTransmitsTx, RxAside
<1> QED BY <1>1, <1>2, <1>3, <1>4, <1>5, <1>6, <1>7, <1>8, <1>9 DEF RingSteps

(* The indices are counts, so they stay in the rings. *)
LEMMA IndexType ==
  ASSUME RxCounts', TxCounts'
  PROVE  {rx_next', card_rx'} \subseteq RxIndices /\ {tx_next', card_tx'} \subseteq TxIndices
<1> PICK n \in Nat \ {0} : n = RX_RING_SIZE
  BY SizesAssumption
<1> PICK m \in Nat \ {0} : m = TX_RING_SIZE
  BY SizesAssumption
<1>1. Returned' \in Int /\ arrived' \in Int /\ rx_next' = At(Returned', n) /\ card_rx' = At(arrived', n)
  BY DEF RxCounts
<1>2. rx_next' \in 0 .. n - 1 /\ card_rx' \in 0 .. n - 1
  BY <1>1, Place
<1>3. posted' \in Nat /\ wire' \in Seq(Nat)
  BY DEF TxCounts
<1>4. Len(wire)' \in Int
  BY <1>3
<1>5. Passed' \in Int
  <2>1. Passed' = 0 \/ Passed' = posted' \/ Passed' = posted' + 1
    BY ONLY Passed' = Passed' DEF Passed, Handed
  <2> QED BY ONLY <1>3, <2>1
<1>6. tx_next' = At(Passed', m) /\ card_tx' = At(Len(wire)', m)
  BY DEF TxCounts
<1>7. tx_next' \in 0 .. m - 1 /\ card_tx' \in 0 .. m - 1
  BY <1>4, <1>5, <1>6, Place
<1> QED BY <1>2, <1>7 DEF RxIndices, TxIndices

(* Buffers and descriptors keep their types. *)
LEMMA BufferType ==
  ASSUME TypeOK, RingSteps
  PROVE  /\ rx_own' \in [RxIndices -> BOOLEAN] /\ rx_buf' \in [RxIndices -> Blank .. MaxRx]
         /\ tx_own' \in [TxIndices -> BOOLEAN] /\ tx_buf' \in [TxIndices -> Blank .. MaxTx]
         /\ arrived' \in 0 .. MaxRx /\ posted' \in 0 .. MaxTx /\ rx_on' \in BOOLEAN
<1> DEFINE RxFrame == Blank .. MaxRx
           TxFrame == Blank .. MaxTx
           RxTyped(own, buf, n) ==
             own \in [RxIndices -> BOOLEAN] /\ buf \in [RxIndices -> RxFrame] /\ n \in 0 .. MaxRx
           TxTyped(own, buf, n) ==
             own \in [TxIndices -> BOOLEAN] /\ buf \in [TxIndices -> TxFrame] /\ n \in 0 .. MaxTx
<1> SUFFICES /\ RxTyped(rx_own', rx_buf', arrived') /\ TxTyped(tx_own', tx_buf', posted')
             /\ rx_on' \in BOOLEAN
  OBVIOUS
<1>1. /\ RxTyped(rx_own, rx_buf, arrived) /\ TxTyped(tx_own, tx_buf, posted) /\ rx_on \in BOOLEAN
  BY DEF TypeOK
<1>2. Setup \in TxFrame
  BY BoundsAssumption DEF Setup, Blank
<1>3. arrived < MaxRx => arrived + 1 \in RxFrame /\ arrived + 1 \in 0 .. MaxRx
  BY <1>1, BoundsAssumption DEF Blank
<1>4. posted < MaxTx => posted + 1 \in TxFrame /\ posted + 1 \in 0 .. MaxTx
  BY <1>1, BoundsAssumption DEF Blank
<1> HIDE DEF RxFrame, TxFrame
<1> USE DEF rxVars, txVars
<1>5. CASE Plain \/ setup_done \/ recv_with
  BY <1>1, <1>5, Zenon DEF Plain, setup_done, recv_with
<1>6. CASE send_setup_frame
  BY <1>1, <1>2, <1>6, Zenon DEF send_setup_frame
<1>7. CASE recv_return \/ transmit_own \/ CardTransmits
  BY <1>1, <1>7, Zenon DEF recv_return, transmit_own, CardTransmits
<1>8. CASE transmit_with
  BY <1>1, <1>4, <1>8 DEF transmit_with
<1>9. CASE CardReceives
  BY <1>1, <1>3, <1>9, ZenonT(30) DEF CardReceives
<1> QED BY <1>5, <1>6, <1>7, <1>8, <1>9 DEF RingSteps

(* ... and so does the rest. *)
LEMMA ControlType ==
  ASSUME TypeOK, Next \/ UNCHANGED vars
  PROVE  /\ status' \in BOOLEAN
         /\ pc' \in {"new", "setup_wait", "route", "enable", "idle", "rx", "rx_return", "tx",
                     "reply", "tx_own", "panic"}
<1> USE DEF TypeOK, ringVars
<1>1. CASE Probe
  BY <1>1 DEF Probe, send_setup_frame, setup_done, install_pci_isr, enable_interrupts
<1>2. CASE Handler
  BY <1>2 DEF Handler, tulip_handler, tulip_read, tulip_ack, tulip_unmask, IrqTypeOK
<1>3. CASE Task
  BY <1>3 DEF Task, receive, transmit, recv_with, recv_return, transmit_with, transmit_own,
              DropTxToken
<1>4. CASE CardReceives \/ CardTransmits
  BY <1>4 DEF CardReceives, CardTransmits
<1>5. CASE (StackWakes /\ UNCHANGED <<ringVars, status>>) \/ UNCHANGED vars
  BY <1>5 DEF vars
<1> QED BY <1>1, <1>2, <1>3, <1>4, <1>5 DEF Next

(* Both rings start empty, the receive ring owned by the card. *)
LEMMA InitRings == Init => RingInv
<1> SUFFICES ASSUME Init PROVE RingInv
  OBVIOUS
<1> PICK n \in Nat \ {0} : n = RX_RING_SIZE
  BY SizesAssumption
<1> PICK m \in Nat \ {0} : m = TX_RING_SIZE
  BY SizesAssumption
<1>1. /\ Returned = 0 /\ Handed = 0 /\ Passed = 0 /\ Filled = 0
      /\ Len(delivered) = 0 /\ Len(wire) = 0 /\ delivered \in Seq(Nat) /\ wire \in Seq(Nat)
  BY DEF Init, Returned, Handed, Passed, Filled
<1>2. At(0, n) = 0 /\ At(0, m) = 0
  <2>1. 0 = n * 0 + 0 /\ 0 = m * 0 + 0 /\ 0 \in Int /\ 0 \in 0 .. n - 1 /\ 0 \in 0 .. m - 1
    OBVIOUS
  <2> QED BY <2>1, IndexIs DEF At
<1>3. TypeOK
  <2>1. IrqTypeOK
    BY Zenon DEF Init, IrqInit, IrqTypeOK
  <2>2. /\ rx_own \in [RxIndices -> BOOLEAN] /\ tx_own \in [TxIndices -> BOOLEAN]
        /\ rx_buf \in [RxIndices -> Blank .. MaxRx] /\ tx_buf \in [TxIndices -> Blank .. MaxTx]
    BY BoundsAssumption DEF Init, Blank
  <2>3. {rx_next, card_rx} \subseteq RxIndices /\ {tx_next, card_tx} \subseteq TxIndices
    BY DEF Init, RxIndices, TxIndices
  <2>4. arrived \in 0 .. MaxRx /\ posted \in 0 .. MaxTx
    BY BoundsAssumption DEF Init
  <2> QED BY <2>1, <2>2, <2>3, <2>4 DEF Init, TypeOK
<1>4. RxInv
  <2>1. RxCounts /\ RxFrames
    BY <1>1, <1>2 DEF Init, RxCounts, RxFrames
  <2>2. \A k \in Nat : At(k, n) \in 0 .. n - 1
    BY Place
  <2>3. RxOwn
    BY <1>1, <2>2 DEF Init, RxOwn, RxIndices
  <2> QED BY <2>1, <2>3 DEF RxInv
<1>5. TxInv
  <2>1. TxCounts /\ TxFrames
    BY <1>1, <1>2 DEF Init, TxCounts, TxFrames
  <2>2. \A k \in Nat : At(k, m) \in 0 .. m - 1
    BY Place
  <2>3. TxOwn
    BY <1>1, <2>2 DEF Init, TxOwn, TxIndices
  <2> QED BY <2>1, <2>3 DEF TxInv
<1>6. NoPanic
  BY DEF Init, NoPanic
<1> QED BY <1>3, <1>4, <1>5, <1>6 DEF RingInv

(* The counts hold in every reachable state. *)
THEOREM RingCounts == Spec => []RingInv
<1>1. RingInv /\ IInv' /\ [Next]_vars => RingInv'
  <2> SUFFICES ASSUME RingInv, IInv', Next \/ UNCHANGED vars PROVE RingInv'
    OBVIOUS
  <2>1. TypeOK /\ RxInv /\ TxInv /\ NoPanic
    BY DEF RingInv
  <2>2. RingSteps
    BY RingStep
  <2>3. RxInv' /\ TxInv' /\ NoPanic'
    BY <2>1, <2>2, CountsStep
  <2>4. RxCounts' /\ TxCounts'
    BY <2>3 DEF RxInv, TxInv
  <2>5. IrqTypeOK'
    BY DEF IInv
  <2>6. TypeOK'
    BY <2>1, <2>2, <2>4, <2>5, IndexType, BufferType, ControlType DEF TypeOK
  <2> QED BY <2>3, <2>6 DEF RingInv
<1> QED BY <1>1, InitRings, InterruptInvariant, PTL DEF Spec
-----------------------------------------------------------------------------
(* How many descriptors each side owns *)

(* A stretch of the ring of at most a turn has a descriptor for every item. *)
LEMMA CountPlaces ==
  ASSUME NEW n \in Nat \ {0}, NEW a \in Nat, NEW b \in Nat, a <= b, b <= a + n,
         NEW S, \A k \in a .. b - 1 : At(k, n) \in S,
         \A i \in S : \E k \in a .. b - 1 : i = At(k, n)
  PROVE  Cardinality(S) = b - a
<1> DEFINE c == b - a
           f == [j \in 1 .. c |-> At(a + (j - 1), n)]
<1>1. c \in Nat
  OBVIOUS
<1>2. f \in [1 .. c -> S]
  OBVIOUS
<1>3. ASSUME NEW i \in 1 .. c, NEW j \in 1 .. c, f[i] = f[j] PROVE i = j
  <2>1. At(a + (i - 1), n) = At(a + (j - 1), n)
    BY <1>3
  <2>2. /\ a + (i - 1) \in Int /\ a + (j - 1) \in Int
        /\ (a + (i - 1)) - (a + (j - 1)) < n /\ (a + (j - 1)) - (a + (i - 1)) < n
    OBVIOUS
  <2>3. a + (i - 1) = a + (j - 1)
    BY <2>1, <2>2, PlacesApart, Zenon
  <2> QED BY <2>3
<1>4. ASSUME NEW s \in S PROVE \E j \in 1 .. c : f[j] = s
  <2>1. PICK k \in a .. b - 1 : s = At(k, n)
    OBVIOUS
  <2>2. (k - a) + 1 \in 1 .. c /\ a + (((k - a) + 1) - 1) = k
    OBVIOUS
  <2>3. f[(k - a) + 1] = s
    BY <2>1, <2>2
  <2> QED BY <2>2, <2>3, Zenon
<1> HIDE DEF f
<1>5. DOMAIN f = 1 .. c
  BY <1>2
<1>6. f \in Bijection(1 .. c, S)
  BY <1>2, <1>3, <1>4, <1>5 DEF Bijection, Injection, Surjection, IsInjective
<1>7. ExistsBijection(1 .. c, S)
  BY <1>6 DEF ExistsBijection
<1> QED BY <1>1, <1>7, FS_CountingElements

(* The driver has the receive descriptors of the frames not given back, *)
LEMMA RxFilledCount ==
  ASSUME RingInv
  PROVE  Cardinality({i \in RxIndices : ~rx_own[i]}) = arrived - Returned
<1> PICK n \in Nat \ {0} : n = RX_RING_SIZE
  BY SizesAssumption
<1>1. RxInv /\ RxOwn
  BY DEF RingInv, RxInv
<1> PICK r \in Nat : r = Returned
  BY <1>1, RxPlaces
<1> PICK a \in Nat : a = arrived
  BY <1>1, RxPlaces
<1>2. r <= a /\ a <= r + n
  BY <1>1, RxPlaces
<1> DEFINE S == {i \in RxIndices : ~rx_own[i]}
<1>3. ASSUME NEW k \in r .. a - 1 PROVE At(k, n) \in S
  <2>1. At(k, n) \in RxIndices
    BY k \in Int, Place DEF RxIndices
  <2> QED BY <1>1, <1>2, <2>1, k \in Nat DEF RxOwn
<1>4. ASSUME NEW i \in S PROVE \E k \in r .. a - 1 : i = At(k, n)
  <2>1. PICK k \in Nat : r <= k /\ k < r + n /\ i = At(k, n)
    BY EveryPlace, Zenon DEF RxIndices
  <2>2. k < a
    BY <1>1, <2>1 DEF RxOwn
  <2> QED BY <2>1, <2>2
<1> HIDE DEF S
<1>5. Cardinality(S) = a - r
  BY <1>2, <1>3, <1>4, CountPlaces
<1> QED BY <1>5 DEF S

(* the card those of the rest of the turn, *)
LEMMA RxOwnedCount ==
  ASSUME RingInv
  PROVE  Cardinality({i \in RxIndices : rx_own[i]}) = (Returned + RX_RING_SIZE) - arrived
<1> PICK n \in Nat \ {0} : n = RX_RING_SIZE
  BY SizesAssumption
<1>1. RxInv /\ RxOwn
  BY DEF RingInv, RxInv
<1> PICK r \in Nat : r = Returned
  BY <1>1, RxPlaces
<1> PICK a \in Nat : a = arrived
  BY <1>1, RxPlaces
<1>2. r <= a /\ a <= r + n /\ r + n \in Nat /\ r + n <= a + n
  BY <1>1, RxPlaces
<1> DEFINE S == {i \in RxIndices : rx_own[i]}
<1>3. ASSUME NEW k \in a .. (r + n) - 1 PROVE At(k, n) \in S
  <2>1. At(k, n) \in RxIndices
    BY k \in Int, Place DEF RxIndices
  <2> QED BY <1>1, <1>2, <2>1, k \in Nat DEF RxOwn
<1>4. ASSUME NEW i \in S PROVE \E k \in a .. (r + n) - 1 : i = At(k, n)
  <2>1. PICK k \in Nat : r <= k /\ k < r + n /\ i = At(k, n)
    BY EveryPlace, Zenon DEF RxIndices
  <2>2. a <= k
    BY <1>1, <2>1 DEF RxOwn
  <2> QED BY <2>1, <2>2
<1> HIDE DEF S
<1>5. Cardinality(S) = (r + n) - a
  BY <1>2, <1>3, <1>4, CountPlaces, ZenonT(30)
<1> QED BY <1>5 DEF S

(* and the transmit descriptors it was given and has not sent. *)
LEMMA TxOwnedCount ==
  ASSUME RingInv
  PROVE  Cardinality({j \in TxIndices : tx_own[j]}) = Handed - Len(wire)
<1> PICK n \in Nat \ {0} : n = TX_RING_SIZE
  BY SizesAssumption
<1>1. TxInv /\ TxOwn
  BY DEF RingInv, TxInv
<1> PICK w \in Nat : w = Len(wire)
  BY <1>1, TxPlaces
<1> PICK h \in Nat : h = Handed
  BY <1>1, TxPlaces
<1>2. w <= h /\ h <= w + n
  BY <1>1, TxPlaces
<1> DEFINE S == {j \in TxIndices : tx_own[j]}
<1>3. ASSUME NEW k \in w .. h - 1 PROVE At(k, n) \in S
  <2>1. At(k, n) \in TxIndices
    BY k \in Int, Place DEF TxIndices
  <2> QED BY <1>1, <1>2, <2>1, k \in Nat DEF TxOwn
<1>4. ASSUME NEW i \in S PROVE \E k \in w .. h - 1 : i = At(k, n)
  <2>1. PICK k \in Nat : w <= k /\ k < w + n /\ i = At(k, n)
    BY EveryPlace, Zenon DEF TxIndices
  <2>2. k < h
    BY <1>1, <2>1 DEF TxOwn
  <2> QED BY <2>1, <2>2
<1> HIDE DEF S
<1>5. Cardinality(S) = h - w
  BY <1>2, <1>3, <1>4, CountPlaces, ZenonT(30)
<1> QED BY <1>5 DEF S

(* OWN, rx_next and tx_next agree with the card's place in both rings, for *)
(* rings of any size: each side waits at a descriptor of the other's, so   *)
(* no token is used in vain and NicTulip's expects never fire.             *)
THEOREM DescriptorsInStep == Spec => []DescriptorsInv
<1>1. RingInv => DescriptorsInv
  <2> SUFFICES ASSUME RingInv PROVE DescriptorsInv
    OBVIOUS
  <2>1. RxInv /\ TxInv /\ RxOwn /\ TxOwn /\ TypeOK /\ NoPanic
    BY DEF RingInv, RxInv, TxInv
  <2> PICK n \in Nat \ {0} : n = RX_RING_SIZE
    BY SizesAssumption
  <2> PICK m \in Nat \ {0} : m = TX_RING_SIZE
    BY SizesAssumption
  <2> PICK r \in Nat : r = Returned
    BY <2>1, RxPlaces
  <2> PICK a \in Nat : a = arrived
    BY <2>1, RxPlaces
  <2> PICK w \in Nat : w = Len(wire)
    BY <2>1, TxPlaces
  <2> PICK h \in Nat : h = Handed
    BY <2>1, TxPlaces
  <2>2. /\ r <= a /\ a <= r + n /\ rx_next = At(r, n) /\ card_rx = At(a, n)
        /\ w <= h /\ h <= w + m /\ card_tx = At(w, m)
    BY <2>1, RxPlaces, TxPlaces
  <2>3. ASSUME NEW i \in RxIndices
        PROVE  rx_own[i] <=> (i - card_rx) % RX_RING_SIZE < Cardinality({j \in RxIndices : rx_own[j]})
    <3>1. PICK k \in Nat : a <= k /\ k < a + n /\ i = At(k, n)
      BY EveryPlace, ZenonT(30) DEF RxIndices
    <3>2. k - a < n
      BY <3>1
    <3>3. (i - card_rx) % n = k - a
      BY <2>2, <3>1, <3>2, k \in Int, a \in Int, StepsBetween, Zenon
    <3>4. rx_own[i] <=> k < r + n
      <4>1. CASE k < r + n
        BY <2>1, <2>2, <3>1, <4>1 DEF RxOwn
      <4>2. CASE r + n <= k
        <5>1. k - n \in Nat /\ r <= k - n /\ k - n < a /\ k - n < r + n /\ (k - n) + n = k
          BY <2>2, <3>1, <4>2
        <5>2. ~rx_own[At(k - n, n)]
          BY <2>1, <5>1 DEF RxOwn
        <5>3. At((k - n) + n, n) = At(k - n, n)
          BY k - n \in Int, PlaceAgain
        <5> QED BY <3>1, <4>2, <5>1, <5>2, <5>3
      <4> QED BY <4>1, <4>2
    <3>5. k < r + n <=> k - a < (r + n) - a
      OBVIOUS
    <3> QED BY <3>3, <3>4, <3>5, RxOwnedCount
  <2>4. ASSUME NEW i \in TxIndices
        PROVE  tx_own[i] <=> (i - card_tx) % TX_RING_SIZE < Cardinality({j \in TxIndices : tx_own[j]})
    <3>1. PICK k \in Nat : w <= k /\ k < w + m /\ i = At(k, m)
      BY EveryPlace, ZenonT(30) DEF TxIndices
    <3>2. k - w < m
      BY <3>1
    <3>3. (i - card_tx) % m = k - w
      BY <2>2, <3>1, <3>2, k \in Int, w \in Int, StepsBetween, Zenon
    <3>4. tx_own[i] <=> k < h
      BY <2>1, <3>1 DEF TxOwn
    <3>5. k < h <=> k - w < h - w
      OBVIOUS
    <3> QED BY <3>3, <3>4, <3>5, TxOwnedCount
  <2>5. (card_rx - rx_next - Cardinality({j \in RxIndices : ~rx_own[j]})) % RX_RING_SIZE = 0
    <3>1. At(a, n) - At(r, n) - (a - r) = n * ((r \div n) - (a \div n)) + 0
          /\ (r \div n) - (a \div n) \in Int /\ At(a, n) - At(r, n) - (a - r) \in Int
      <4>1. a % n \in Int /\ a \div n \in Int /\ a = n * (a \div n) + (a % n)
        BY a \in Int, Turns
      <4>2. r % n \in Int /\ r \div n \in Int /\ r = n * (r \div n) + (r % n)
        BY r \in Int, Turns
      <4> DEFINE p == a \div n
                 q == r \div n
                 x == a % n
                 y == r % n
      <4> HIDE DEF p, q, x, y
      <4>3. x \in Int /\ y \in Int /\ p \in Int /\ q \in Int /\ a = n * p + x /\ r = n * q + y
        BY <4>1, <4>2 DEF p, q, x, y
      <4>4. n * (q - p) = n * q - n * p /\ q - p \in Int
        BY <4>3
      <4>5. x - y - (a - r) = n * (q - p) + 0 /\ x - y - (a - r) \in Int
        BY <4>3, <4>4
      <4> QED BY <4>4, <4>5 DEF p, q, x, y, At
    <3>2. 0 \in 0 .. n - 1
      OBVIOUS
    <3>3. (At(a, n) - At(r, n) - (a - r)) % n = 0
      BY <3>1, <3>2, IndexIs, Zenon
    <3> QED BY <2>2, <3>3, RxFilledCount
  <2> QED BY <2>1, <2>3, <2>4, <2>5 DEF DescriptorsInv, RingsInStep
<1> QED BY <1>1, RingCounts, PTL
-----------------------------------------------------------------------------
(* Both rings are queues *)

(* The numbers after a, up to b *)
Numbers(a, b) == [i \in 1 .. b - a |-> a + i]

(* One more at the end, ... *)
LEMMA NumbersPut ==
  ASSUME NEW a \in Int, NEW b \in Int, a <= b
  PROVE  /\ Numbers(a, b + 1) # << >>
         /\ Numbers(a, b + 1)[Len(Numbers(a, b + 1))] = b + 1
         /\ Numbers(a, b + 1) = Append(Numbers(a, b), b + 1)
<1> DEFINE s == Numbers(a, b)
           t == Numbers(a, b + 1)
<1>1. s \in Seq(Int) /\ Len(s) = b - a /\ t \in Seq(Int) /\ Len(t) = (b - a) + 1
  BY DEF Numbers
<1>2. \A i \in 1 .. b - a : s[i] = a + i /\ t[i] = a + i
  BY DEF Numbers
<1>3. t[(b - a) + 1] = b + 1
  BY DEF Numbers
<1> HIDE DEF s, t
<1>4. Append(s, b + 1) \in Seq(Int) /\ Len(Append(s, b + 1)) = (b - a) + 1
  BY <1>1
<1>5. \A i \in 1 .. Len(t) : t[i] = Append(s, b + 1)[i]
  BY <1>1, <1>2, <1>3
<1>6. t = Append(s, b + 1)
  BY <1>1, <1>4, <1>5
<1> QED BY <1>1, <1>3, <1>6 DEF s, t

(* ... and one less in front. *)
LEMMA NumbersTake ==
  ASSUME NEW a \in Int, NEW b \in Int, a < b
  PROVE  /\ Numbers(a, b) # << >> /\ Head(Numbers(a, b)) = a + 1
         /\ Numbers(a + 1, b) = Tail(Numbers(a, b))
<1> DEFINE s == Numbers(a, b)
           t == Numbers(a + 1, b)
<1>1. s \in Seq(Int) /\ Len(s) = b - a /\ t \in Seq(Int) /\ Len(t) = (b - a) - 1
  BY DEF Numbers
<1>2. \A i \in 1 .. Len(t) : t[i] = (a + 1) + i /\ s[i + 1] = a + (i + 1)
  BY DEF Numbers
<1>3. s[1] = a + 1
  BY DEF Numbers
<1> HIDE DEF s, t
<1>4. Tail(s) \in Seq(Int) /\ Len(Tail(s)) = (b - a) - 1 /\ Head(s) = s[1] /\ s # << >>
  BY <1>1
<1>5. \A i \in 1 .. Len(t) : t[i] = Tail(s)[i]
  BY <1>1, <1>2, <1>4
<1>6. t = Tail(s)
  BY <1>1, <1>4, <1>5
<1> QED BY <1>3, <1>4, <1>6 DEF s, t

(* The receive ring holds the frames that came in and were not handed over, *)
LEMMA RxPendingIs == ASSUME RingInv PROVE RxPending = Numbers(Len(delivered), arrived)
<1> PICK n \in Nat \ {0} : n = RX_RING_SIZE
  BY SizesAssumption
<1>1. RxInv /\ RxFrames
  BY DEF RingInv, RxInv
<1> PICK r \in Nat : r = Returned
  BY <1>1, RxPlaces
<1> PICK d \in Nat : d = Len(delivered)
  BY <1>1, RxPlaces
<1> PICK a \in Nat : a = arrived
  BY <1>1, RxPlaces
<1> DEFINE filled == Cardinality({i \in RxIndices : ~rx_own[i]})
           taken == IF pc = "rx_return" THEN 1 ELSE 0
<1>2. filled = a - r /\ rx_next = At(r, n)
  BY <1>1, RxPlaces, RxFilledCount
<1>3. taken \in Int /\ d = r + taken
  BY DEF Returned
<1>4. RxPending = [i \in 1 .. filled - taken |-> rx_buf[(rx_next + taken + i - 1) % RX_RING_SIZE]]
  BY DEF RxPending
<1> HIDE DEF filled, taken
<1>5. filled - taken = a - d
  BY <1>2, <1>3
<1>6. ASSUME NEW i \in 1 .. a - d PROVE rx_buf[(rx_next + taken + i - 1) % RX_RING_SIZE] = d + i
  <2>1. (At(r, n) + (taken + (i - 1))) % n = At(r + (taken + (i - 1)), n)
    BY <1>3, r \in Int, taken + (i - 1) \in Int, PlaceFrom, Zenon
  <2>2. r + (taken + (i - 1)) = d + (i - 1)
    BY <1>3
  <2>3. At(r, n) \in Int
    BY r \in Int, Place
  <2>4. rx_next + taken + i - 1 = At(r, n) + (taken + (i - 1))
    BY <1>2, <1>3, <2>3
  <2>5. (rx_next + taken + i - 1) % RX_RING_SIZE = At(d + (i - 1), n)
    BY <2>1, <2>2, <2>4
  <2>6. d + (i - 1) \in Nat /\ d <= d + (i - 1) /\ d + (i - 1) < a /\ (d + (i - 1)) + 1 = d + i
    OBVIOUS
  <2>7. rx_buf[At(d + (i - 1), n)] = (d + (i - 1)) + 1
    BY <1>1, <2>6 DEF RxFrames
  <2> QED BY <2>5, <2>6, <2>7
<1>7. RxPending = [i \in 1 .. a - d |-> rx_buf[(rx_next + taken + i - 1) % RX_RING_SIZE]]
  BY <1>4, <1>5
<1> QED BY <1>6, <1>7, Zenon DEF Numbers

(* the transmit ring those handed to the card and not sent, the setup      *)
(* frame before all others.                                                *)
LEMMA TxPendingIs == ASSUME RingInv PROVE TxPending = Numbers(Len(wire) - 1, Handed - 1)
<1> PICK n \in Nat \ {0} : n = TX_RING_SIZE
  BY SizesAssumption
<1>1. TxInv /\ TxFrames
  BY DEF RingInv, TxInv
<1> PICK w \in Nat : w = Len(wire)
  BY <1>1, TxPlaces
<1> PICK h \in Nat : h = Handed
  BY <1>1, TxPlaces
<1>2. /\ Cardinality({j \in TxIndices : tx_own[j]}) = h - w /\ card_tx = At(w, n)
      /\ w <= h /\ h <= Filled /\ Filled \in Nat
  BY <1>1, TxPlaces, TxOwnedCount
<1>3. ASSUME NEW i \in 1 .. h - w PROVE tx_buf[(card_tx + i - 1) % TX_RING_SIZE] = (w - 1) + i
  <2>1. (At(w, n) + (i - 1)) % n = At(w + (i - 1), n)
    BY w \in Int, i - 1 \in Int, PlaceFrom, Zenon
  <2>2. At(w, n) \in Int
    BY w \in Int, Place
  <2>3. card_tx + i - 1 = At(w, n) + (i - 1)
    BY <1>2, <2>2
  <2>4. w + (i - 1) \in Nat /\ w <= w + (i - 1) /\ w + (i - 1) < Filled /\ w + (i - 1) = (w - 1) + i
    BY <1>2
  <2>5. tx_buf[At(w + (i - 1), n)] = w + (i - 1)
    BY <1>1, <2>4 DEF TxFrames
  <2> QED BY <2>1, <2>3, <2>4, <2>5
<1>4. TxPending = [i \in 1 .. h - w |-> tx_buf[(card_tx + i - 1) % TX_RING_SIZE]]
  BY <1>2 DEF TxPending
<1>5. (h - 1) - (w - 1) = h - w
  OBVIOUS
<1> QED BY <1>3, <1>4, <1>5, Zenon DEF Numbers

PendingAreNumbers ==
  /\ RxPending = Numbers(Len(delivered), arrived)
  /\ TxPending = Numbers(Len(wire) - 1, Handed - 1)

(* A frame the card takes in is put, a frame recv_with hands over is       *)
(* taken, and every other step leaves the receive queue alone.             *)
LEMMA RxQueueStep ==
  ASSUME RingInv, RingSteps, PendingAreNumbers, PendingAreNumbers'
  PROVE  [RxQueue!Next]_(RxQueue!vars)
<1>1. RxInv /\ RxCounts /\ RxFrames /\ MaxRx \in Nat /\ arrived \in 0 .. MaxRx
  BY BoundsAssumption DEF RingInv, RxInv, TypeOK
<1> PICK d \in Nat : d = Len(delivered)
  BY <1>1, RxPlaces
<1> PICK a \in Nat : a = arrived
  BY <1>1, RxPlaces
<1>2. RxPending = Numbers(d, a) /\ RxPending' = Numbers(Len(delivered'), arrived')
  BY DEF PendingAreNumbers
<1>3. CASE arrived' = arrived /\ delivered' = delivered
  BY <1>2, <1>3 DEF RxQueue!vars
<1>4. CASE CardReceives
  <2>1. arrived' = a + 1 /\ delivered' = delivered /\ a + 1 \in 1 .. MaxRx
    BY <1>1, <1>4 DEF CardReceives
  <2>2. d <= a
    BY <1>1, RxPlaces
  <2>3. RxPending' = Numbers(d, a + 1)
    BY <1>2, <2>1
  <2>4. RxQueue!Put
    BY <1>2, <2>1, <2>2, <2>3, d \in Int, a \in Int, NumbersPut, ZenonT(30) DEF RxQueue!Put
  <2> QED BY <2>4 DEF RxQueue!Next
<1>5. CASE recv_with
  <2>1. /\ pc = "rx" /\ arrived' = arrived /\ delivered' = Append(delivered, rx_buf[rx_next])
    BY <1>1, <1>5, RecvWithRx DEF recv_with
  <2>2. d = Returned /\ d < a
    BY <1>1, <2>1 DEF Returned, RxCounts
  <2>3. rx_buf[rx_next] = d + 1
    <3>1. rx_next = At(d, RX_RING_SIZE)
      BY <1>1, <2>2, RxPlaces
    <3> QED BY <1>1, <2>2, <3>1 DEF RxFrames
  <2>4. Len(delivered') = d + 1
    BY <1>1, <2>1, <2>3 DEF RxCounts
  <2>5. RxPending' = Numbers(d + 1, a)
    BY <1>2, <2>1, <2>4
  <2>6. RxQueue!Take(TRUE)
    BY <1>2, <2>1, <2>2, <2>3, <2>5, d \in Int, a \in Int, NumbersTake DEF RxQueue!Take, Whole
  <2> QED BY <2>6, Zenon DEF RxQueue!Next
<1>6. CASE \/ Plain \/ send_setup_frame \/ setup_done \/ recv_return \/ transmit_with
           \/ transmit_own \/ CardTransmits
  BY <1>3, <1>6 DEF Plain, send_setup_frame, setup_done, recv_return, transmit_with, transmit_own,
                    CardTransmits, rxVars
<1> QED BY <1>4, <1>5, <1>6 DEF RingSteps

(* The setup frame and a frame given to the card are put, what the card    *)
(* sends is taken, and every other step leaves the transmit queue alone.   *)
LEMMA TxQueueStep ==
  ASSUME RingInv, RingSteps, PendingAreNumbers, PendingAreNumbers'
  PROVE  [TxQueue!Next]_(TxQueue!vars)
<1>1. TypeOK /\ TxInv /\ TxCounts /\ TxFrames /\ MaxTx \in Nat /\ posted \in 0 .. MaxTx
  BY BoundsAssumption DEF RingInv, TxInv, TypeOK
<1> PICK n \in Nat \ {0} : n = TX_RING_SIZE
  BY SizesAssumption
<1> PICK w \in Nat : w = Len(wire)
  BY <1>1, TxPlaces
<1> PICK h \in Nat : h = Handed
  BY <1>1, TxPlaces
<1>2. /\ TxPending = Numbers(w - 1, h - 1) /\ TxPending' = Numbers(Len(wire') - 1, Handed' - 1)
  BY DEF PendingAreNumbers
<1>3. CASE wire' = wire /\ Handed' = Handed
  BY <1>2, <1>3 DEF TxQueue!vars
<1>4. ASSUME wire' = wire, Handed' = h + 1, h <= MaxTx PROVE TxQueue!Next
  <2>1. TxPending' = Numbers(w - 1, (h - 1) + 1)
    <3>1. (h + 1) - 1 = (h - 1) + 1
      OBVIOUS
    <3> QED BY <1>2, <1>4, <3>1
  <2>2. /\ Numbers(w - 1, (h - 1) + 1) # << >>
        /\ Numbers(w - 1, (h - 1) + 1)[Len(Numbers(w - 1, (h - 1) + 1))] = (h - 1) + 1
        /\ Numbers(w - 1, (h - 1) + 1) = Append(Numbers(w - 1, h - 1), (h - 1) + 1)
    <3>1. w - 1 \in Int /\ h - 1 \in Int /\ w - 1 <= h - 1
      BY <1>1, TxPlaces
    <3> QED BY <3>1, NumbersPut, Zenon
  <2>3. (h - 1) + 1 \in Setup .. MaxTx
    BY <1>1, <1>4 DEF Setup
  <2>4. TxQueue!Put
    BY <1>2, <1>4, <2>1, <2>2, <2>3 DEF TxQueue!Put
  <2> QED BY <2>4 DEF TxQueue!Next
<1>5. CASE send_setup_frame
  <2>1. pc = "new" /\ pc' = "setup_wait"
    BY <1>1, <1>5, SendSetupTx DEF send_setup_frame
  <2>2. posted' = posted /\ wire' = wire
    BY <1>5, <2>1 DEF send_setup_frame
  <2>3. h = 0 /\ Handed' = 1
    BY <1>1, <2>1, <2>2 DEF Handed, TxCounts
  <2> QED BY <1>1, <1>4, <2>2, <2>3
<1>6. CASE transmit_own
  <2>1. pc = "tx_own" /\ pc' = "idle" /\ posted' = posted /\ wire' = wire
    BY <1>6 DEF transmit_own
  <2>2. h = posted /\ Handed' = h + 1
    BY <2>1 DEF Handed
  <2> QED BY <1>1, <1>4, <2>1, <2>2
<1>7. CASE CardTransmits
  <2>1. wire' = Append(wire, tx_buf[card_tx]) /\ Handed' = h
    BY <1>7 DEF CardTransmits, Handed
  <2>2. w < h /\ h <= Filled /\ Filled \in Nat /\ card_tx = At(w, n)
    BY <1>1, <1>7, TxPlaces DEF CardTransmits
  <2>3. tx_buf[card_tx] = w
    BY <1>1, <2>2 DEF TxFrames
  <2>4. Len(wire') = w + 1
    BY <1>1, <2>1, <2>3 DEF TxCounts
  <2>5. TxPending' = Numbers((w - 1) + 1, h - 1)
    <3>1. (w + 1) - 1 = (w - 1) + 1
      OBVIOUS
    <3> QED BY <1>2, <2>1, <2>4, <3>1
  <2>6. /\ Numbers(w - 1, h - 1) # << >> /\ Head(Numbers(w - 1, h - 1)) = w
        /\ Numbers((w - 1) + 1, h - 1) = Tail(Numbers(w - 1, h - 1))
    <3>1. w - 1 \in Int /\ h - 1 \in Int /\ w - 1 < h - 1
      BY <2>2
    <3>2. Head(Numbers(w - 1, h - 1)) = (w - 1) + 1
      BY <3>1, NumbersTake
    <3> QED BY <3>1, <3>2, NumbersTake
  <2>7. TxQueue!Take(TRUE)
    BY <1>2, <2>1, <2>3, <2>5, <2>6 DEF TxQueue!Take, Whole
  <2> QED BY <2>7, Zenon DEF TxQueue!Next
<1>8. CASE Plain \/ setup_done \/ transmit_with \/ recv_with \/ recv_return \/ CardReceives
  <2>1. wire' = wire
    BY <1>8 DEF Plain, setup_done, transmit_with, recv_with, recv_return, CardReceives, txVars
  <2>2. CASE Plain
    BY <1>3, <2>1, <2>2, Zenon DEF Plain, Handed, txVars
  <2>3. CASE setup_done
    <3>1. pc = "setup_wait" /\ pc' = "route" /\ posted' = posted
      BY <2>3 DEF setup_done
    <3> QED BY <1>3, <2>1, <3>1 DEF Handed
  <2>4. CASE transmit_with
    <3>1. pc' = "tx_own"
      BY <1>1, <2>4, TransmitWithTx
    <3>2. pc \in {"tx", "reply"} /\ posted' = posted + 1
      BY <2>4, <3>1 DEF transmit_with
    <3> QED BY <1>3, <2>1, <3>1, <3>2 DEF Handed
  <2>5. CASE recv_with \/ recv_return \/ CardReceives
    <3>1. /\ posted' = posted
          /\ pc' = pc \/ {pc, pc'} \cap {"new", "tx_own"} = {}
      BY <2>5 DEF recv_with, recv_return, CardReceives, txVars
    <3>2. Handed' = Handed
      BY <3>1, Zenon DEF Handed
    <3> QED BY <1>3, <2>1, <3>2
  <2> QED BY <1>8, <2>2, <2>3, <2>4, <2>5
<1> QED BY <1>5, <1>6, <1>7, <1>8 DEF RingSteps

(* For rings of any size and any number of frames, both rings are FIFOs:   *)
(* recv_with hands every frame over once, whole and in order, and the card *)
(* sends the setup frame and then every frame once and in order, also when *)
(* the wait for the setup frame timed out.                                 *)
THEOREM RingsImplementQueues == Spec => RingsAreQueues
<1>1. RingInv => PendingAreNumbers
  BY RxPendingIs, TxPendingIs DEF PendingAreNumbers
<1>2. Init => RxQueue!Init /\ TxQueue!Init
  <2> SUFFICES ASSUME Init PROVE RxQueue!Init /\ TxQueue!Init
    OBVIOUS
  <2>1. PendingAreNumbers
    BY <1>1, InitRings
  <2>2. Len(delivered) = 0 /\ arrived = 0 /\ Len(wire) = 0 /\ Handed = 0
    BY DEF Init, Handed
  <2>3. Numbers(0, 0) = << >> /\ Numbers(0 - 1, 0 - 1) = << >>
    BY DEF Numbers
  <2> QED BY <2>1, <2>2, <2>3 DEF Init, PendingAreNumbers, RxQueue!Init, TxQueue!Init
<1>3. RingInv /\ PendingAreNumbers /\ PendingAreNumbers' /\ [Next]_vars
        => [RxQueue!Next]_(RxQueue!vars) /\ [TxQueue!Next]_(TxQueue!vars)
  BY RingStep, RxQueueStep, TxQueueStep
<1> QED
  BY <1>1, <1>2, <1>3, RingCounts, PTL
     DEF Spec, RingsAreQueues, RxIsQueue, TxIsQueue, RxQueue!Spec, TxQueue!Spec
=============================================================================
