------------------------ MODULE SintExecutor_proof ------------------------
(***************************************************************************)
(* No packet waits for a look of its channel's task but for the reasons    *)
(* NoLostWake names, for every set of channels, whether they share waker   *)
(* slots or not, every number of packets and every shape of the event-flag *)
(* page.                                                                   *)
(***************************************************************************)
EXTENDS SintExecutor, SequenceTheorems, TLAPS

(* The inductive invariant: the executor runs its whole batch before it    *)
(* takes the next one, and the handler has woken for all of one word when  *)
(* it reads the next.                                                      *)
WakeInv ==
  /\ TypeOK
  /\ cpu \notin InPoll \cup {"run"} => batch = {}
  /\ isr \in {"none", "read"} => w = {}
  /\ NoLostWake
  /\ FlagNoticed

(* The quotient of a number below W * n is below n. *)
LEMMA QuotientBound ==
  ASSUME NEW W \in Nat \ {0}, NEW n \in Nat, NEW q \in Nat, NEW m \in 0..(W - 1),
         W * q + m < W * n
  PROVE  q < n
<1>1. SUFFICES ASSUME q >= n PROVE FALSE
  OBVIOUS
<1>2. PICK d \in Nat : q = n + d
  BY <1>1, q - n \in Nat, q = n + (q - n)
<1>3. W * d \in Nat /\ W * n \in Nat
  OBVIOUS
<1>4. W * q = W * n + W * d
  BY <1>2
<1> QED BY <1>3, <1>4

(* A relid has a waker slot of the table and a word of the flags page. *)
LEMMA RelidRange ==
  ASSUME NEW r \in Relids
  PROVE  Slot(r) \in Slots /\ WordOf(r) \in 0..(Words - 1) /\ r # NoTask
<1>1. r \in Nat /\ r < WordBits * Words
  BY RelidsAssumption, SizesAssumption
<1>2. Slot(r) \in Slots
  BY <1>1, SizesAssumption DEF Slot, Slots
<1> DEFINE q == r \div WordBits
           m == r % WordBits
<1>3. q \in Nat /\ m \in 0..(WordBits - 1) /\ r = WordBits * q + m
  BY <1>1, SizesAssumption
<1>4. q < Words
  <2> HIDE DEF q, m
  <2>1. WordBits * q + m < WordBits * Words
    BY <1>1, <1>3
  <2>2. WordBits \in Nat \ {0} /\ Words \in Nat
    BY SizesAssumption
  <2> QED BY <1>3, <2>1, <2>2, QuotientBound
<1>5. WordOf(r) = q
  BY DEF WordOf
<1> HIDE DEF q, m
<1> QED BY <1>1, <1>2, <1>3, <1>4, <1>5, SizesAssumption DEF NoTask

(* The tasks start queued and the rings empty. *)
LEMMA WakeInit == Init => WakeInv
<1> SUFFICES ASSUME Init PROVE WakeInv
  OBVIOUS
<1>1. TypeOK
  <2>1. written \in 0..MaxBursts /\ sends \in 0..MaxSends
    BY BoundsAssumption DEF Init
  <2>2. ring \in [Relids -> Seq({"frame", "comp"})]
    BY DEF Init
  <2>3. word_idx \in 0..(Words - 1) /\ waker \in [Slots -> Relids \cup {NoTask}]
    BY SizesAssumption DEF Init
  <2> QED BY <2>1, <2>2, <2>3, Zenon DEF Init, TypeOK, InPoll
<1>2. NoLostWake /\ FlagNoticed
  BY DEF Init, NoLostWake, FlagNoticed
<1> QED BY <1>1, <1>2 DEF WakeInv, Init

(* The packets the host writes are frames and completions. *)
LEMMA RingGrows ==
  ASSUME NEW q \in Seq({"frame", "comp"}), NEW n \in Nat
  PROVE  /\ q \o [i \in 1 .. n |-> "frame"] \in Seq({"frame", "comp"})
         /\ Append(q, "comp") \in Seq({"frame", "comp"})
<1>1. [i \in 1 .. n |-> "frame"] \in Seq({"frame", "comp"})
  OBVIOUS
<1> QED BY <1>1, ConcatProperties

(* A write of the host leaves its channel unsignalled. *)
LEMMA WriteKeepsWakes ==
  ASSUME WakeInv, NEW r \in Relids, HostWrite(r) \/ HostComplete(r)
  PROVE  WakeInv'
<1> USE DEF WakeInv
<1>1. /\ UNCHANGED <<isrVars, taskVars, nicVars, cpu, missed>>
      /\ unsignalled' = unsignalled \cup {r} /\ posted' \subseteq posted
  BY DEF HostWrite, HostComplete
<1>2. written' \in 0..MaxBursts
  BY BoundsAssumption DEF HostWrite, HostComplete, TypeOK
<1>3. /\ ring' \in [Relids -> Seq({"frame", "comp"})]
      /\ \A s \in Relids : s # r => ring'[s] = ring[s]
  <2>1. ring \in [Relids -> Seq({"frame", "comp"})] /\ ring[r] \in Seq({"frame", "comp"})
    BY DEF TypeOK
  <2>2. PICK q \in Seq({"frame", "comp"}) : ring' = [ring EXCEPT ![r] = q]
    <3>1. CASE HostWrite(r)
      <4>1. PICK n \in Bursts : ring' = [ring EXCEPT ![r] = @ \o [i \in 1 .. n |-> "frame"]]
        BY <3>1 DEF HostWrite
      <4> QED BY <2>1, <4>1, RingGrows, BoundsAssumption
    <3>2. CASE HostComplete(r)
      <4>1. ring' = [ring EXCEPT ![r] = Append(@, "comp")]
        BY <3>2 DEF HostComplete
      <4>2. 0 \in Nat
        OBVIOUS
      <4> QED BY <2>1, <4>1, <4>2, RingGrows
    <3> QED BY <3>1, <3>2
  <2> QED BY <2>1, <2>2
<1>4. TypeOK'
  BY <1>1, <1>2, <1>3 DEF TypeOK, isrVars, taskVars, nicVars
<1>5. NoLostWake'
  BY <1>1, <1>3 DEF NoLostWake, WillLook, isrVars, taskVars, nicVars
<1> QED BY <1>1, <1>4, <1>5 DEF FlagNoticed, isrVars, taskVars

(* A flag the host sets is new, with SINT2, or was there already. *)
LEMMA SignalKeepsWakes ==
  ASSUME WakeInv, NEW r \in Relids, HostSignal(r)
  PROVE  WakeInv'
<1> USE DEF WakeInv
<1>1. TypeOK'
  BY DEF HostSignal, TypeOK, taskVars, nicVars
<1>2. NoLostWake'
  BY DEF HostSignal, NoLostWake, WillLook, taskVars, nicVars
<1>3. FlagNoticed'
  BY Zenon DEF HostSignal, FlagNoticed, TypeOK
<1> QED BY <1>1, <1>2, <1>3 DEF HostSignal, taskVars

(* The handler starts at word 0, before every flag; the timer moves none. *)
LEMMA InterruptKeepsWakes ==
  ASSUME WakeInv, Interrupt \/ TimerTick
  PROVE  WakeInv'
<1> USE DEF WakeInv
<1>1. CASE Interrupt
  <2>1. TypeOK'
    <3>1. /\ word_idx' \in 0..(Words - 1)
          /\ UNCHANGED <<hostVars, siefp, w, taskVars, nicVars, missed>>
      BY <1>1, SizesAssumption DEF Interrupt
    <3>2. /\ cpu' \in InPoll \cup {"poll", "run", "polled", "cli", "halted"}
          /\ cpu' \in InPoll <=> cpu \in InPoll
          /\ sint' \in BOOLEAN /\ isr' = "read"
      BY <1>1, Zenon DEF Interrupt, TypeOK, InPoll
    <3> QED BY <3>1, <3>2 DEF TypeOK, hostVars, taskVars, nicVars
  <2>2. NoLostWake'
    BY <1>1 DEF Interrupt, InterruptsEnabled, TypeOK, NoLostWake, WillLook, hostVars,
                taskVars, nicVars
  <2>3. FlagNoticed'
    BY <1>1, RelidRange DEF Interrupt, FlagNoticed, TypeOK
  <2> QED BY <1>1, <2>1, <2>2, <2>3
          DEF Interrupt, InterruptsEnabled, InPoll, hostVars, taskVars
<1>2. CASE TimerTick
  <2>1. TypeOK' /\ NoLostWake' /\ FlagNoticed'
    BY <1>2 DEF TimerTick, TypeOK, InPoll, NoLostWake, WillLook, FlagNoticed, hostVars,
                isrVars, taskVars, nicVars
  <2> QED BY <1>2, <2>1 DEF TimerTick, InPoll, hostVars, isrVars, taskVars
<1> QED BY <1>1, <1>2

(* A word without flags is passed by. *)
LEMMA ReadKeepsWakes ==
  ASSUME WakeInv, isr_read
  PROVE  WakeInv'
<1> USE DEF WakeInv
<1> DEFINE word == {r \in siefp : WordOf(r) = word_idx}
<1>1. NoLostWake' /\ cpu' = cpu /\ batch' = batch
  BY DEF isr_read, NoLostWake, WillLook, NextWord, hostVars, taskVars, nicVars
<1>2. CASE word = {}
  <2>1. NextWord /\ w' = w /\ siefp' = siefp /\ w = {} /\ sint' = sint
    BY <1>2 DEF isr_read
  <2>2. TypeOK'
    BY <2>1, SizesAssumption DEF isr_read, TypeOK, NextWord, hostVars, taskVars, nicVars
  <2>3. ASSUME NEW r \in siefp', ~sint' PROVE word_idx + 1 <= WordOf(r)
    <3>1. word_idx <= WordOf(r) /\ WordOf(r) # word_idx
      BY <1>2, <2>1, <2>3 DEF isr_read, FlagNoticed
    <3> QED BY <3>1, <2>1, <2>3, RelidRange DEF TypeOK
  <2>4. FlagNoticed'
    <3>1. SUFFICES ASSUME NEW r \in siefp', ~sint'
                   PROVE  isr' = "read" /\ word_idx' <= WordOf(r)
      BY DEF FlagNoticed
    <3>2. word_idx + 1 <= WordOf(r) /\ WordOf(r) \in 0..(Words - 1)
      BY <2>1, <2>3, <3>1, RelidRange DEF TypeOK
    <3> QED BY <2>1, <3>2, SizesAssumption DEF NextWord, TypeOK
  <2> QED BY <1>1, <2>1, <2>2, <2>4 DEF NextWord
<1>3. CASE word # {}
  <2>1. isr' = "clear" /\ w' = word /\ word_idx' = word_idx /\ siefp' = siefp /\ sint' = sint
    BY <1>3 DEF isr_read
  <2>2. TypeOK'
    BY <2>1 DEF isr_read, TypeOK, hostVars, taskVars, nicVars
  <2>3. FlagNoticed'
    BY <2>1 DEF FlagNoticed, isr_read
  <2> QED BY <1>1, <1>3, <2>1, <2>2, <2>3
<1> QED BY <1>2, <1>3

(* The flags cleared are those the handler holds in w, or are missed. *)
LEMMA ClearKeepsWakes ==
  ASSUME WakeInv, isr_clear
  PROVE  WakeInv'
<1> USE DEF WakeInv
<1>1. TypeOK'
  BY DEF isr_clear, TypeOK, hostVars, taskVars, nicVars
<1>2. NoLostWake'
  BY DEF isr_clear, NoLostWake, WillLook, hostVars, taskVars, nicVars
<1>3. FlagNoticed'
  BY RelidRange DEF isr_clear, FlagNoticed, TypeOK
<1> QED BY <1>1, <1>2, <1>3 DEF isr_clear, hostVars, taskVars, nicVars

(* A bit that leaves w has its task in the run queue. *)
LEMMA WakeKeepsWakes ==
  ASSUME WakeInv, isr_wake
  PROVE  WakeInv'
<1> USE DEF WakeInv
<1>1. PICK bit \in w :
        /\ runq' = runq \cup ({waker[Slot(bit)]} \ {NoTask})
        /\ missed' = IF waker[Slot(bit)] = bit THEN missed ELSE missed \cup {bit}
        /\ w' = w \ {bit}
        /\ IF w' = {} THEN NextWord ELSE UNCHANGED <<isr, word_idx>>
  BY DEF isr_wake
<1>2. bit \in Relids /\ waker[Slot(bit)] \in Relids \cup {NoTask} /\ bit # NoTask
  BY RelidRange DEF TypeOK
<1>3. runq \subseteq runq' /\ runq' \subseteq Relids /\ (bit \in runq' \/ bit \in missed')
      /\ missed \subseteq missed' /\ missed' \subseteq Relids
  BY <1>1, <1>2 DEF TypeOK
<1>4. TypeOK'
  <2>1. /\ isr' \in {"none", "read", "clear", "wake"} /\ word_idx' \in 0..(Words - 1)
        /\ w' \subseteq Relids
    BY <1>1, SizesAssumption DEF isr_wake, TypeOK, NextWord
  <2> QED BY <1>3, <2>1 DEF isr_wake, TypeOK, hostVars, nicVars
<1>5. NoLostWake'
  BY <1>1, <1>3 DEF isr_wake, NoLostWake, WillLook, hostVars, nicVars
<1>6. ASSUME NEW r \in siefp', ~sint' PROVE word_idx + 1 <= WordOf(r)
  <2>1. word_idx < WordOf(r)
    BY <1>6 DEF isr_wake, FlagNoticed
  <2> QED BY <2>1, RelidRange, <1>6 DEF TypeOK, isr_wake
<1>7. FlagNoticed'
  <2>1. SUFFICES ASSUME NEW r \in siefp', ~sint'
                 PROVE  \/ isr' = "read" /\ word_idx' <= WordOf(r)
                        \/ isr' = "wake" /\ word_idx' < WordOf(r)
    BY DEF FlagNoticed
  <2>2. word_idx + 1 <= WordOf(r) /\ WordOf(r) \in 0..(Words - 1)
    BY <1>6, <2>1, RelidRange DEF TypeOK, isr_wake
  <2> QED BY <1>1, <2>2, SizesAssumption DEF NextWord, TypeOK, isr_wake
<1>8. /\ isr' \in {"none", "read"} => w' = {}
  BY <1>1 DEF NextWord, isr_wake
<1> QED BY <1>4, <1>5, <1>7, <1>8 DEF isr_wake, hostVars, nicVars

(* After pump_channel, packets are left in the ring only if pending_rx is  *)
(* occupied: it returned at a frame for which there was no room.           *)
LEMMA PumpEffect ==
  ASSUME TypeOK, current \in Relids, NEW occupied \in BOOLEAN, NEW free \in BOOLEAN,
         pump_channel(occupied, free)
  PROVE  /\ ring' \in [Relids -> Seq({"frame", "comp"})]
         /\ \A r \in Relids : r # current => ring'[r] = ring[r]
         /\ ring'[current] # << >> => occupied
         /\ missed' = missed \ {current}
<1> DEFINE q == ring[current]
           last == ReturnsAt(q, current \in pending_rx)
<1>1. q \in Seq({"frame", "comp"}) /\ ring \in [Relids -> Seq({"frame", "comp"})]
  BY DEF TypeOK
<1>2. PICK n \in 0 .. Len(q) :
        /\ IF last = {} THEN n = Len(q) ELSE n \in last /\ \A k \in last : n <= k
        /\ ring' = [ring EXCEPT ![current] = SubSeq(q, n + 1, Len(q))]
        /\ occupied = (current \in pending_rx \/ \E k \in 1 .. n : q[k] = "frame")
        /\ missed' = missed \ {current}
  BY DEF pump_channel
<1>3. \A k \in last : k \in 1 .. Len(q) /\ q[k] = "frame"
  BY DEF ReturnsAt
<1> HIDE DEF q, last
<1>4. n \in Nat /\ n <= Len(q) /\ Len(q) \in Nat
  BY <1>1
<1>5. SubSeq(q, n + 1, Len(q)) \in Seq({"frame", "comp"})
  BY <1>1, <1>4
<1>6. ring'[current] # << >> => occupied
  <2> SUFFICES ASSUME ~occupied PROVE ring'[current] = << >>
    OBVIOUS
  <2>1. last = {}
    <3> SUFFICES ASSUME last # {} PROVE FALSE
      OBVIOUS
    <3>1. n \in 1 .. n /\ q[n] = "frame"
      BY <1>2, <1>3, <1>4
    <3> QED BY <1>2, <3>1
  <2>2. n = Len(q)
    BY <1>2, <2>1
  <2>3. SubSeq(q, n + 1, Len(q)) = << >>
    BY <1>1, <1>4, <2>2
  <2> QED BY <1>1, <1>2, <2>3
<1> QED BY <1>1, <1>2, <1>5, <1>6

(* One look of the task under the executor: what it leaves in the ring is  *)
(* behind an occupied pending_rx, or the task looks again.                 *)
LEMMA LookKeepsWakes ==
  ASSUME WakeInv, current \in Relids, NEW occupied \in BOOLEAN, NEW free \in BOOLEAN,
         pump_channel(occupied, free),
         UNCHANGED <<written, unsignalled, isrVars, waker, runq, batch>>,
         posted' \subseteq Relids, busy' \subseteq Relids, sends' \in 0..MaxSends,
         pending_rx' \in {pending_rx \cup {current}, pending_rx \ {current}},
         \/ /\ occupied => current \in pending_rx'
            /\ \/ cpu' \in InPoll /\ current' = current
               \/ cpu' = "run" /\ current' = NoTask
         \/ cpu' = "rx_ready" /\ current' = current,
         cpu \in InPoll
  PROVE  WakeInv'
<1> USE DEF WakeInv
<1>1. /\ ring' \in [Relids -> Seq({"frame", "comp"})]
      /\ \A r \in Relids : r # current => ring'[r] = ring[r]
      /\ ring'[current] # << >> => occupied
      /\ missed' = missed \ {current}
  BY PumpEffect
<1>2. /\ cpu' \in InPoll \cup {"run"} /\ current' \in {current, NoTask}
      /\ cpu' \in InPoll <=> current' # NoTask
  BY RelidRange DEF InPoll
<1>3. pending_rx' \subseteq Relids /\ \A r \in Relids : r # current /\ r \in pending_rx => r \in pending_rx'
  BY DEF TypeOK
<1>4. TypeOK'
  BY <1>1, <1>2, <1>3 DEF TypeOK, isrVars
<1>5. NoLostWake'
  <2> SUFFICES ASSUME NEW r \in Relids, ring'[r] # << >>
               PROVE  WillLook(r)' \/ r \in missed' \/ r \in pending_rx'
    BY DEF NoLostWake
  <2>1. CASE r = current
    BY <1>1, <2>1 DEF WillLook
  <2>2. CASE r # current
    <3>1. WillLook(r) \/ r \in missed \/ r \in pending_rx
      BY <1>1, <2>2 DEF NoLostWake
    <3> QED BY <1>1, <1>3, <2>2, <3>1 DEF WillLook, isrVars
  <2> QED BY <2>1, <2>2
<1> QED BY <1>2, <1>4, <1>5 DEF FlagNoticed, isrVars

(* The executor hands a task from the queue to the batch and on to its     *)
(* look at the ring.                                                       *)
LEMMA TaskKeepsWakes ==
  ASSUME WakeInv, Task
  PROVE  WakeInv'
<1> USE DEF WakeInv
<1>1. current \in Relids /\ cpu \in InPoll
  BY DEF Task, rx_ready, tx_ready, register_waker, transmit, TaskPending, TypeOK, InPoll
<1>2. posted \cup {current} \subseteq Relids /\ busy \cup {current} \subseteq Relids
      /\ sends \in 0..MaxSends /\ (sends < MaxSends => sends + 1 \in 0..MaxSends)
  BY <1>1, BoundsAssumption DEF TypeOK
<1>3. ASSUME NEW o \in BOOLEAN, NEW f \in BOOLEAN, SetNic(o, f)
      PROVE  /\ pending_rx' \in {pending_rx \cup {current}, pending_rx \ {current}}
             /\ busy' \subseteq Relids /\ (o => current \in pending_rx')
  BY <1>2, <1>3 DEF SetNic
<1>4. ASSUME Posts \/ DropsToken PROVE posted' \subseteq Relids /\ sends' \in 0..MaxSends
  BY <1>2, <1>4 DEF Posts, DropsToken
<1>5. CASE rx_ready
  <2>1. PICK occupied, free \in BOOLEAN :
          /\ pump_channel(occupied, free) /\ SetNic(occupied, free)
          /\ cpu' = IF occupied THEN "tx_ready" ELSE "register"
    BY <1>5 DEF rx_ready
  <2>2. /\ UNCHANGED <<written, unsignalled, isrVars, waker, runq, batch>>
        /\ current' = current /\ cpu' \in InPoll /\ DropsToken
    BY <1>5, <2>1 DEF rx_ready, taskVars, InPoll, DropsToken
  <2> QED BY <1>1, <1>3, <1>4, <2>1, <2>2, LookKeepsWakes
<1>6. CASE tx_ready
  <2>1. PICK free \in BOOLEAN :
          /\ pump_channel(TRUE, free)
          /\ \/ ~free /\ SetNic(TRUE, FALSE) /\ cpu' = "register" /\ DropsToken
             \/ free /\ SetNic(FALSE, TRUE) /\ cpu' = "rx_ready" /\ DropsToken
             \/ free /\ SetNic(FALSE, FALSE) /\ cpu' = "rx_ready" /\ Posts
    BY <1>6 DEF tx_ready
  <2>2. UNCHANGED <<written, unsignalled, isrVars, waker, runq, batch>> /\ current' = current
    BY <1>6 DEF tx_ready, taskVars
  <2>3. posted' \subseteq Relids /\ sends' \in 0..MaxSends
    BY <1>4, <2>1
  <2>4. CASE SetNic(TRUE, FALSE) /\ cpu' = "register"
    BY <1>1, <1>3, <2>1, <2>2, <2>3, <2>4, LookKeepsWakes DEF InPoll
  <2>5. CASE cpu' = "rx_ready" /\ (SetNic(FALSE, TRUE) \/ SetNic(FALSE, FALSE))
    BY <1>1, <1>3, <2>1, <2>2, <2>3, <2>5, LookKeepsWakes
  <2> QED BY <2>1, <2>4, <2>5
<1>7. CASE transmit
  <2>1. PICK occupied, free \in BOOLEAN :
          /\ pump_channel(occupied, free)
          /\ \/ SetNic(occupied, free) /\ DropsToken
             \/ free /\ SetNic(occupied, FALSE) /\ Posts
    BY <1>7 DEF transmit
  <2>2. /\ UNCHANGED <<written, unsignalled, isrVars, waker, runq, batch>>
        /\ current' = NoTask /\ cpu' = "run"
    BY <1>7 DEF transmit
  <2> QED BY <1>1, <1>3, <1>4, <2>1, <2>2, LookKeepsWakes
<1>8. CASE register_waker
  <2>1. Slot(current) \in Slots
    BY <1>1, RelidRange
  <2>2. waker' \in [Slots -> Relids \cup {NoTask}]
    BY <1>1, <1>8, <2>1 DEF register_waker, TypeOK
  <2>3. TypeOK' /\ NoLostWake'
    BY <1>8, <2>2 DEF register_waker, TypeOK, InPoll, NoLostWake, WillLook, hostVars, isrVars,
                      nicVars
  <2> QED BY <1>8, <2>2, <2>3 DEF register_waker, InPoll, FlagNoticed, hostVars, isrVars
<1>9. CASE TaskPending
  <2>1. TypeOK' /\ NoLostWake'
    BY <1>9 DEF TaskPending, TypeOK, InPoll, NoLostWake, WillLook, hostVars, isrVars, nicVars
  <2> QED BY <1>9, <2>1 DEF TaskPending, FlagNoticed, hostVars, isrVars
<1> QED BY <1>5, <1>6, <1>7, <1>8, <1>9 DEF Task

(* The rest of the executor loop moves tasks from queue to batch to poll. *)
LEMMA ExecutorKeepsWakes ==
  ASSUME WakeInv, Executor
  PROVE  WakeInv'
<1> USE DEF WakeInv
<1>1. CASE executor_poll
  <2>1. TypeOK'
    BY <1>1 DEF executor_poll, TypeOK, InPoll, hostVars, isrVars, nicVars
  <2>2. NoLostWake'
    BY <1>1 DEF executor_poll, TypeOK, InPoll, NoLostWake, WillLook, hostVars, isrVars, nicVars
  <2> QED BY <1>1, <2>1, <2>2 DEF executor_poll, FlagNoticed, hostVars, isrVars
<1>2. CASE RunTask
  <2>1. TypeOK'
    BY <1>2, RelidRange DEF RunTask, TypeOK, InPoll, hostVars, isrVars, nicVars
  <2>2. NoLostWake'
    BY <1>2, RelidRange DEF RunTask, TypeOK, NoLostWake, WillLook, hostVars, isrVars, nicVars
  <2> QED BY <1>2, <2>1, <2>2 DEF RunTask, InPoll, FlagNoticed, hostVars, isrVars
<1>3. CASE Task
  BY <1>3, TaskKeepsWakes
<1>4. CASE disable \/ enable_and_hlt
  <2>1. TypeOK' /\ NoLostWake'
    BY <1>4 DEF disable, enable_and_hlt, TypeOK, InPoll, NoLostWake, WillLook, hostVars,
                isrVars, taskVars, nicVars
  <2> QED BY <1>4, <2>1
          DEF disable, enable_and_hlt, InPoll, FlagNoticed, hostVars, isrVars, taskVars
<1> QED BY <1>1, <1>2, <1>3, <1>4 DEF Executor

(* WakeInv is inductive. *)
LEMMA WakeNext == WakeInv /\ [Next]_vars => WakeInv'
<1> SUFFICES ASSUME WakeInv, [Next]_vars PROVE WakeInv'
  OBVIOUS
<1>1. CASE \E r \in Relids : HostWrite(r) \/ HostComplete(r) \/ HostSignal(r)
  BY <1>1, WriteKeepsWakes, SignalKeepsWakes
<1>2. CASE Interrupt \/ TimerTick
  BY <1>2, InterruptKeepsWakes
<1>3. CASE Isr
  BY <1>3, ReadKeepsWakes, ClearKeepsWakes, WakeKeepsWakes DEF Isr
<1>4. CASE Executor
  BY <1>4, ExecutorKeepsWakes
<1>5. CASE UNCHANGED vars
  BY <1>5 DEF vars, hostVars, isrVars, taskVars, nicVars, WakeInv, TypeOK, NoLostWake,
              WillLook, FlagNoticed
<1> QED BY <1>1, <1>2, <1>3, <1>4, <1>5 DEF Next

(* While a channel's ring holds packets, its task is queued, is looking, a *)
(* wake-up for it is under way, one was missed because the flag was        *)
(* overwritten or the waker was not in its slot, or the task left them     *)
(* behind a frame in pending_rx: however vmbus_isr, the executor and       *)
(* DynNic interleave, no packet is left alone for another reason.          *)
THEOREM WakesAreNotLost == Spec => []NoLostWake
<1>1. Init => WakeInv
  BY WakeInit
<1>2. WakeInv /\ [Next]_vars => WakeInv'
  BY WakeNext
<1>3. WakeInv => NoLostWake
  BY DEF WakeInv
<1> QED BY <1>1, <1>2, <1>3, PTL DEF Spec

(* Every set event flag is still ahead of the handler's scan, or SINT2 is  *)
(* pending: vmbus_isr leaves no flag behind.                               *)
THEOREM FlagsAreNoticed == Spec => []FlagNoticed
<1>1. Init => WakeInv
  BY WakeInit
<1>2. WakeInv /\ [Next]_vars => WakeInv'
  BY WakeNext
<1>3. WakeInv => FlagNoticed
  BY DEF WakeInv
<1> QED BY <1>1, <1>2, <1>3, PTL DEF Spec
=============================================================================
