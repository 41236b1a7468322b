-------------------------- MODULE TimeDriver_proof --------------------------
(***************************************************************************)
(* AlarmsInv for any number of tasks, futures and alarms.                  *)
(*                                                                         *)
(* AlarmsInv speaks of tasks that wait.  What carries it through the poll  *)
(* of a task is Covered: it speaks of the futures that the poll has passed *)
(* already, so that it holds between any two steps, with ticks, the clock  *)
(* and other interrupts in between.                                        *)
(***************************************************************************)
EXTENDS TimeDriver, FiniteSetTheorems, TLAPS

(* Every set of naturals that is not empty has a least element, ... *)
LEMMA MinOfSet ==
  ASSUME NEW S \in SUBSET Nat, S # {}
  PROVE  Min(S) \in S /\ \A y \in S : Min(S) <= y
<1> DEFINE R == OpToRel(<, Nat)
<1>1. IsWellFoundedOn(R, Nat)
  BY NatLessThanWellFounded, Zenon
<1>2. \A x, y \in S : ~(<<y, x>> \in R) => x <= y
  BY DEF OpToRel
<1> HIDE DEF R
<1>3. PICK x \in S : \A y \in S : ~(<<y, x>> \in R)
  BY <1>1, WFMin, Zenon
<1>4. \A y \in S : x <= y
  BY <1>2, <1>3, Zenon
<1> QED BY <1>4, Zenon DEF Min

(* ... and one that is bounded has a greatest. *)
LEMMA MaxOfSet ==
  ASSUME NEW n \in Nat, NEW S \in SUBSET (1 .. n), S # {}
  PROVE  Max(S) \in S /\ \A y \in S : y <= Max(S)
<1> DEFINE T == {n - x : x \in S}
<1>1. T \in SUBSET Nat /\ T # {}
  <2>1. ASSUME NEW x \in S PROVE n - x \in Nat
    OBVIOUS
  <2> QED BY <2>1, Zenon
<1>2. Min(T) \in T /\ \A y \in T : Min(T) <= y
  BY <1>1, MinOfSet, Zenon
<1>3. PICK x \in S : Min(T) = n - x
  BY <1>2, Zenon
<1>4. \A y \in S : n - x <= n - y
  BY <1>2, <1>3, Zenon
<1>5. \A y \in S : x >= y
  BY <1>4
<1>6. Max(S) \in S /\ \A y \in S : Max(S) >= y
  BY <1>5, Zenon DEF Max
<1> QED BY <1>6

(* A set without two different elements *)
LEMMA AtMostOne ==
  ASSUME NEW S, \A a, b \in S : a = b
  PROVE  Cardinality(S) <= 1
<1>1. CASE S = {}
  BY <1>1, FS_EmptySet
<1>2. CASE S # {}
  <2>1. PICK x \in S : TRUE
    BY <1>2
  <2>2. S = {x}
    BY <2>1
  <2> QED BY <2>2, FS_Singleton
<1> QED BY <1>1, <1>2

(* A task that is polled is told from an idle executor. *)
LEMMA BusyIsNotIdle ==
  ASSUME NEW a, NEW b, NEW c
  PROVE  <<a, b, c>> # Idle
BY DEF Idle
-----------------------------------------------------------------------------
(* The futures of t that its current poll, or its last one, has passed *)
Polled(t) ==
  IF running # Idle /\ running[2] = t THEN 1 .. running[3] - 1 ELSE 1 .. Futures[t]

(* No two alarms have the same waker. *)
OwnAlarm ==
  \A s, q \in Slot :
    alarms[s] # NoAlarm /\ alarms[q] # NoAlarm /\ alarms[s].waker = alarms[q].waker => s = q

(* The last Timer that t has polled is that of its alarm, if t is not      *)
(* queued.                                                                 *)
Covered ==
  \A t \in Task : t \notin queued =>
    \A i \in Pending(t) \cap Polled(t) :
      \/ \E j \in Pending(t) \cap Polled(t) : i < j
      \/ \E s \in SlotsOf(t) : alarms[s].at = deadline[t][i]

(* No tick has left an expired alarm in the table. *)
AlarmsAhead == \A s \in Slot : alarms[s] # NoAlarm => last_tick < alarms[s].at

(* schedule_wake is called for a Timer. *)
SchedulesTimer ==
  running # Idle /\ running[1] = "schedule_wake" => deadline[running[2]][running[3]] # NoTime

(* The inductive invariant *)
Inv == TypeOK /\ OwnAlarm /\ Covered /\ AlarmsAhead /\ SchedulesTimer

(* A tick that finds an alarm overdue has queued its task, and the last    *)
(* Timer of a waiting task has its alarm: the inductive invariant implies  *)
(* what the run checks.                                                    *)
LEMMA InvImpliesAlarmsInv ==
  ASSUME Inv
  PROVE  AlarmsInv
<1>1. OneAlarmPerTask
  <2> SUFFICES ASSUME NEW t \in Task PROVE Cardinality(SlotsOf(t)) <= 1
    BY DEF OneAlarmPerTask
  <2>1. \A a, b \in SlotsOf(t) : a = b
    BY DEF Inv, OwnAlarm, SlotsOf
  <2> QED BY <2>1, AtMostOne
<1>2. ASSUME NEW t \in Task, Pending(t) # {}, ~Active(t)
      PROVE  /\ Max(Pending(t)) \in Pending(t)
             /\ \A i \in Pending(t) : i <= Max(Pending(t))
             /\ \E s \in SlotsOf(t) : alarms[s].at = deadline[t][Max(Pending(t))]
  <2> DEFINE P == Pending(t)
             m == Max(P)
  <2>1. Futures[t] \in Nat /\ P \subseteq 1 .. Futures[t]
    BY SizeAssumption DEF Pending
  <2>2. m \in P /\ \A i \in P : i <= m
    BY <1>2, <2>1, MaxOfSet, Zenon
  <2>3. t \notin queued /\ Polled(t) = 1 .. Futures[t]
    BY <1>2 DEF Active, Polled
  <2>4. P \cap Polled(t) = P
    BY <2>1, <2>3
  <2>5. ~(\E j \in P : m < j)
    BY <2>1, <2>2
  <2>6. \E s \in SlotsOf(t) : alarms[s].at = deadline[t][m]
    BY <2>2, <2>3, <2>4, <2>5, Zenon DEF Inv, Covered
  <2> QED BY <2>2, <2>6
<1>3. WaitersCovered
  BY <1>2 DEF WaitersCovered
<1>4. OverdueQueued
  <2> SUFFICES ASSUME NEW t \in Task, NEW i \in Pending(t),
                      deadline[t][i] <= last_tick, ~Active(t)
               PROVE  \E j \in Pending(t) : j > i /\ deadline[t][j] > last_tick
    BY DEF OverdueQueued
  <2> DEFINE m == Max(Pending(t))
  <2>1. m \in Pending(t) /\ i <= m
    BY <1>2
  <2>2. PICK s \in SlotsOf(t) : alarms[s].at = deadline[t][m]
    BY <1>2
  <2>3. last_tick < deadline[t][m]
    BY <2>2 DEF Inv, AlarmsAhead, SlotsOf
  <2>4. m # i
    <3>1. deadline[t][i] \in Int /\ deadline[t][m] \in Int /\ last_tick \in Int
      BY <2>1, SizeAssumption DEF Inv, TypeOK, Pending, NoTime
    <3> QED BY <2>3, <3>1
  <2>5. m \in Int /\ i \in Int
    BY <2>1 DEF Pending
  <2>6. m > i
    BY <2>1, <2>4, <2>5
  <2> QED BY <2>1, <2>3, <2>6
<1> QED BY <1>1, <1>3, <1>4 DEF Inv, AlarmsInv
-----------------------------------------------------------------------------
(* An alarm is told from an empty slot. *)
LEMMA AlarmIsSet ==
  ASSUME NEW d, NEW t
  PROVE  [at |-> d, waker |-> t] # NoAlarm
<1>1. "waker" \in DOMAIN [at |-> d, waker |-> t] /\ "waker" \notin DOMAIN NoAlarm
  BY DEF NoAlarm
<1> QED BY <1>1

(* alarm_slot finds the waker's own alarm, or an empty slot when it has none. *)
LEMMA AlarmSlot ==
  ASSUME NEW t \in Task, alarm_slot(t) # 0
  PROVE  \/ alarm_slot(t) \in SlotsOf(t)
         \/ alarm_slot(t) \in EmptySlots /\ SlotsOf(t) = {}
<1>1. SlotsOf(t) \in SUBSET Nat /\ EmptySlots \in SUBSET Nat
  BY SizeAssumption DEF SlotsOf, EmptySlots, Slot
<1>2. CASE SlotsOf(t) # {}
  BY <1>1, <1>2, MinOfSet DEF alarm_slot
<1>3. CASE SlotsOf(t) = {}
  <2>1. EmptySlots # {} /\ alarm_slot(t) = Min(EmptySlots)
    BY <1>3 DEF alarm_slot
  <2> QED BY <1>1, <1>3, <2>1, MinOfSet
<1> QED BY <1>2, <1>3

(* A poll that goes on has passed one more future of its task, and of no   *)
(* other one.                                                              *)
LEMMA PollOnEffect ==
  ASSUME NEW t \in Task, NEW i \in 1 .. Futures[t], NEW step,
         running = <<step, t, i>>, PollOn(t, i)
  PROVE  /\ Polled(t) = 1 .. i - 1 /\ Polled(t)' = 1 .. i
         /\ \A u \in Task \ {t} : Polled(u)' = Polled(u)
         /\ SchedulesTimer'
         /\ \/ running' = Idle
            \/ \E u \in Task : running' \in Steps \X {u} \X (1 .. Futures[u])
<1>1. Futures[t] \in Nat
  BY SizeAssumption
<1>2. running # Idle /\ running[2] = t /\ running[3] = i
  BY BusyIsNotIdle
<1>3. CASE i < Futures[t]
  <2>1. running' = <<"body", t, i + 1>>
    BY <1>3 DEF PollOn
  <2>2. running' # Idle /\ running'[1] = "body" /\ running'[2] = t /\ running'[3] = i + 1
    BY <2>1, BusyIsNotIdle
  <2>3. i + 1 \in 1 .. Futures[t] /\ i + 1 - 1 = i
    BY <1>1, <1>3
  <2>4. Polled(t) = 1 .. i - 1
    BY <1>2 DEF Polled
  <2>5. Polled(t)' = 1 .. i
    BY <2>2, <2>3 DEF Polled
  <2>6. \A u \in Task \ {t} : Polled(u)' = Polled(u)
    BY <1>2, <2>2 DEF Polled
  <2>7. running' \in Steps \X {t} \X (1 .. Futures[t])
    BY <2>1, <2>3 DEF Steps
  <2>8. SchedulesTimer'
    BY <2>2 DEF SchedulesTimer
  <2> QED BY <2>4, <2>5, <2>6, <2>7, <2>8
<1>4. CASE ~(i < Futures[t])
  <2>1. running' = Idle /\ i = Futures[t]
    BY <1>1, <1>4 DEF PollOn
  <2>2. Polled(t) = 1 .. i - 1
    BY <1>2 DEF Polled
  <2>3. Polled(t)' = 1 .. i
    BY <2>1 DEF Polled
  <2>4. \A u \in Task \ {t} : Polled(u)' = Polled(u)
    BY <1>2, <2>1 DEF Polled
  <2> QED BY <2>1, <2>2, <2>3, <2>4 DEF SchedulesTimer
<1> QED BY <1>3, <1>4
-----------------------------------------------------------------------------
(* A Timer polled by a task: its alarm is set, in a slot of its own, or    *)
(* the task is queued because the Timer has expired or the table is full.  *)
LEMMA ScheduleWakeInv ==
  ASSUME Inv, NEW t \in Task, NEW i \in 1 .. Futures[t], schedule_wake(t, i)
  PROVE  Inv'
<1> DEFINE k == alarm_slot(t)
           a == [at |-> deadline[t][i], waker |-> t]
<1>1. /\ running = <<"schedule_wake", t, i>> /\ PollOn(t, i)
      /\ now' = now /\ last_tick' = last_tick /\ deadline' = deadline
  BY DEF schedule_wake
<1>2. /\ Polled(t) = 1 .. i - 1 /\ Polled(t)' = 1 .. i
      /\ \A u \in Task \ {t} : Polled(u)' = Polled(u)
      /\ SchedulesTimer'
      /\ \/ running' = Idle
         \/ \E u \in Task : running' \in Steps \X {u} \X (1 .. Futures[u])
  BY <1>1, PollOnEffect
<1>3. deadline[t][i] # NoTime
  <2>1. running # Idle /\ running[1] = "schedule_wake" /\ running[2] = t /\ running[3] = i
    BY <1>1, BusyIsNotIdle
  <2> QED BY <2>1 DEF Inv, SchedulesTimer
<1>4. \A u \in Task : Pending(u)' = Pending(u)
  BY <1>1 DEF Pending
<1>5. deadline[t][i] \in 0 .. MaxTime /\ now \in 0 .. MaxTime /\ last_tick \in Int
      /\ last_tick <= now
  BY <1>3, SizeAssumption DEF Inv, TypeOK, NoTime
<1>6. CASE deadline[t][i] <= now \/ k = 0
  <2>1. queued' = queued \cup {t} /\ alarms' = alarms
    BY <1>6 DEF schedule_wake
  <2>2. TypeOK'
    BY <1>1, <1>2, <2>1 DEF Inv, TypeOK
  <2>3. OwnAlarm' /\ AlarmsAhead'
    BY <1>1, <2>1 DEF Inv, OwnAlarm, AlarmsAhead
  <2>4. Covered'
    <3> SUFFICES ASSUME NEW u \in Task, u \notin queued',
                        NEW j \in Pending(u)' \cap Polled(u)'
                 PROVE  \/ \E m \in Pending(u)' \cap Polled(u)' : j < m
                        \/ \E s \in SlotsOf(u)' : alarms'[s].at = deadline'[u][j]
      BY DEF Covered
    <3>1. u # t /\ u \notin queued
      BY <2>1
    <3>2. Polled(u)' = Polled(u) /\ Pending(u)' = Pending(u) /\ SlotsOf(u)' = SlotsOf(u)
      BY <1>2, <1>4, <2>1, <3>1 DEF SlotsOf
    <3> QED BY <1>1, <2>1, <3>1, <3>2 DEF Inv, Covered
  <2> QED BY <1>2, <2>2, <2>3, <2>4 DEF Inv
<1>7. CASE ~(deadline[t][i] <= now \/ k = 0)
  <2>1. queued' = queued /\ alarms' = [alarms EXCEPT ![k] = a] /\ now < deadline[t][i]
    BY <1>5, <1>7 DEF schedule_wake
  <2>2. \/ k \in SlotsOf(t)
        \/ k \in EmptySlots /\ SlotsOf(t) = {}
    BY <1>7, AlarmSlot
  <2>3. k \in Slot /\ a \in Alarm /\ a # NoAlarm /\ a.at = deadline[t][i] /\ a.waker = t
    BY <1>5, <2>2, AlarmIsSet DEF SlotsOf, EmptySlots, Alarm
  <2>4. alarms \in [Slot -> Alarm \cup {NoAlarm}]
    BY DEF Inv, TypeOK
  <2> HIDE DEF k, a
  <2>5. /\ alarms' \in [Slot -> Alarm \cup {NoAlarm}] /\ alarms'[k] = a
        /\ \A s \in Slot \ {k} : alarms'[s] = alarms[s]
    BY <2>1, <2>3, <2>4
  <2>6. TypeOK'
    BY <1>1, <1>2, <2>1, <2>5 DEF Inv, TypeOK
  <2>7. \A s \in Slot \ {k} : alarms[s] # NoAlarm => alarms[s].waker # t
    BY <2>2 DEF Inv, OwnAlarm, SlotsOf
  <2>8. OwnAlarm'
    BY <2>3, <2>5, <2>7 DEF Inv, OwnAlarm
  <2>9. AlarmsAhead'
    <3>1. last_tick < a.at
      BY <1>5, <2>1, <2>3
    <3> QED BY <1>1, <2>5, <3>1 DEF Inv, AlarmsAhead
  <2>10. Covered'
    <3> SUFFICES ASSUME NEW u \in Task, u \notin queued',
                        NEW j \in Pending(u)' \cap Polled(u)'
                 PROVE  \/ \E m \in Pending(u)' \cap Polled(u)' : j < m
                        \/ \E s \in SlotsOf(u)' : alarms'[s].at = deadline'[u][j]
      BY DEF Covered
    <3>1. CASE u = t
      <4>1. i \in Pending(u)' \cap Polled(u)' /\ j \in 1 .. i
        BY <1>1, <1>2, <1>3, <1>4, <3>1 DEF Pending
      <4>2. k \in SlotsOf(u)' /\ alarms'[k].at = deadline'[u][i]
        BY <1>1, <2>3, <2>5, <3>1 DEF SlotsOf
      <4>3. j = i \/ j < i
        BY <4>1
      <4> QED BY <4>1, <4>2, <4>3
    <3>2. CASE u # t
      <4>1. Polled(u)' = Polled(u) /\ Pending(u)' = Pending(u) /\ u \notin queued
        BY <1>2, <1>4, <2>1, <3>2
      <4>2. CASE \E m \in Pending(u) \cap Polled(u) : j < m
        BY <4>1, <4>2
      <4>3. CASE \E s \in SlotsOf(u) : alarms[s].at = deadline[u][j]
        <5>1. PICK s \in SlotsOf(u) : alarms[s].at = deadline[u][j]
          BY <4>3
        <5>2. s \in Slot /\ s # k
          BY <2>2, <3>2 DEF SlotsOf, EmptySlots
        <5>3. s \in SlotsOf(u)' /\ alarms'[s].at = deadline'[u][j]
          BY <1>1, <2>5, <5>1, <5>2 DEF SlotsOf
        <5> QED BY <5>3
      <4> QED BY <4>1, <4>2, <4>3 DEF Inv, Covered
    <3> QED BY <3>1, <3>2
  <2> QED BY <1>2, <2>6, <2>8, <2>9, <2>10 DEF Inv
<1> QED BY <1>6, <1>7

(* A tick queues the task of every alarm it takes out of the table. *)
LEMMA TickInv ==
  ASSUME Inv, on_timer_tick
  PROVE  Inv'
<1>1. /\ now' = now /\ last_tick' = now /\ running' = running /\ deadline' = deadline
      /\ queued' = queued \cup {alarms[s].waker : s \in {q \in Slot : Expired(q)}}
      /\ alarms' = [s \in Slot |-> IF Expired(s) THEN NoAlarm ELSE alarms[s]]
  BY DEF on_timer_tick
<1>2. alarms \in [Slot -> Alarm \cup {NoAlarm}] /\ now \in 0 .. MaxTime /\ MaxTime \in Nat
  BY SizeAssumption DEF Inv, TypeOK
<1>3. \A s \in Slot : Expired(s) => alarms[s] \in Alarm /\ alarms[s].waker \in Task
                                    /\ alarms[s].waker \in queued'
  BY <1>1, <1>2 DEF Expired, Alarm
<1>4. \A s \in Slot : /\ alarms'[s] = IF Expired(s) THEN NoAlarm ELSE alarms[s]
                      /\ alarms'[s] # NoAlarm => ~Expired(s) /\ alarms'[s] = alarms[s]
  BY <1>1
<1>5. TypeOK'
  <2>1. alarms' \in [Slot -> Alarm \cup {NoAlarm}]
    BY <1>1, <1>2
  <2>2. queued' \subseteq Task
    BY <1>1, <1>3 DEF Inv, TypeOK
  <2>3. last_tick' \in NoTime .. now'
    BY <1>1, <1>2 DEF NoTime
  <2> QED BY <1>1, <2>1, <2>2, <2>3 DEF Inv, TypeOK
<1>6. OwnAlarm'
  BY <1>4 DEF Inv, OwnAlarm
<1>7. AlarmsAhead'
  <2> SUFFICES ASSUME NEW s \in Slot, alarms'[s] # NoAlarm PROVE now < alarms'[s].at
    BY <1>1 DEF AlarmsAhead
  <2>1. ~Expired(s) /\ alarms'[s] = alarms[s] /\ alarms[s] \in Alarm
    BY <1>2, <1>4
  <2>2. ~(alarms[s].at <= now) /\ alarms[s].at \in 0 .. MaxTime
    BY <1>4, <2>1 DEF Expired, Alarm
  <2> QED BY <1>2, <2>1, <2>2
<1>8. SchedulesTimer'
  BY <1>1 DEF Inv, SchedulesTimer
<1>9. Covered'
  <2> SUFFICES ASSUME NEW u \in Task, u \notin queued',
                      NEW j \in Pending(u)' \cap Polled(u)'
               PROVE  \/ \E m \in Pending(u)' \cap Polled(u)' : j < m
                      \/ \E s \in SlotsOf(u)' : alarms'[s].at = deadline'[u][j]
    BY DEF Covered
  <2>1. Polled(u)' = Polled(u) /\ Pending(u)' = Pending(u) /\ u \notin queued
    BY <1>1 DEF Polled, Pending
  <2>2. CASE \E m \in Pending(u) \cap Polled(u) : j < m
    BY <2>1, <2>2
  <2>3. CASE \E s \in SlotsOf(u) : alarms[s].at = deadline[u][j]
    <3>1. PICK s \in SlotsOf(u) : alarms[s].at = deadline[u][j]
      BY <2>3
    <3>2. s \in Slot /\ alarms[s] # NoAlarm /\ alarms[s].waker = u
      BY <3>1 DEF SlotsOf
    <3>3. ~Expired(s)
      BY <1>3, <3>2
    <3>4. alarms'[s] = alarms[s]
      BY <1>4, <3>2, <3>3
    <3>5. s \in SlotsOf(u)'
      BY <3>2, <3>4 DEF SlotsOf
    <3> QED BY <1>1, <3>1, <3>4, <3>5
  <2> QED BY <2>1, <2>2, <2>3 DEF Inv, Covered
<1> QED BY <1>5, <1>6, <1>7, <1>8, <1>9 DEF Inv

(* The executor takes a task out of its queue, and the poll starts with    *)
(* none of its futures passed.                                             *)
LEMMA ExecutorPollInv ==
  ASSUME Inv, NEW t \in Task, executor_poll(t)
  PROVE  Inv'
<1>1. /\ running = Idle /\ running' = <<"body", t, 1>> /\ queued' = queued \ {t}
      /\ now' = now /\ alarms' = alarms /\ last_tick' = last_tick /\ deadline' = deadline
  BY DEF executor_poll, timeVars
<1>2. running' # Idle /\ running'[1] = "body" /\ running'[2] = t /\ running'[3] = 1
  BY <1>1, BusyIsNotIdle
<1>3. TypeOK'
  <2>1. running' \in Steps \X {t} \X (1 .. Futures[t])
    BY <1>1, SizeAssumption DEF Steps
  <2> QED BY <1>1, <2>1 DEF Inv, TypeOK
<1>4. OwnAlarm' /\ AlarmsAhead'
  BY <1>1 DEF Inv, OwnAlarm, AlarmsAhead
<1>5. SchedulesTimer'
  BY <1>2 DEF SchedulesTimer
<1>6. Covered'
  <2> SUFFICES ASSUME NEW u \in Task, u \notin queued',
                      NEW j \in Pending(u)' \cap Polled(u)'
               PROVE  \/ \E m \in Pending(u)' \cap Polled(u)' : j < m
                      \/ \E s \in SlotsOf(u)' : alarms'[s].at = deadline'[u][j]
    BY DEF Covered
  <2>1. u # t
    <3>1. u = t => j \in 1 .. 1 - 1
      BY <1>2 DEF Polled
    <3> QED BY <3>1
  <2>2. /\ Polled(u)' = Polled(u) /\ Pending(u)' = Pending(u)
        /\ SlotsOf(u)' = SlotsOf(u) /\ u \notin queued
    BY <1>1, <1>2, <2>1 DEF Polled, Pending, SlotsOf
  <2> QED BY <1>1, <2>2 DEF Inv, Covered
<1> QED BY <1>3, <1>4, <1>5, <1>6 DEF Inv

(* A future that is polled, and changes its own Timer, is not among those  *)
(* that the poll has passed.                                               *)
LEMMA OwnTimerInv ==
  ASSUME Inv, NEW t \in Task, NEW i \in 1 .. Futures[t], NEW step \in Steps,
         NEW d \in NoTime .. MaxTime,
         running = <<"body", t, i>>, running' = <<step, t, i>>,
         DOMAIN deadline' = Task, deadline'[t] = [deadline[t] EXCEPT ![i] = d],
         \A u \in Task \ {t} : deadline'[u] = deadline[u],
         step = "schedule_wake" => d # NoTime,
         UNCHANGED <<timeVars, queued>>
  PROVE  Inv'
<1>1. now' = now /\ alarms' = alarms /\ last_tick' = last_tick /\ queued' = queued
  BY DEF timeVars
<1>2. running # Idle /\ running[2] = t /\ running[3] = i
  BY BusyIsNotIdle
<1>3. running' # Idle /\ running'[1] = step /\ running'[2] = t /\ running'[3] = i
  BY BusyIsNotIdle
<1>4. DOMAIN deadline = Task
      /\ \A u \in Task : deadline[u] \in [1 .. Futures[u] -> NoTime .. MaxTime]
  BY DEF Inv, TypeOK
<1>5. /\ DOMAIN deadline' = Task
      /\ \A u \in Task : deadline'[u] \in [1 .. Futures[u] -> NoTime .. MaxTime]
      /\ deadline'[t][i] = d
      /\ \A j \in 1 .. Futures[t] : j # i => deadline'[t][j] = deadline[t][j]
      /\ \A u \in Task \ {t} : deadline'[u] = deadline[u]
  <2>1. deadline[t] \in [1 .. Futures[t] -> NoTime .. MaxTime]
    BY <1>4
  <2>2. /\ deadline'[t] \in [1 .. Futures[t] -> NoTime .. MaxTime]
        /\ deadline'[t][i] = d
        /\ \A j \in 1 .. Futures[t] : j # i => deadline'[t][j] = deadline[t][j]
    BY <2>1, Zenon
  <2> QED BY <1>4, <2>2, Zenon
<1>6. TypeOK'
  <2>1. running' \in Steps \X {t} \X (1 .. Futures[t])
    OBVIOUS
  <2> QED BY <1>1, <1>5, <2>1 DEF Inv, TypeOK
<1>7. OwnAlarm' /\ AlarmsAhead'
  BY <1>1 DEF Inv, OwnAlarm, AlarmsAhead
<1>8. SchedulesTimer'
  BY <1>3, <1>5, Zenon DEF SchedulesTimer
<1>9. Covered'
  <2> SUFFICES ASSUME NEW u \in Task, u \notin queued',
                      NEW j \in Pending(u)' \cap Polled(u)'
               PROVE  \/ \E m \in Pending(u)' \cap Polled(u)' : j < m
                      \/ \E s \in SlotsOf(u)' : alarms'[s].at = deadline'[u][j]
    BY DEF Covered
  <2>1. Polled(u)' = Polled(u) /\ SlotsOf(u)' = SlotsOf(u) /\ u \notin queued
    BY <1>1, <1>2, <1>3 DEF Polled, SlotsOf
  <2>2. \A m \in Polled(u) \cap (1 .. Futures[u]) : deadline'[u][m] = deadline[u][m]
    <3>1. CASE u = t
      <4>1. Polled(u) = 1 .. i - 1
        BY <1>2, <3>1 DEF Polled
      <4>2. i \notin Polled(u)
        BY <4>1
      <4> QED BY <1>5, <3>1, <4>2, Zenon
    <3>2. CASE u # t
      BY <1>5, <3>2
    <3> QED BY <3>1, <3>2
  <2>3. Pending(u)' \cap Polled(u)' = Pending(u) \cap Polled(u)
    BY <2>1, <2>2 DEF Pending
  <2>4. j \in Pending(u) \cap Polled(u) /\ deadline'[u][j] = deadline[u][j]
    BY <2>1, <2>2, <2>3 DEF Pending
  <2> QED BY <1>1, <2>1, <2>3, <2>4 DEF Inv, Covered
<1> QED BY <1>6, <1>7, <1>8, <1>9 DEF Inv

(* A future that waits for a new Timer, or finds its own ready or pending. *)
LEMMA TimerInv ==
  ASSUME Inv, NEW t \in Task, NEW i \in 1 .. Futures[t],
         (\E d \in 0 .. MaxTime : new_timer(t, i, d)) \/ poll_timer(t, i)
  PROVE  Inv'
<1>1. 0 .. MaxTime \subseteq NoTime .. MaxTime /\ NoTime \in NoTime .. MaxTime
      /\ \A d \in 0 .. MaxTime : d # NoTime
  BY SizeAssumption DEF NoTime
<1>2. CASE \E d \in 0 .. MaxTime : new_timer(t, i, d)
  <2>1. PICK d \in 0 .. MaxTime : new_timer(t, i, d)
    BY <1>2
  <2>2. /\ running = <<"body", t, i>> /\ running' = <<"schedule_wake", t, i>>
        /\ deadline' = [deadline EXCEPT ![t][i] = d] /\ UNCHANGED <<timeVars, queued>>
    BY <2>1 DEF new_timer
  <2>3. /\ DOMAIN deadline' = Task /\ deadline'[t] = [deadline[t] EXCEPT ![i] = d]
        /\ \A u \in Task \ {t} : deadline'[u] = deadline[u]
    BY <2>2 DEF Inv, TypeOK
  <2> QED BY <1>1, <2>2, <2>3, OwnTimerInv, Zenon DEF Steps
<1>3. CASE poll_timer(t, i) /\ deadline[t][i] <= now
  <2>1. /\ running = <<"body", t, i>> /\ running' = <<"body", t, i>>
        /\ deadline' = [deadline EXCEPT ![t][i] = NoTime] /\ UNCHANGED <<timeVars, queued>>
    BY <1>3 DEF poll_timer
  <2>2. /\ DOMAIN deadline' = Task /\ deadline'[t] = [deadline[t] EXCEPT ![i] = NoTime]
        /\ \A u \in Task \ {t} : deadline'[u] = deadline[u]
    BY <2>1 DEF Inv, TypeOK
  <2> QED BY <1>1, <2>1, <2>2, OwnTimerInv, Zenon DEF Steps
<1>4. CASE poll_timer(t, i) /\ ~(deadline[t][i] <= now)
  <2>1. /\ running = <<"body", t, i>> /\ running' = <<"schedule_wake", t, i>>
        /\ deadline' = deadline /\ deadline[t][i] # NoTime /\ UNCHANGED <<timeVars, queued>>
    BY <1>4 DEF poll_timer
  <2>2. /\ DOMAIN deadline' = Task /\ deadline'[t] = [deadline[t] EXCEPT ![i] = deadline[t][i]]
        /\ \A u \in Task \ {t} : deadline'[u] = deadline[u]
    BY <2>1 DEF Inv, TypeOK
  <2>3. deadline[t][i] \in NoTime .. MaxTime
    BY Zenon DEF Inv, TypeOK
  <2> QED BY <2>1, <2>2, <2>3, OwnTimerInv, Zenon DEF Steps
<1> QED BY <1>2, <1>3, <1>4

(* A future without a Timer passes. *)
LEMMA AwaitOtherInv ==
  ASSUME Inv, NEW t \in Task, NEW i \in 1 .. Futures[t], await_other(t, i)
  PROVE  Inv'
<1>1. /\ running = <<"body", t, i>> /\ PollOn(t, i) /\ deadline[t][i] = NoTime
      /\ now' = now /\ alarms' = alarms /\ last_tick' = last_tick
      /\ queued' = queued /\ deadline' = deadline
  BY DEF await_other, timeVars
<1>2. /\ Polled(t) = 1 .. i - 1 /\ Polled(t)' = 1 .. i
      /\ \A u \in Task \ {t} : Polled(u)' = Polled(u)
      /\ SchedulesTimer'
      /\ \/ running' = Idle
         \/ \E u \in Task : running' \in Steps \X {u} \X (1 .. Futures[u])
  BY <1>1, PollOnEffect
<1>3. TypeOK'
  BY <1>1, <1>2 DEF Inv, TypeOK
<1>4. OwnAlarm' /\ AlarmsAhead'
  BY <1>1 DEF Inv, OwnAlarm, AlarmsAhead
<1>5. \A u \in Task : /\ Pending(u)' \cap Polled(u)' = Pending(u) \cap Polled(u)
                      /\ SlotsOf(u)' = SlotsOf(u)
  <2> SUFFICES ASSUME NEW u \in Task
               PROVE  /\ Pending(u)' \cap Polled(u)' = Pending(u) \cap Polled(u)
                      /\ SlotsOf(u)' = SlotsOf(u)
    OBVIOUS
  <2>1. Pending(u)' = Pending(u) /\ SlotsOf(u)' = SlotsOf(u)
    BY <1>1 DEF Pending, SlotsOf
  <2>2. CASE u = t
    <3>1. i \notin Pending(u)
      BY <1>1, <2>2 DEF Pending
    <3>2. \A j \in Int : j # i => (j \in 1 .. i <=> j \in 1 .. i - 1)
      OBVIOUS
    <3>3. Pending(u) \subseteq Int
      BY DEF Pending
    <3> QED BY <1>2, <2>1, <2>2, <3>1, <3>2, <3>3
  <2>3. CASE u # t
    BY <1>2, <2>1, <2>3
  <2> QED BY <2>2, <2>3
<1>6. Covered'
  BY <1>1, <1>5 DEF Inv, Covered
<1> QED BY <1>2, <1>3, <1>4, <1>6 DEF Inv

(* A wake-up from elsewhere, the clock, and a step that changes nothing *)
LEMMA OtherInv ==
  ASSUME Inv, (\E t \in Task : wake(t)) \/ Clock \/ UNCHANGED vars
  PROVE  Inv'
<1>1. /\ alarms' = alarms /\ last_tick' = last_tick /\ running' = running
      /\ deadline' = deadline
      /\ queued \subseteq queued' /\ queued' \subseteq Task
      /\ now' \in 0 .. MaxTime /\ last_tick \in NoTime .. now'
  <2>1. CASE Clock
    BY <2>1, SizeAssumption DEF Clock, taskVars, Inv, TypeOK, NoTime
  <2>2. CASE \E t \in Task : wake(t)
    BY <2>2 DEF wake, timeVars, Inv, TypeOK
  <2>3. CASE UNCHANGED vars
    BY <2>3 DEF vars, timeVars, taskVars, Inv, TypeOK
  <2> QED BY <2>1, <2>2, <2>3
<1>2. TypeOK'
  BY <1>1 DEF Inv, TypeOK
<1>3. OwnAlarm' /\ AlarmsAhead' /\ SchedulesTimer'
  BY <1>1 DEF Inv, OwnAlarm, AlarmsAhead, SchedulesTimer
<1>4. \A u \in Task : /\ Pending(u)' = Pending(u) /\ Polled(u)' = Polled(u)
                      /\ SlotsOf(u)' = SlotsOf(u)
  BY <1>1 DEF Pending, Polled, SlotsOf
<1>5. Covered'
  BY <1>1, <1>4 DEF Inv, Covered
<1> QED BY <1>2, <1>3, <1>5 DEF Inv
-----------------------------------------------------------------------------
(* The table of alarms (schedule_wake, on_timer_tick), for any number of   *)
(* tasks, of Timers awaited together and of alarms, also fewer alarms than *)
(* tasks: no waker has two alarms, every task that waits for Timers is     *)
(* queued, polled or has its alarm at the deadline of the Timer it polled  *)
(* last, and a tick leaves no overdue Timer behind but a put-off one.      *)
THEOREM AlarmsInvariant == Spec => []AlarmsInv
<1>1. Init => Inv
  <2> SUFFICES ASSUME Init PROVE Inv
    OBVIOUS
  <2> USE DEF Init
  <2>1. TypeOK
    BY SizeAssumption DEF TypeOK, NoTime
  <2>2. \A s \in Slot : alarms[s] = NoAlarm
    OBVIOUS
  <2>3. OwnAlarm /\ AlarmsAhead
    BY <2>2 DEF OwnAlarm, AlarmsAhead
  <2>4. \A t \in Task : t \in queued
    OBVIOUS
  <2> QED BY <2>1, <2>3, <2>4 DEF Inv, Covered, SchedulesTimer
<1>2. Inv /\ [Next]_vars => Inv'
  BY ScheduleWakeInv, TickInv, ExecutorPollInv, TimerInv, AwaitOtherInv, OtherInv
     DEF Next, Step
<1>3. Inv => AlarmsInv
  BY InvImpliesAlarmsInv
<1> QED BY <1>1, <1>2, <1>3, PTL DEF Spec
=============================================================================
