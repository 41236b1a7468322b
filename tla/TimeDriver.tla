----------------------------- MODULE TimeDriver -----------------------------
(***************************************************************************)
(* The embassy-time driver of embclox-hal-x86 (time.rs) on one CPU: a      *)
(* table of MaxAlarms alarms, schedule_wake called by tasks that poll a    *)
(* Timer, and on_timer_tick called by the APIC timer interrupt, which may  *)
(* come between any two steps of a task but not inside the critical        *)
(* section of schedule_wake.  Time runs on its own.                        *)
(*                                                                         *)
(* embassy's Timer and run queue are external.  A task awaits the futures  *)
(* Futures[t] together and polls them in order; each holds at most one     *)
(* Timer at a time, may drop it and wait for another one, and the task may *)
(* be woken by something else (a network interrupt) while it waits.  The   *)
(* Timers of one task share its waker, so they share one alarm.            *)
(***************************************************************************)
EXTENDS Integers, FiniteSets, FiniteSetsExt

CONSTANTS Task,
          Futures,     \* how many futures each task awaits together
          MaxAlarms,   \* MAX_ALARMS
          MaxTime      \* bound on the clock

ASSUME SizeAssumption == /\ MaxAlarms \in Nat \ {0} /\ MaxTime \in Nat
                         /\ Futures \in [Task -> Nat \ {0}]

VARIABLES
  now,         \* Driver::now
  alarms,      \* ApicTimeDriver::alarms of this CPU
  last_tick,   \* the time the last on_timer_tick read
  queued,      \* the executor's run queue
  running,     \* the step, task and future that is polled
  deadline     \* the instant each Timer of a task expires, NoTime without one

timeVars == <<now, alarms, last_tick>>
taskVars == <<queued, running, deadline>>
vars == <<timeVars, taskVars>>

NoTime  == -1
NoAlarm == [at |-> NoTime]
Alarm   == [at : 0 .. MaxTime, waker : Task]
Slot    == 1 .. MaxAlarms
Idle    == <<"idle">>
Steps   == {"body", "schedule_wake"}

Init ==
  /\ now = 0 /\ last_tick = NoTime
  /\ alarms = [s \in Slot |-> NoAlarm]
  /\ queued = Task /\ running = Idle
  /\ deadline = [t \in Task |-> [i \in 1 .. Futures[t] |-> NoTime]]
-----------------------------------------------------------------------------
SlotsOf(t) == {s \in Slot : alarms[s] # NoAlarm /\ alarms[s].waker = t}
EmptySlots == {s \in Slot : alarms[s] = NoAlarm}

(* The slot schedule_wake settles on: the waker's own alarm, or else the   *)
(* first empty one; 0 when the table is full.                              *)
alarm_slot(t) ==
  IF SlotsOf(t) # {} THEN Min(SlotsOf(t))
  ELSE IF EmptySlots # {} THEN Min(EmptySlots) ELSE 0

(* The task polls its next future; after the last one its poll is over. *)
PollOn(t, i) == running' = IF i < Futures[t] THEN <<"body", t, i + 1>> ELSE Idle

Mutant_schedule_wake(t, i) ==
  /\ running = <<"schedule_wake", t, i>>
  /\ PollOn(t, i)
  /\ IF deadline[t][i] <= now
       THEN queued' = queued \cup {t} /\ UNCHANGED alarms
       ELSE /\ alarms' = IF alarm_slot(t) = 0 THEN alarms
                         ELSE [alarms EXCEPT ![alarm_slot(t)] =
                                 [at |-> deadline[t][i], waker |-> t]]
            /\ UNCHANGED queued
  /\ UNCHANGED <<now, last_tick, deadline>>

schedule_wake(t, i) ==
  /\ running = <<"schedule_wake", t, i>>
  /\ PollOn(t, i)
  /\ IF deadline[t][i] <= now \/ alarm_slot(t) = 0
       THEN queued' = queued \cup {t} /\ UNCHANGED alarms
       ELSE /\ alarms' = [alarms EXCEPT ![alarm_slot(t)] =
                            [at |-> deadline[t][i], waker |-> t]]
            /\ UNCHANGED queued
  /\ UNCHANGED <<now, last_tick, deadline>>

Expired(s) == alarms[s] # NoAlarm /\ alarms[s].at <= now

Mutant_on_timer_tick ==
  /\ now > last_tick /\ last_tick' = now
  /\ alarms' = [s \in Slot |-> IF \E q \in Slot : Expired(q) THEN NoAlarm ELSE alarms[s]]
  /\ queued' = queued \cup {alarms[s].waker : s \in {q \in Slot : Expired(q)}}
  /\ UNCHANGED <<now, running, deadline>>

(* on_timer_tick reads the clock, then wakes and empties every slot that   *)
(* has expired.  Only the clock can move between the two, and a tick that  *)
(* read it earlier is the same as one that came earlier.                   *)
on_timer_tick ==
  /\ now > last_tick /\ last_tick' = now
  /\ queued' = queued \cup {alarms[s].waker : s \in {q \in Slot : Expired(q)}}
  /\ alarms' = [s \in Slot |-> IF Expired(s) THEN NoAlarm ELSE alarms[s]]
  /\ UNCHANGED <<now, running, deadline>>
-----------------------------------------------------------------------------
(* embassy: the executor polls a queued task, ... *)
executor_poll(t) ==
  /\ running = Idle /\ t \in queued
  /\ queued' = queued \ {t} /\ running' = <<"body", t, 1>>
  /\ UNCHANGED <<timeVars, deadline>>

(* ... whose future waits for a new Timer, dropping the one it had, and    *)
(* polls it, ...                                                           *)
new_timer(t, i, d) ==
  /\ running = <<"body", t, i>> /\ d > now
  /\ deadline' = [deadline EXCEPT ![t][i] = d]
  /\ running' = <<"schedule_wake", t, i>>
  /\ UNCHANGED <<timeVars, queued>>

(* ... or polls the one it has: ready, or schedule_wake and pending, ... *)
poll_timer(t, i) ==
  /\ running = <<"body", t, i>> /\ deadline[t][i] # NoTime
  /\ IF deadline[t][i] <= now
       THEN deadline' = [deadline EXCEPT ![t][i] = NoTime] /\ UNCHANGED running
       ELSE running' = <<"schedule_wake", t, i>> /\ UNCHANGED deadline
  /\ UNCHANGED <<timeVars, queued>>

(* ... or waits for something else. *)
await_other(t, i) ==
  /\ running = <<"body", t, i>> /\ deadline[t][i] = NoTime
  /\ PollOn(t, i)
  /\ UNCHANGED <<timeVars, queued, deadline>>

(* Another interrupt wakes the task. *)
wake(t) ==
  /\ t \notin queued
  /\ queued' = queued \cup {t}
  /\ UNCHANGED <<timeVars, running, deadline>>

Clock ==
  /\ now < MaxTime
  /\ now' = now + 1
  /\ UNCHANGED <<alarms, last_tick, taskVars>>

Step(t) == \E i \in 1 .. Futures[t] :
  \/ \E d \in 0 .. MaxTime : new_timer(t, i, d)
  \/ poll_timer(t, i) \/ await_other(t, i) \/ schedule_wake(t, i)
Next == Clock \/ on_timer_tick \/ \E t \in Task : executor_poll(t) \/ Step(t) \/ wake(t)

Spec == Init /\ [][Next]_vars

(* The clock and the periodic timer run; a task that is polled comes to    *)
(* its end; the run queue passes over no queued task forever.              *)
FairSpec ==
  /\ Spec /\ WF_vars(Clock) /\ WF_vars(on_timer_tick)
  /\ \A t \in Task : WF_vars(Step(t)) /\ SF_vars(executor_poll(t))
-----------------------------------------------------------------------------
(* Alarms hold instants and wakers, a polled task is at one of its steps. *)
TypeOK ==
  /\ now \in 0 .. MaxTime /\ last_tick \in NoTime .. now
  /\ alarms \in [Slot -> Alarm \cup {NoAlarm}]
  /\ queued \subseteq Task
  /\ \/ running = Idle
     \/ \E t \in Task : running \in Steps \X {t} \X (1 .. Futures[t])
  /\ DOMAIN deadline = Task
  /\ \A t \in Task : deadline[t] \in [1 .. Futures[t] -> NoTime .. MaxTime]

Pending(t) == {i \in 1 .. Futures[t] : deadline[t][i] # NoTime}
Active(t)  == t \in queued \/ (running # Idle /\ running[2] = t)

(* schedule_wake never leaves two alarms of one waker in the table.        *)
OneAlarmPerTask == \A t \in Task : Cardinality(SlotsOf(t)) <= 1

(* A task that waits for Timers is not forgotten, with a full table and    *)
(* after any sequence of Timers dropped and replaced: it is queued or      *)
(* running, or the table holds its alarm at exactly the deadline of the    *)
(* Timer it polled last.                                                   *)
WaitersCovered ==
  \A t \in Task : Pending(t) # {} /\ ~Active(t) =>
    \E s \in SlotsOf(t) : alarms[s].at = deadline[t][Max(Pending(t))]

(* on_timer_tick leaves no Timer behind whose deadline it has seen, with   *)
(* one exception: a later Timer that the same task polls after it, whose   *)
(* schedule_wake has put the alarm they share off to its own deadline.     *)
OverdueQueued ==
  \A t \in Task : \A i \in Pending(t) : deadline[t][i] <= last_tick =>
    \/ Active(t)
    \/ \E j \in Pending(t) : j > i /\ deadline[t][j] > last_tick

(* Every Timer that is waited for expires, also one whose alarm was put    *)
(* off for another Timer of its task.                                      *)
TimersExpire ==
  \A t \in Task : \A i \in 1 .. Futures[t] :
    deadline[t][i] # NoTime ~> deadline[t][i] = NoTime

(* The table of alarms: one entry per waker, with it every waiting task    *)
(* accounted for, and no overdue Timer left behind but a put-off one.      *)
AlarmsInv == TypeOK /\ OneAlarmPerTask /\ WaitersCovered /\ OverdueQueued
=============================================================================
