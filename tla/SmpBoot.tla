------------------------------- MODULE SmpBoot -------------------------------
(***************************************************************************)
(* Bringing up the application processors: kmain and bring_up_aps on the   *)
(* boot processor (BSP), ap_entry and ap_setup on every application        *)
(* processor (AP), and what the per-CPU identity is for: the CPU's own     *)
(* slot of CPU_LOCALS, its own executor and its own table of alarms.       *)
(*                                                                         *)
(* A CPU is named by its LAPIC id.  Its identity to the kernel is the      *)
(* processor id in its GS_BASE.  Limine, external, holds every AP in a     *)
(* loop until its goto_address is written.                                 *)
(***************************************************************************)
EXTENDS Naturals, Sequences, FiniteSets, FiniteSetsExt, SequencesExt

CONSTANTS MaxCpus,    \* MAX_CPUS
          MaxBeats    \* bound on a CPU's heartbeats

VARIABLES
  machine,     \* Limine's CPU list and the BSP's LAPIC id
  bsp,         \* the BSP's next step; "kmain" while it does something else
  max_aps,     \* bring_up_aps: the argument
  idx,         \* bring_up_aps: position in Limine's list
  started,     \* bring_up_aps: started
  tsc,         \* AP_TSC_PER_US was stored
  extra,       \* Cpu::extra
  released,    \* Cpu::goto_address was written
  ap,          \* the AP's next step
  init,        \* ap_entry's ApInit: processor id, and whether the TSC rate is known
  gs,          \* GS_BASE
  cpu_locals,  \* CPU_LOCALS: the LAPIC id each slot holds
  executors,   \* the AP_EXECUTORS that are initialised
  touched,     \* the CPUs that used each table of alarms
  beats,       \* heartbeats of each CPU
  panicked

bspVars == <<machine, bsp, max_aps, idx, started, tsc, extra, released>>
apVars == <<ap, init, gs, cpu_locals, executors, panicked>>
beatVars == <<touched, beats>>
smpVars == <<bspVars, apVars, beatVars>>

Cpus == ToSet(machine.cpus)
Aps  == Cpus \ {machine.bsp}
Empty == 256   \* no u8 LAPIC id

SmpInit ==
  /\ bsp = "init_bsp" /\ max_aps = 0 /\ idx = 1 /\ started = 0 /\ tsc = FALSE /\ panicked = FALSE
  /\ extra = [c \in Cpus |-> 0] /\ released = {}
  /\ ap = [c \in Aps |-> "spin"]
  /\ init = [c \in Aps |-> [id |-> 0, tsc |-> FALSE]]
  /\ gs = [c \in Cpus |-> 0]
  /\ cpu_locals = [s \in 0 .. MaxCpus - 1 |-> Empty] /\ executors = {}
  /\ touched = [s \in 0 .. MaxCpus - 1 |-> {}]
  /\ beats = [c \in Cpus |-> 0]
-----------------------------------------------------------------------------
init_bsp ==
  /\ bsp = "init_bsp" /\ bsp' = "kmain"
  /\ cpu_locals' = [cpu_locals EXCEPT ![0] = machine.bsp]
  /\ gs' = [gs EXCEPT ![machine.bsp] = 0]
  /\ UNCHANGED <<machine, max_aps, idx, started, tsc, extra, released, ap, init,
                 executors, panicked, beatVars>>

(* kmain, with smp=on and a list from Limine: the APs are brought up, at   *)
(* most n of them; ...                                                     *)
start_smp(n) ==
  /\ bsp = "kmain" /\ bsp' = "params" /\ max_aps' = n
  /\ UNCHANGED <<machine, idx, started, tsc, extra, released, apVars, beatVars>>

Mutant_set_ap_init_params ==
  /\ bsp = "params" /\ bsp' = "extra"
  /\ UNCHANGED <<machine, max_aps, idx, started, tsc, extra, released, apVars, beatVars>>

(* ... the TSC rate is stored first. *)
set_ap_init_params ==
  /\ bsp = "params" /\ bsp' = "extra"
  /\ tsc' = TRUE
  /\ UNCHANGED <<machine, max_aps, idx, started, extra, released, apVars, beatVars>>

cap == Min({max_aps, MaxCpus - 1})

Cpu == machine.cpus[idx]

processor_id == started + 1

(* One turn of the loop of bring_up_aps, up to the store of extra *)
bring_up_aps ==
  /\ bsp = "extra"
  /\ IF idx > Len(machine.cpus) \/ started >= cap
       THEN bsp' = "done" /\ UNCHANGED <<idx, extra>>
       ELSE IF Cpu = machine.bsp
         THEN idx' = idx + 1 /\ UNCHANGED <<bsp, extra>>
         ELSE /\ extra' = [extra EXCEPT ![Cpu] = processor_id]
              /\ bsp' = "goto" /\ UNCHANGED idx
  /\ UNCHANGED <<machine, max_aps, started, tsc, released, apVars, beatVars>>

goto_address ==
  /\ bsp = "goto" /\ bsp' = "extra"
  /\ released' = released \cup {Cpu}
  /\ started' = started + 1 /\ idx' = idx + 1
  /\ UNCHANGED <<machine, max_aps, tsc, extra, apVars, beatVars>>
-----------------------------------------------------------------------------
(* ap_entry: ap_init_from, ... *)
ap_init_from(c) ==
  /\ ap[c] = "spin" /\ c \in released
  /\ init' = [init EXCEPT ![c] = [id |-> extra[c] % 256, tsc |-> tsc]]
  /\ ap' = [ap EXCEPT ![c] = "init_ap"]
  /\ UNCHANGED <<bspVars, gs, cpu_locals, executors, panicked, beatVars>>

CallOnce(slot, c) ==
  IF cpu_locals[slot] = Empty THEN [cpu_locals EXCEPT ![slot] = c] ELSE cpu_locals

Mutant_init_ap(c) ==
  /\ ap[c] = "init_ap"
  /\ IF init[c].id = 0 \/ init[c].id >= MaxCpus
       THEN /\ panicked' = TRUE /\ ap' = [ap EXCEPT ![c] = "dead"]
            /\ UNCHANGED <<cpu_locals, gs>>
       ELSE /\ cpu_locals' = CallOnce(init[c].id, c)
            /\ ap' = [ap EXCEPT ![c] = "timer"]
            /\ UNCHANGED <<panicked, gs>>
  /\ UNCHANGED <<bspVars, init, executors, beatVars>>

(* ... ap_setup: init_ap with its two assertions, call_once and GS_BASE, ... *)
init_ap(c) ==
  /\ ap[c] = "init_ap"
  /\ IF init[c].id = 0 \/ init[c].id >= MaxCpus
       THEN /\ panicked' = TRUE /\ ap' = [ap EXCEPT ![c] = "dead"]
            /\ UNCHANGED <<cpu_locals, gs>>
       ELSE /\ cpu_locals' = CallOnce(init[c].id, c)
            /\ gs' = [gs EXCEPT ![c] = init[c].id]
            /\ ap' = [ap EXCEPT ![c] = "timer"]
            /\ UNCHANGED panicked
  /\ UNCHANGED <<bspVars, init, executors, beatVars>>

(* ... the IDT, the LAPIC and its timer, which stands still when the       *)
(* count, a multiple of the TSC rate, is 0; ...                            *)
ap_setup(c) ==
  /\ ap[c] = "timer"
  /\ ap' = [ap EXCEPT ![c] = IF init[c].tsc THEN "executor" ELSE "dead"]
  /\ UNCHANGED <<bspVars, init, gs, cpu_locals, executors, panicked, beatVars>>

(* ... then its executor, a StaticCell that panics when initialised again, *)
(* the heartbeat task and run_executor, which enables interrupts.          *)
ap_entry(c) ==
  /\ ap[c] = "executor"
  /\ IF init[c].id \in executors
       THEN panicked' = TRUE /\ ap' = [ap EXCEPT ![c] = "dead"] /\ UNCHANGED executors
       ELSE /\ executors' = executors \cup {init[c].id}
            /\ ap' = [ap EXCEPT ![c] = "run"] /\ UNCHANGED panicked
  /\ UNCHANGED <<bspVars, init, gs, cpu_locals, beatVars>>

(* The processor id in GS_BASE *)
current_cpu_id(c) == gs[c]

(* A timer tick, or a Timer polled by the heartbeat task: both go to the   *)
(* table of current_cpu_id.  The BSP's timer runs before and while the APs *)
(* come up.                                                                *)
heartbeat(c) ==
  /\ IF c = machine.bsp THEN bsp # "init_bsp" ELSE ap[c] = "run"
  /\ beats[c] < MaxBeats
  /\ beats' = [beats EXCEPT ![c] = @ + 1]
  /\ touched' = [touched EXCEPT ![current_cpu_id(c)] = @ \cup {c}]
  /\ UNCHANGED <<bspVars, apVars>>

Bsp == set_ap_init_params \/ bring_up_aps \/ goto_address
Ap(c) == ap_init_from(c) \/ init_ap(c) \/ ap_setup(c) \/ ap_entry(c)
-----------------------------------------------------------------------------
(* Ids and steps are in range. *)
SmpTypeOK ==
  /\ bsp \in {"init_bsp", "kmain", "params", "extra", "goto", "done"}
  /\ idx \in 1 .. Len(machine.cpus) + 1 /\ started \in 0 .. MaxCpus - 1
  /\ \A c \in Aps : ap[c] \in {"spin", "init_ap", "timer", "executor", "run", "dead"}
  /\ gs \in [Cpus -> 0 .. MaxCpus - 1]
  /\ \A s \in DOMAIN cpu_locals : cpu_locals[s] \in Cpus \cup {Empty}
  /\ executors \subseteq 1 .. MaxCpus - 1 /\ released \subseteq Aps

(* A CPU whose set-up is over finds itself, and nobody else, in the slot   *)
(* that current_cpu_id leads to (call_once would silently keep another).   *)
OwnSlot ==
  \A c \in Aps : ap[c] \in {"timer", "executor", "run"} =>
    gs[c] # 0 /\ cpu_locals[gs[c]] = c

(* No table of alarms is used by two CPUs: the critical section around it  *)
(* masks the interrupts of one CPU only.                                   *)
TablesPrivate == \A s \in DOMAIN touched : Cardinality(touched[s]) <= 1

(* No AP runs into an assertion of init_ap or initialises an executor that *)
(* another one has initialised, whatever the list, its order and cpus=.    *)
NoApPanics == ~panicked

(* The CPUs stay apart: each has its own slot and executor, no assertion   *)
(* fires, and no table of alarms is shared, while the APs start in any     *)
(* order and run beside kmain's remaining steps.                            *)
CpusApart == SmpTypeOK /\ OwnSlot /\ TablesPrivate /\ NoApPanics
==============================================================================
