----------------------------- MODULE KernelBoot -----------------------------
(***************************************************************************)
(* kmain of examples-kernel from its first line to run_executor: the probe *)
(* of the network cards (module DeviceProbe), which the command line       *)
(* (CommandLine) restricts, then the application processors (SmpBoot) if   *)
(* it asks for them, then the network configuration.  The APs run beside   *)
(* what is left of kmain, on the IDT that the probes have written.         *)
(***************************************************************************)
EXTENDS DeviceProbe, SmpBoot, CommandLine

CONSTANTS Boots,      \* the machines, hosts and command lines to boot with
          Defaults    \* NET_DEFAULTS

VARIABLES
  cmdline,     \* Limine's command line
  mp,          \* Limine answered the MP request
  net          \* net_mode; mode is "unset" until it is parsed

vars == <<probeVars, smpVars, cmdline, mp, net>>

Init ==
  /\ \E b \in Boots :
       /\ config = b.config /\ on_hyperv = b.hyperv /\ offers = b.offers
       /\ machine = b.machine /\ mp = b.mp /\ cmdline = b.cmdline
  /\ ProbeInit /\ SmpInit /\ net = [mode |-> "unset"]
-----------------------------------------------------------------------------
(* Interrupt and APIC infrastructure *)
kmain_init ==
  /\ map_apics /\ init_bsp
  /\ UNCHANGED <<cmdline, mp, net>>

(* VMBus, the registry, probe_all and the choice of the primary *)
kmain_probe ==
  /\ \/ try_init \/ VectorAllocator_new
     \/ register_drivers(parse_nic_filter(cmdline))
     \/ probe_all_pci \/ probe_all_vmbus \/ select
  /\ UNCHANGED <<smpVars, cmdline, mp, net>>

StartAps == parse_smp(cmdline).enabled /\ mp

ApLimit == IF parse_smp(cmdline).limited THEN parse_smp(cmdline).max_aps ELSE MaxCpus - 1

kmain_smp ==
  /\ pc = "smp" /\ StartAps
  /\ start_smp(ApLimit) /\ pc' = "aps"
  /\ UNCHANGED <<config, on_hyperv, offers, opened, vmbus, registered, tables, mem,
                 kept, nics, next, cmdline, mp, net>>

kmain_aps == Bsp /\ UNCHANGED <<probeVars, cmdline, mp, net>>

(* The embassy stack *)
kmain_net ==
  /\ (pc = "smp" /\ ~StartAps) \/ (pc = "aps" /\ bsp = "done")
  /\ net' = parse_net_mode(cmdline, Defaults) /\ pc' = "running"
  /\ UNCHANGED <<config, on_hyperv, offers, opened, vmbus, registered, tables, mem,
                 kept, nics, next, smpVars, cmdline, mp>>

Kmain == kmain_init \/ kmain_probe \/ kmain_smp \/ kmain_aps \/ kmain_net

ApStep(c) == Ap(c) /\ UNCHANGED <<probeVars, cmdline, mp, net>>

(* A tick goes to the handler in the IDT that all CPUs share. *)
Tick(c) ==
  /\ idt[APIC_TIMER_VECTOR] = "timer" /\ heartbeat(c)
  /\ UNCHANGED <<probeVars, cmdline, mp, net>>

Over ==
  /\ pc \in {"running", "panic", "oom"}
  /\ \A c \in Aps : ap[c] # "spin" => ap[c] \in {"run", "dead"}
  /\ UNCHANGED vars

Next == Kmain \/ (\E c \in Aps : ApStep(c)) \/ (\E c \in Cpus : Tick(c)) \/ Over

Spec == Init /\ [][Next]_vars

(* Every CPU runs on its own.  (All CPUs together have finitely many steps, *)
(* so fairness to any of them is fairness to each.)                        *)
FairSpec ==
  /\ Spec /\ WF_vars(Kmain)
  /\ WF_vars(\E c \in Aps : ApStep(c)) /\ WF_vars(\E c \in Cpus : Tick(c))
-----------------------------------------------------------------------------
(* The value of the only token with a key *)
Only(key, v) == Values(cmdline, key) = <<v>>

(* What the command line says once is what the system does: with nic= no   *)
(* other driver's card is touched or used (even a better one), cpus= and   *)
(* smp= bound the CPUs that leave Limine's loop, and net= and ip= reach    *)
(* the stack.                                                              *)
CommandLineObeyed ==
  /\ \A name \in Drivers : Only("nic", name) =>
       /\ \A i \in DOMAIN nics : nics[i].name = name
       /\ \A s \in DOMAIN config : "master" \in config[s].command => config[s].kind = name
  /\ ~(\E i \in DOMAIN cmdline : cmdline[i] = [key |-> "smp", val |-> "on"]) => released = {}
  /\ \A n \in 1 .. MaxCpus : Only("cpus", n) => Cardinality(released) < n
  /\ net.mode # "unset" /\ Only("net", "dhcp") => net.mode = "dhcp"
  /\ net.mode # "unset" /\ Values(cmdline, "net") = <<>> =>
       /\ net.mode = "static"
       /\ \A i \in DOMAIN cmdline :
            cmdline[i].key = "ip" /\ cmdline[i].val # Malformed
            /\ Only("ip", cmdline[i].val) => net.ip = cmdline[i].val

(* The cards that are used are those that should be: no card overlooked    *)
(* that the budget leaves room for, on PCI or VMBus, and none used that    *)
(* the command line excludes.                                              *)
CardsFound == BestCardChosen /\ NetvscProbed /\ CommandLineObeyed

(* Boot ends, and if it does not end in a panic then as many APs as there  *)
(* are, as the command line allows and as there are slots have come to     *)
(* life, every one of them with a timer that ticks.                        *)
AllAlive ==
  <>(\/ pc \in {"panic", "oom"}
     \/ /\ pc = "running"
        /\ Cardinality({c \in Aps : ap[c] = "run" /\ beats[c] > 0})
             = IF StartAps THEN Min({Cardinality(Aps), ApLimit, MaxCpus - 1}) ELSE 0)
=============================================================================
