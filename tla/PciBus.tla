------------------------------- MODULE PciBus -------------------------------
(***************************************************************************)
(* PCI configuration space (embclox-hal-x86/src/pci.rs).                   *)
(*                                                                         *)
(* The machine's functions are a function config from <<bus, dev, func>>   *)
(* to what the registers the kernel reads hold: which driver's vendor and  *)
(* device ids (kind), the multi-function bit of the header type, the       *)
(* command register, BAR 0 and the interrupt line.  BAR 0 is an I/O port,  *)
(* or a physical address of 32 or 64 bits: bits 12 to 31 (page), bits 4 to *)
(* 11 (offset), and the next register (upper).                             *)
(***************************************************************************)
EXTENDS Integers, FiniteSets

PagesIn4G == 2 ^ 20

(* Bus 0 only, and functions 1 to 7 only of a multi-function device *)
Enumerated(config) ==
  {s \in DOMAIN config :
     /\ s[1] = 0
     /\ s[3] = 0 \/ (<<0, s[2], 0>> \in DOMAIN config /\ config[<<0, s[2], 0>>].multi)}

Before(a, b) == a[2] < b[2] \/ (a[2] = b[2] /\ a[3] < b[3])

(* In the order of device and function *)
enumerate(config) ==
  LET found == Enumerated(config)
  IN [i \in 1 .. Cardinality(found) |->
        CHOOSE s \in found : Cardinality({t \in found : Before(t, s)}) = i - 1]

Mutant_read_bar(f) == f.bar.page

(* The page of the address in BAR 0 *)
read_bar(f) ==
  IF f.bar.type = "mem64" THEN f.bar.upper * PagesIn4G + f.bar.page ELSE f.bar.page

enable_bus_mastering(config, s) ==
  [config EXCEPT ![s].command = @ \cup {"io", "memory", "master"}]
=============================================================================
