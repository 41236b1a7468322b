---------------------------- MODULE DeviceProbe ----------------------------
(***************************************************************************)
(* kmain from try_init to the choice of the network card: main.rs of       *)
(* examples-kernel, VectorAllocator (embclox-hal-x86), install_pci_isr_on, *)
(* probe_all and the e1000, tulip and NetVSC drivers (embclox-driver).     *)
(*                                                                         *)
(* One CPU, no concurrency: what can go wrong is what one step overwrites  *)
(* of an earlier one, in the IDT, the IOAPIC and the drivers' statics, and *)
(* what it keeps of the heap and of the address space.                     *)
(***************************************************************************)
EXTENDS Integers, Sequences, FiniteSets, FiniteSetsExt, PciBus, BootMemory

CONSTANT PROBE_BUDGET     \* 4 in the code

ASSUME BudgetAssumption == PROBE_BUDGET \in Nat

VARIABLES
  config,          \* PCI configuration space
  on_hyperv,       \* detect: CPUID, SynIC and hypercalls are there
  offers,          \* number of NetVSC devices the host offers
  opened,          \* the host has opened the channel that NetvscDevice::init asks for
  vmbus,           \* vmbus_holder: "unknown", "none" or "some"
  registered,      \* drivers in the registry
  idt,             \* vector -> handler
  used,            \* VectorAllocator: vectors taken
  ioapic,          \* line -> vector, 0 when not routed
  regs,            \* E1000_REGS_BASE and CSR_FOR_ISR
  mem,             \* heap and mappings
  kept,            \* history: pages VMBus and NetVSC took, which are never freed
  nics,            \* the cards probe_all returns; after select, the primary
  pc, next         \* where boot is, and the next device or offer

tables == <<idt, used, ioapic, regs>>
probeVars == <<config, on_hyperv, offers, opened, vmbus, registered, tables,
               mem, kept, nics, pc, next>>
-----------------------------------------------------------------------------
APIC_TIMER_VECTOR == 32
VMBUS_VECTOR == 34
SPURIOUS_VECTOR == 39
Vectors == 32..47

max_entries == 24
Lines == 0..(max_entries - 1)

LAPIC_PHYS == 1043968    \* LAPIC_PHYS_BASE, 0xFEE00000, in pages
IOAPIC_PHYS == 1043456   \* IOAPIC_PHYS_BASE, 0xFEC00000
HYPERCALL_PHYS == 256    \* a page of the heap; which one is immaterial

(* Pages of DMA memory: hypercall, message, SIMP, SIEFP and monitor pages; *)
(* NetVSC's ring, receive and send buffer; and what a PCI card's rings and *)
(* buffers take and Drop gives back (a DmaRegion has no Drop of its own).  *)
VmbusPages == 6
RingPages == 64
RecvPages == 512
SendPages == 256
DmaPages(name) == CASE name = "e1000" -> 258 [] name = "tulip" -> 18 [] OTHER -> 0
DmaTotal(cards) == MapThenSumSet(LAMBDA i : DmaPages(cards[i].name), DOMAIN cards)

(* The registers a driver maps *)
RegPages(name) == IF name = "e1000" THEN 32 ELSE 1

Unpublished == [space |-> "none", at |-> 0]
Mmio(page) == [space |-> "memory", at |-> page]
Io(port) == [space |-> "io", at |-> port]

(* The drivers' priority(): lower wins *)
priority(name) == CASE name = "netvsc" -> 10 [] name = "e1000" -> 20 [] name = "tulip" -> 30

Drivers == {"e1000", "tulip", "netvsc"}

ProbeInit ==
  /\ opened = FALSE /\ vmbus = "unknown" /\ registered = {}
  /\ idt = [v \in Vectors |-> "none"]
  /\ used = {} /\ ioapic = [l \in Lines |-> 0]
  /\ regs = [d \in {"e1000", "tulip"} |-> Unpublished]
  /\ mem = NewMemory /\ kept = 0
  /\ nics = << >> /\ pc = "init" /\ next = 1
-----------------------------------------------------------------------------
(* The local APIC and the IOAPIC are mapped, and start_apic_timer installs *)
(* its two handlers.                                                       *)
map_apics ==
  /\ pc = "init"
  /\ mem' = map_mmio(map_mmio(mem, LAPIC_PHYS, 1), IOAPIC_PHYS, 1)
  /\ idt' = [idt EXCEPT ![APIC_TIMER_VECTOR] = "timer", ![SPURIOUS_VECTOR] = "spurious"]
  /\ pc' = "try_init"
  /\ UNCHANGED <<config, on_hyperv, offers, opened, vmbus, registered, used, ioapic,
                 regs, kept, nics, next>>

(* The SINT2 handler is installed before init, which may fail after it has *)
(* taken its memory and mapped the hypercall page.                         *)
try_init ==
  /\ pc = "try_init"
  /\ IF on_hyperv
       THEN /\ idt' = [idt EXCEPT ![VMBUS_VECTOR] = "vmbus"]
            /\ vmbus' \in {"some", "none"}
            /\ mem' = alloc_coherent(map_mmio(mem, HYPERCALL_PHYS, 1), VmbusPages)
            /\ kept' = VmbusPages
       ELSE vmbus' = "none" /\ UNCHANGED <<idt, mem, kept>>
  /\ pc' = "reserve"
  /\ UNCHANGED <<config, on_hyperv, offers, opened, registered, used, ioapic, regs,
                 nics, next>>

Mutant_VectorAllocator_new ==
  /\ pc = "reserve" /\ pc' = "register"
  /\ used' = {APIC_TIMER_VECTOR, SPURIOUS_VECTOR}
  /\ UNCHANGED <<config, on_hyperv, offers, opened, vmbus, registered, idt, ioapic,
                 regs, mem, kept, nics, next>>

(* VectorAllocator::new(32, 47, reservations): 34 is among them if VMBus   *)
(* is up                                                                   *)
VectorAllocator_new ==
  /\ pc = "reserve" /\ pc' = "register"
  /\ used' = {APIC_TIMER_VECTOR, SPURIOUS_VECTOR} \cup
             (IF vmbus = "some" THEN {VMBUS_VECTOR} ELSE {})
  /\ UNCHANGED <<config, on_hyperv, offers, opened, vmbus, registered, idt, ioapic,
                 regs, mem, kept, nics, next>>

(* register_default_drivers, or register_named_driver for nic=<name>, which *)
(* registers nothing for an unknown name                                    *)
register_drivers(filter) ==
  /\ pc = "register" /\ pc' = "pci"
  /\ registered' = IF filter = "" THEN Drivers ELSE Drivers \cap {filter}
  /\ UNCHANGED <<config, on_hyperv, offers, opened, vmbus, tables, mem, kept, nics, next>>
-----------------------------------------------------------------------------
(* allocate: the lowest free vector *)
Free == Vectors \ used
allocate == Min(Free)

(* install_pci_isr: the line is checked, a vector taken, the handler       *)
(* installed, the line routed; Err before anything is changed              *)
CanInstall(line) == line < max_entries /\ Free # {}

install_pci_isr(line, handler) ==
  /\ used' = used \cup {allocate}
  /\ idt' = [idt EXCEPT ![allocate] = handler]
  /\ ioapic' = [ioapic EXCEPT ![line] = allocate]

Nic(name, slot, at, vector) == [name |-> name, slot |-> slot, at |-> at, vector |-> vector]

Mutant_Wire(s, at, m) ==
  LET f == config[s]
      wired == ~Exhausted(m) /\ CanInstall(f.line)
  IN /\ pc' = IF Exhausted(m) THEN "oom" ELSE pc
     /\ mem' = m
     /\ IF wired THEN /\ install_pci_isr(f.line, f.kind)
                      /\ nics' = Append(nics, Nic(f.kind, s, at, allocate))
                 ELSE UNCHANGED <<idt, used, ioapic, nics>>

(* What follows in a probe when the registers are mapped and published and *)
(* the rings allocated, which leaves m.  When the interrupt cannot be      *)
(* installed the device is dropped: reset, and its DMA memory freed; the   *)
(* mapping stays.                                                          *)
Wire(s, at, m) ==
  LET f == config[s]
      wired == ~Exhausted(m) /\ CanInstall(f.line)
  IN /\ pc' = IF Exhausted(m) THEN "oom" ELSE pc
     /\ mem' = IF wired \/ Exhausted(m) THEN m ELSE free_coherent(m, DmaPages(f.kind))
     /\ IF wired THEN /\ install_pci_isr(f.line, f.kind)
                      /\ nics' = Append(nics, Nic(f.kind, s, at, allocate))
                 ELSE UNCHANGED <<idt, used, ioapic, nics>>

(* The registers are published for the static handler before the interrupt *)
(* is installed, and stay published if that fails.                         *)
E1000Driver_probe(s) ==
  LET mapped == map_mmio(mem, read_bar(config[s]), RegPages("e1000"))
      at == Mmio(mem.next_vaddr)
  IN /\ config' = enable_bus_mastering(config, s)
     /\ regs' = [regs EXCEPT !["e1000"] = at]
     /\ Wire(s, at, alloc_coherent(mapped, DmaPages("e1000")))

TulipDriver_probe(s) ==
  LET f == config[s]
      is_io == f.bar.type = "io"
      mapped == IF is_io THEN mem ELSE map_mmio(mem, read_bar(f), RegPages("tulip"))
      at == IF is_io THEN Io(f.bar.page) ELSE Mmio(mem.next_vaddr)
  IN /\ config' = enable_bus_mastering(config, s)
     /\ regs' = [regs EXCEPT !["tulip"] = at]
     /\ Wire(s, at, alloc_coherent(mapped, DmaPages("tulip")))

pci == enumerate(config)

(* probe_all, PCI: each device goes to the driver that matches it; no two  *)
(* in-tree drivers match the same device.  A failed probe does not count.  *)
probe_all_pci ==
  /\ pc = "pci"
  /\ IF next > Len(pci) \/ Len(nics) >= PROBE_BUDGET
       THEN pc' = "vmbus" /\ next' = 1 /\ UNCHANGED <<config, tables, mem, nics>>
       ELSE /\ next' = next + 1
            /\ LET s == pci[next]
               IN IF config[s].kind \notin registered
                    THEN UNCHANGED <<pc, config, tables, mem, nics>>
                    ELSE IF config[s].kind = "e1000" THEN E1000Driver_probe(s)
                                                     ELSE TulipDriver_probe(s)
  /\ UNCHANGED <<on_hyperv, offers, opened, vmbus, registered, kept>>

(* NetvscDevice::init takes the first offer, whichever one is probed, and  *)
(* fails anywhere or not at all.  It has a ring before it asks for the     *)
(* channel, and its buffers when the host, which opens the channel once    *)
(* (module VmbusBoot), talks to it.                                        *)
NetvscDriver_probe ==
  \E taken \in {RingPages, RingPages + RecvPages, RingPages + RecvPages + SendPages} :
    LET m == alloc_coherent(mem, taken)
    IN /\ taken = RingPages \/ ~opened
       /\ opened' \in (IF taken = RingPages THEN {opened, TRUE} ELSE {TRUE})
       /\ mem' = m /\ kept' = kept + taken
       /\ pc' = IF Exhausted(m) THEN "oom" ELSE pc
       /\ nics' \in {nics} \cup
            (IF taken = RingPages + RecvPages + SendPages /\ ~Exhausted(m)
               THEN {Append(nics, Nic("netvsc", <<>>, Unpublished, VMBUS_VECTOR))} ELSE {})

(* probe_all, VMBus *)
probe_all_vmbus ==
  /\ pc = "vmbus"
  /\ IF vmbus # "some" \/ next > offers \/ Len(nics) >= PROBE_BUDGET
       THEN pc' = "select" /\ UNCHANGED <<next, nics, mem, kept, opened>>
       ELSE /\ next' = next + 1
            /\ IF "netvsc" \in registered THEN NetvscDriver_probe
                                          ELSE UNCHANGED <<pc, nics, mem, kept, opened>>
  /\ UNCHANGED <<config, on_hyperv, offers, vmbus, registered, tables>>

Mutant_primary == Head(nics)

(* min_by_key(priority): the first of the best *)
primary ==
  nics[CHOOSE i \in DOMAIN nics : \A j \in DOMAIN nics :
         \/ priority(nics[i].name) < priority(nics[j].name)
         \/ priority(nics[i].name) = priority(nics[j].name) /\ i <= j]

(* The other cards are dropped.  Their entries in the IDT and the IOAPIC,  *)
(* their mappings and what they published stay.                            *)
select ==
  /\ pc = "select"
  /\ IF nics = << >>
       THEN pc' = "panic" /\ UNCHANGED <<nics, mem>>
       ELSE /\ pc' = "smp" /\ nics' = <<primary>>
            /\ mem' = free_coherent(mem, DmaTotal(nics) - DmaTotal(nics'))
  /\ UNCHANGED <<config, on_hyperv, offers, opened, vmbus, registered, tables, kept, next>>
-----------------------------------------------------------------------------
Probing == {"pci", "vmbus", "select"}
Selected == {"smp", "aps", "running"}

(* Types, and the budget: no more cards than PROBE_BUDGET come out of probe_all. *)
ProbeTypeOK ==
  /\ on_hyperv \in BOOLEAN /\ opened \in BOOLEAN /\ vmbus \in {"unknown", "none", "some"}
  /\ registered \subseteq Drivers
  /\ idt \in [Vectors -> {"none", "timer", "spurious", "vmbus", "e1000", "tulip"}]
  /\ used \subseteq Vectors /\ ioapic \in [Lines -> Vectors \cup {0}]
  /\ \A i \in DOMAIN nics : nics[i].name \in Drivers /\ nics[i].vector \in Vectors
  /\ pc \in Probing \cup Selected \cup
            {"init", "try_init", "reserve", "register", "panic", "oom"}
  /\ Len(nics) <= PROBE_BUDGET

PciNics == {i \in DOMAIN nics : nics[i].name # "netvsc"}

(* Reservation and allocation keep the vectors apart: the timer, the       *)
(* spurious vector and, with VMBus up, SINT2 keep their handlers through   *)
(* all probes, each card's vector has its own driver's handler, and a      *)
(* vector is taken for nothing else.  If VMBus is down although SINT2 is   *)
(* enabled, a card may get vector 34.                                      *)
VectorsExclusive ==
  pc \in Probing \cup Selected =>
    /\ idt[APIC_TIMER_VECTOR] = "timer" /\ idt[SPURIOUS_VECTOR] = "spurious"
    /\ vmbus = "some" => idt[VMBUS_VECTOR] = "vmbus"
    /\ \A i \in PciNics : idt[nics[i].vector] = nics[i].name
    /\ pc \in Probing =>
         Cardinality(used) = 2 + (IF vmbus = "some" THEN 1 ELSE 0) + Cardinality(PciNics)

(* A card probed later whose probe takes something over from the chosen    *)
(* one: the driver's static when it is of the same kind, the IOAPIC entry  *)
(* when it shares the line.                                                *)
TakesOver(s) ==
  /\ Before(primary.slot, s) /\ config[s].kind \in registered
  /\ config[s].kind = primary.name \/ config[s].line = config[primary.slot].line

(* The interrupts of the PCI card the stack runs on reach its driver, and  *)
(* the handler finds the registers of this card, unless another card of    *)
(* the same kind or on the same line was probed after it.                  *)
HandlerServesPrimary ==
  /\ pc \in Selected /\ primary.name # "netvsc"
  /\ \A s \in Enumerated(config) : ~TakesOver(s)
  => /\ ioapic[config[primary.slot].line] = primary.vector
     /\ idt[primary.vector] = primary.name
     /\ regs[primary.name] = primary.at

(* The address a driver uses leads to its card and to no other: through    *)
(* the mapping to the physical address in the BAR, of 32 or 64 bits, from  *)
(* the first page of its registers to the last; and the card may decode it *)
(* and do DMA.  A BAR that does not start on a page is the exception:      *)
(* map_mmio drops the offset.                                              *)
RegistersReached ==
  \A i \in PciNics :
    LET f == config[nics[i].slot]
        at == nics[i].at
        base == f.bar.page + IF f.bar.type = "mem64" THEN f.bar.upper * PagesIn4G ELSE 0
    IN /\ {"io", "memory", "master"} \subseteq f.command
       /\ IF at.space = "io" THEN at.at = f.bar.page
          ELSE f.bar.offset = 0 => \A k \in 0 .. RegPages(f.kind) - 1 :
                 translate_addr(mem, at.at + k) = {base + k}

Usable == {s \in Enumerated(config) :
             config[s].kind \in registered /\ config[s].line < max_entries}

(* A scan within the budget overlooks no card on bus 0: if a registered     *)
(* driver has a card with a usable line, boot does not panic, and the card  *)
(* chosen is at least as good as that one.                                  *)
BestCardChosen ==
  pc \in Selected \cup {"panic"} /\ Cardinality(Usable) <= PROBE_BUDGET =>
    \A s \in Usable :
      pc # "panic" /\ priority(primary.name) <= priority(config[s].kind)

(* A NetVSC that VMBus offers is probed, whatever PCI cards there are, as  *)
(* long as those leave one place of the budget.                            *)
NetvscProbed ==
  /\ pc \in Selected /\ vmbus = "some" /\ offers > 0 /\ "netvsc" \in registered
  /\ Cardinality(Usable) < PROBE_BUDGET
  => next > 1

(* Mappings never overlap, and behind each one there is an unmapped page.  *)
MappingsApart ==
  \A a, b \in mem.maps : a # b =>
    a.virt + a.pages < b.virt \/ b.virt + b.pages < a.virt

(* A probe that fails and a card that is not chosen give back every page   *)
(* of DMA memory: what is in use is the page tables, what VMBus and NetVSC *)
(* keep, and the cards that are held.                                      *)
HeapAccounted ==
  pc # "oom" => mem.heap = TableFrames(mem.tables) + kept + DmaTotal(nics)

(* Probing does not exhaust the heap (registry.rs, PROBE_BUDGET), however  *)
(* many PCI cards there are and fail; but a NetVSC probe that fails keeps  *)
(* its ring and does not count, so that eight offers are too many.         *)
HeapSuffices == offers <= 7 => pc # "oom"

(* The tables the probes write: no vector is taken twice and no handler    *)
(* replaced, after every driver and in every order of cards.               *)
VectorsInv == ProbeTypeOK /\ VectorsExclusive

(* The card the stack runs on is connected both ways: its interrupts reach *)
(* the driver and the driver's accesses reach its registers.               *)
PrimaryConnected == HandlerServesPrimary /\ RegistersReached

(* Heap and address space through all probes, their failures and drops.    *)
MemoryInv == MappingsApart /\ HeapAccounted /\ HeapSuffices
=============================================================================
