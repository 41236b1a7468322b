# TLA+ models of embclox

embclox is a set of `no_std` Rust crates for bare-metal x86_64 kernels: a
hardware layer, a driver model, drivers for three network cards (Hyper-V
NetVSC, e1000, DEC 21140 "tulip"), and a kernel that runs an embassy executor
per CPU. This directory models the parts of it that run concurrently with
something (a hypervisor, a card, an interrupt, another CPU) and the kernel's
boot, a long sequence in which later steps can undo earlier ones.

- [Inventory](#inventory) — the system's parts and what is hard about them
- [Modules](#modules) — what models what
- [Runs](#runs) — what TLC checks, with which bounds and fairness
- [Proofs](#proofs) — what TLAPS proves, from what
- [Exceptions](#exceptions) — where the code and its own text differ
- [What is not modelled](#what-is-not-modelled)
- [Plan](#plan)

To check a run: `tlc -config SintWake.cfg MCSintExecutor`. To check a proof:
`tlapm VmbusRing_proof.tla`. `PROJECT.json` maps every definition to the lines
it models and lists runs, mutants, findings, hazards and theorems.

## Inventory

| Part | State | Operations | What it meets | What is hard |
|---|---|---|---|---|
| VMBus ring (`ring.rs`) | two wrapping indices, data words | `send_packet`, `send_comp`, `send_packet_with_page_buffer`, `recv_packet`, `recv_packet_raw` | the host's side | indices read once and used later; wrap; never quite full |
| SynIC slot (`synic.rs`) | one message slot, MessagePending | `poll_message`, `ack_message`, `WaitForMatch::poll` | the hypervisor's queue | flags read before the slot is released |
| VMBus connection (`vmbus.rs`, `channel.rs`, `hypercall.rs`) | version, offers, GPADLs, open channels | `connect`, `request_offers`, `create_gpadl`, `open_channel`, `post_message` | the host, deadlines | late answers, failed hypercalls, chunked page lists |
| SINT2 handler (`isr.rs`) | event-flag words, 64 wakers | `vmbus_isr`, `channel_waker` | host, executor, tasks | read-then-clear, shared slots, waking before registration |
| Executor loop, time (`runtime.rs`, `time.rs`) | run queue, table of alarms | `run_executor`, `schedule_wake`, `on_timer_tick` | interrupts | interrupt before `hlt`; a full table; dropped Timers; Timers of one task that share an alarm |
| NetVSC initialisation (`netvsc.rs`) | version, send section, control-response slot | `init` and its requests | the host | answers, completions and unsolicited packets interleave |
| NetVSC data path (`netvsc.rs`) | `pending_rx`, `send_section_free` | `pump_channel`, `recv_with`, `transmit_with`, keepalive | the host, the network stack | one slot and one section, shared by frames and keepalives |
| RNDIS data messages (`nvsp_msg.rs`, `netvsc.rs`) | offsets and lengths | `extract_eth_frame`, the copy into `PendingRx` | the host | offsets counted from behind the header, a copy that may be cut off |
| Synthetic video (`synthvid.rs`) | VRAM, version, what the host was told | `init_display`, `put_pixel`, `dirty_rect` | the host | the next packet is taken for the answer |
| e1000 rings (`embclox-e1000`) | RDT/TDT, DD bits | `has_rx_packet`, `recv_with`, `has_tx_space`, `transmit_with`, `drop` | the card | no index of its own; TDT = TDH means empty |
| tulip rings (`embclox-tulip`) | OWN bits, `rx_next`, `tx_next` | the same, and the setup frame | the card | two walkers in step; setup frame that times out |
| Card interrupts (`drivers/*.rs`, `ioapic.rs`) | cause, mask, pin, latch | `probe`, the two handlers | the card, the IOAPIC | edge-triggered pin: a line that stays high is deaf |
| Probing (`registry.rs`, `driver.rs`, `main.rs`) | IDT, IOAPIC, vectors, static registers, cards | `probe_all`, `install_pci_isr`, choice of the primary | earlier and later probes | one probe overwrites what another set up |
| PCI configuration space (`pci.rs`, `bus.rs`) | BARs, command register, interrupt lines | `enumerate`, `read_bar`, `enable_bus_mastering` | probing | multi-function devices, BARs of 64 bits |
| Memory (`memory.rs`, `heap.rs`, `dma_alloc.rs`) | heap, page tables, mappings | `map_mmio`, `translate_addr`, `alloc_coherent`, `free_coherent` | every probe | what failed probes keep; rounding to pages |
| Command line (`cmdline.rs`) | tokens | `nic=`, `smp=`, `cpus=`, `net=`, `ip=`, `gw=` | `kmain` | repeated and malformed tokens |
| Kernel entry (`main.rs`) | all of the above | `kmain` | the APs, once they are released | the order of the steps |
| SMP (`smp.rs`, `cpu_local.rs`, `app.rs`) | slots, GS_BASE, executors, alarm tables | `bring_up_aps`, `ap_entry`, `ap_setup`, `init_ap` | all CPUs | identities handed out while earlier APs run |

The properties that make the system correct follow from the last column: rings
and slots are FIFOs that neither lose nor duplicate; a buffer is in one hand
at a time; an answer belongs to its request; a wake-up is not lost; a vector,
a slot and a table have one owner; nothing waits for ever. `hazards` in
`PROJECT.json` lists the places, line by line.

## Modules

A module keeps the control of the code, one action per operation or per step
between which something else can run, and reduces data to what a property
tells apart: a packet, message or frame is its number, a descriptor its
ownership and content, a length a number of 8-byte words. Names of actions are
the names of the functions; definitions called `Mutant_...` are faulty
variants of the definition that follows, used to show that a property can
fail.

| Module | Models | State and steps |
|---|---|---|
| `PacketQueue` | abstract FIFO | `Put`, `Take`; the specification of `VmbusRing` |
| `VmbusRing` | `ring.rs` | Sender: check room (`SendStart`), copy a word (`copy_to`), publish the index (`SendPublish`). Receiver: check and take the fill level (`RecvStart`), copy, check the descriptor, advance. `written`, `consumed`, `sent`, `received` are history. |
| `SynicMessage` | `synic.rs`, `block_on_hlt` | The guest's poll in five steps (`ack_message` is three: read flags, clear, EOM); the hypervisor delivers between any two. |
| `VmbusBoot` | `vmbus.rs`, `channel.rs`, `hypercall.rs`, probing of NetVSC offers | A program counter through connect, offers, three GPADLs and OPENCHANNEL per device; the host answers in order, at its own pace. Deadlines are a nondeterministic `TimesOut`. |
| `NetvscInit` | `NetvscDevice::init` after the channel is open | Each request is a send and a wait; the host's answers, completions and unsolicited packets arrive through one FIFO. |
| `RndisMessage` | RNDIS data messages | No state: what the copy of a message holds, and which piece of it `extract_eth_frame` takes for the frame. Used by the two modules around it. |
| `NetvscDataPath` | the data path of `netvsc.rs` through `DynNic` | `pump_channel` packet by packet, each of one or more ranges, of which the first is read if all of them fit into its buffer; the stack's tokens; host: sends into receive slots, takes them back, transmits from the section. |
| `Synthvid` | `synthvid.rs` after the channel is open | Each stage of `init_display` is a send, a wait and a drain; the program draws and reports; the host answers, sends messages of its own and reads the VRAM. What it displays is not part of the model. The kernel does not call `init_display`; it is the crate's interface. |
| `SintExecutor` | `isr.rs`, `run_executor`, `DynNic` over `NetvscDevice` | Handler: read a word, clear it, wake. CPU: poll, run a task (`rx_ready`, `tx_ready`, tokens, then register; `transmit`), disable, halt. `pump_channel` is one step, with frames and completions for packets. Handler steps run between any CPU steps with interrupts on. |
| `TimeDriver` | `time.rs` | Alarm table, `schedule_wake` in its critical section, `on_timer_tick`; tasks that await several futures and create, drop and replace their Timers. |
| `CommandLine` | `cmdline.rs` | No state: which token counts, and what its value selects. |
| `PciBus` | `pci.rs` | No state of its own: which functions are enumerated, in which order, and what a BAR says. |
| `BootMemory` | `memory.rs`, `heap.rs`, `dma_alloc.rs` | No state of its own: what an allocation or a mapping makes of a memory, in pages. |
| `DeviceProbe` | `registry.rs`, `driver.rs`, `vector_alloc.rs`, `drivers/*.rs`, `main.rs` | Sequential: `try_init`, reservations, PCI scan, VMBus scan, primary, the drop of the others. Uses `PciBus` and `BootMemory`. |
| `PciInterrupt` | what the PCI cards' interrupts share: `IoApic::enable_irq`, `DynNic::receive`, the waker | Line, mask, pin, latch, and the network task from queued to asleep. `E1000Ring` and `TulipRing` extend it. |
| `E1000Ring`, `TulipRing` | the cards' `device.rs` and `drivers/*.rs` | Probe's steps, the handler (the tulip's in its four register accesses), the task and the card. Driver and card share both rings; each descriptor access that the other side can see is a step. |
| `SmpBoot` | `smp.rs`, `cpu_local.rs`, `app.rs` | BSP and every AP as a process. |
| `KernelBoot` | `kmain` of `main.rs` | The composition of `CommandLine`, `DeviceProbe` and `SmpBoot`: the BSP goes from the first mapping to `run_executor`, the released APs run beside it. |
| `MC...` | | Constants of the runs. |
| `VmbusRing_proof`, `SynicMessage_proof`, `SintExecutor_proof`, `TimeDriver_proof`, `NetvscDataPath_proof`, `E1000Ring_proof`, `TulipRing_proof` | | The theorems about the module in the name, with the inductive invariants they need. |

How they fit together: `VmbusRing` and `SynicMessage` are proved to be FIFOs
(the latter up to messages that wait for ever). `NetvscDataPath`,
`NetvscInit` and `VmbusBoot` use FIFOs in their place. `SintExecutor` shows that
the network task is polled when there is something in a VMBus ring, and when it
is not polled again although it left something there; `NetvscDataPath` has what
a poll does, step by step; `E1000Ring` and `TulipRing` do both, on
top of `PciInterrupt`, from the frame on the wire to the frame in the stack.
`KernelBoot` puts the boot together: which driver may probe which card, what
each probe leaves in the tables, the heap and the address space, and which CPUs
start on that.

Where the code can lose something, the model has the loss, and the property
says exactly when: a history variable (`lost`, `unread`, `stuck`, `overlap`,
`forgotten`, `missed`, `gave_up`) or a state (`Deaf`, `Overfilled`, `Stalled`) names the exception, and
the property holds of everything else. [Exceptions](#exceptions) collects them.

The host, the hypervisor, the cards, Limine and embassy are not in the
repository. They are modelled from how the code uses them, in actions that the
map marks external.

## Runs

All bounds are CONSTANTs; the distinct states are those TLC finds.

| Run | Checks | Bounds, and why they are enough |
|---|---|---|
| VmbusRing | fill level, no overwrite, no `Corrupt`, panic on long headers only, refinement of `PacketQueue`, delivery | 13 words, packets of 3 to 12 words: every wrap position, packets that leave one word or none, and transfer-page packets of 7 and 8 ranges, on both sides of what the 64 bytes of `recv_packet` hold. 199,740 states. The safety part is proved for all sizes. |
| SynicSlot | order and integrity; delivery stops only in `Stalled`; draining | 8 messages, window 3: a message in the slot, one pending and one more. 651 states. |
| Boot | what the guest concludes is true of the host; answers in step; boot ends | Another device and three NICs, so that a late answer can meet two later requests; rings of 64 pages as in the code (header and bodies); the buffers' 512 and 256 pages shortened to 27, one more than a GPADL header holds. Each behaviour has a prompt or a slow host. 232,829 states. |
| NetvscInit | answers in step, version, slots returned, one control message in flight, full frames fit, section comes back, init ends | Hosts that accept no version, NVSP 4 or NVSP 6; MTUs that fit, that the assertion lets pass and that it refuses; one unsolicited packet at any point, which is enough for every exception. 456,335 states. |
| NetvscFrames | order and integrity, receive-slot and section ownership, panic on a full ring only, section freed, keepalives answered | 3 receive slots, packets of 1, 2 or 3 ranges of which `pump_channel` holds 2 (63 in the code), a first range outside the buffer, rings of 3 packets, 3 ranges of the host and 2 frames of the stack: more traffic than the rings hold, so they fill up, and slots are reused. A data message that just fits into a `PendingRx` and one that is a byte too long. 1,067,451 states. |
| NetvscFrameLost | the one violation: `NoFrameLost` | 2 frames. |
| SintWake | no lost wake-up, every flag noticed, every packet received | 3 channels in 2 words of flags, two of them on one waker slot; 2 bursts of 1 or 3 frames each, enough for a task that looks to leave one behind, and a sent frame with its completion on one channel. 807,819 states. Safety proved for any number. |
| Timers | no task forgotten, no overdue Timer left behind, one alarm per task, every Timer expires | 3 tasks for 2 alarms, so the table is full, one of them with two futures; clock up to 2. 264,597 states. |
| KernelBoot | vectors apart; the primary's registers and interrupts reach each other; best card chosen, NetVSC probed, command line obeyed; mappings apart, heap accounted for and sufficient; own identity, slot, executor and alarms for each CPU; all CPUs alive | 309 boots. Cards: unusable and shared lines, both orders, two of a kind, one fewer than the budget, as many and one more, eight that fail, functions that are not enumerated, BARs of 64 bits and inside a page. Hosts with 0 to 8 NetVSC offers. Command lines with missing, repeated, empty and malformed tokens. 4 CPUs in 3 orders, 3 slots, `cpus=` below, at and above. 26,289 states. |
| Synthvid | no leftover taken for an answer, failure only for a reason, host prepared, picture true and found by the host | 2 by 2 pixels (a wrong pitch shows), hosts that accept no version, 3.2 or 3.5, 2 messages of the host's own (one taken, one left over), a send ring of 3 messages, which a program that reports faster than the host reads fills up. 22,909 states. |
| E1000Rings | FIFO both ways, ownership, what panics, what is sent and delivered, line | A receive ring of 3 descriptors and a transmit ring of 2, 4 frames in, 3 out: both wrap and fill up. 240,605 states. |
| TulipRings | FIFO both ways, rings in step, no panic, line never deaf, frames noticed, sent and delivered | Rings of 3 descriptors, 5 frames each way: both wrap and fill up. 92,813 states. |

Several runs check named invariants together, under one name per idea; the
type invariant of a module is part of the first:

| Checked as | Is the conjunction of |
|---|---|
| `VmbusRing!RingInv` | `TypeOK`, `CountsInv`, `LayoutInv`, `UnreadIntact`, `SendInv`, `RecvInv`, `NoCorrupt`; `IndicesTellFill` follows |
| `SynicMessage!SlotInv` | `TypeOK`, who has the slot, `ExactlyOnce` |
| `VmbusBoot!BootInv` | `GuestKnows` (`TypeOK`, `VersionAgreed`, `OffersFaithful`, `GpadlComplete`), `InStep` (`AnswersInStep`, `OpenMeansOpened`) |
| `NetvscInit!HandshakeInv` | `TypeOK`, `VersionAgreed`, `FullFramesFit`, `AnswersInStep`, `OneControlInFlight`, `SlotsReturned` |
| `NetvscDataPath!ReceiveInv` | `TypeOK`, `CopiedBeforeReturned`, `SlotAccounted` |
| `NetvscDataPath!FramesKept` | `DeliveredInOrder`, `LostOnlyWhenFull` |
| `NetvscDataPath!SectionKept` | `TransmitsWhatWasPosted`, `FreeMeansIdle`, `OverlapNeedsReply` |
| `NetvscDataPath!SendsSettle` | `SectionFreedAgain`, `KeepaliveAnswered`, both while the stack goes on calling `DynNic` |
| `Synthvid!DisplayInv` | `TypeOK`, `NothingLeftOver`, `FailsForAReason`, `HostPrepared`, `PictureIsTrue` |
| `TimeDriver!AlarmsInv` | `TypeOK`, `OneAlarmPerTask`, `WaitersCovered`, `OverdueQueued` |
| `DeviceProbe!VectorsInv`, `PrimaryConnected` | `ProbeTypeOK`, `VectorsExclusive`; `HandlerServesPrimary`, `RegistersReached` |
| `DeviceProbe!MemoryInv` | `MappingsApart`, `HeapAccounted`, `HeapSuffices` |
| `KernelBoot!CardsFound` | `BestCardChosen`, `NetvscProbed`, `CommandLineObeyed` |
| `SmpBoot!CpusApart` | `SmpTypeOK`, `OwnSlot`, `TablesPrivate`, `NoApPanics` |
| `E1000Ring!DescriptorsInv` | `TypeOK`, `RxOwnership`, `FreedMeansQuiet` |
| `TulipRing!DescriptorsInv`, `AlertInv` | `TypeOK`, `RingsInStep`, `NoPanic`; `NeverDeaf`, `FrameNoticed` |
| `RingsAreQueues`, `FramesGetThrough` of both cards | `RxIsQueue`, `TxIsQueue`; `EveryFrameSent`, `EveryFrameDelivered` |

`SintExecutor!TypeOK` is part of the invariant that `SintExecutor_proof` proves.

Liveness assumes weak fairness of the guest's own loop (the executor polls
again after every interrupt, and the periodic APIC timer guarantees one), and
of cards and hosts that go on working. Two strong ones: an interrupt that is
pending again and again while interrupts are enabled again and again is taken
(`SintExecutor`: `Interrupt`), and the run queue polls a queued task although
others are queued too (`TimeDriver`: `executor_poll`). No fairness is assumed of
what need not happen: new frames, new Timers, unsolicited messages, and, in
`NetvscDataPath`, another call of `DynNic`. A call that has begun runs to its
end, but the network task may sleep: `SendsSettle` therefore has endless polling
as its hypothesis (`[]<>(pc # "idle")`), and `SintExecutor` tells when polls
stop. In `VmbusBoot`, `NetvscInit` and `Synthvid` the host may be late for every
deadline, and boot ends because the deadline comes.

Deadlock is checked in every run. Where a system may stop (all frames sent,
boot finished) the module has an explicit final step.

## Proofs

The theorems hold for every value of the constants that the named assumptions
allow, while the runs take one value each.

| Theorem | Statement |
|---|---|
| `VmbusRing_proof!RingInvariant` | `Spec => []RingInv` |
| `FillLevelIsExact`, `NoOverwrite`, `NeverCorrupt` | consequences: `IndicesTellFill`, `UnreadIntact`, `NoCorrupt` |
| `RingImplementsQueue` | `Spec => ImplementsQueue`: the ring refines `PacketQueue` |
| `PanicsAreLongHeaders` | `Spec => []PanicsOnLongHeader` |
| `SynicMessage_proof!SlotInvariant` | `Spec => []SlotInv` |
| `SlotImplementsQueue` | `Spec => ImplementsQueue`: the slot refines `PacketQueue` |
| `StallsOnlyOnLateFlag` | `Spec => StallsOnLateFlag`, an action property |
| `SintExecutor_proof!WakesAreNotLost`, `FlagsAreNoticed` | `Spec => []NoLostWake`, `Spec => []FlagNoticed` |
| `TimeDriver_proof!AlarmsInvariant` | `Spec => []AlarmsInv` |
| `NetvscDataPath_proof!SlotsComeBackOnce`, `FramesAreKept`, `SectionIsKept` | `Spec => []ReceiveInv`, `[]FramesKept`, `[]SectionKept` |
| `TokensAreGood` | `Spec => PanicsOnFullRingOnly`, an action property |
| `E1000Ring_proof!DescriptorsAreOwned` | `Spec => []DescriptorsInv` |
| `PanicsAreBadFrames`, `CardStaysHeard` | `Spec => PanicsOnBadFrameOnly`, `Spec => StaysAlert`, action properties |
| `RingsImplementQueues` | `Spec => RingsAreQueues`: both rings refine `PacketQueue` |
| `TulipRing_proof!TulipStaysAlert` | `Spec => []AlertInv` |
| `NeverLeftDeaf`, `FramesAreNoticed` | its two parts: `Spec => []NeverDeaf`, `Spec => []FrameNoticed` |
| `DescriptorsInStep`, `RingsImplementQueues` | `Spec => []DescriptorsInv`, `Spec => RingsAreQueues` |

*The ring.* Assumptions: the ring has at least one word, lengths are naturals.
The wrapped indices alone do not tell how many words are unread, so `RingInv`
relates them to history: `CountsInv` says that an index is the count of words
modulo the size and that fewer words than the size are unread; `LayoutInv`
that packets lie one after another; `UnreadIntact` that unread packets are in
memory unchanged; `SendInv` and `RecvInv` what the half-done operation of each
side may rely on: room granted on a stale index is still there, since the
other side only makes more; a fill level read earlier still covers the oldest
packet. Non-linear facts about `%` and `\div` are lemmas of their own. The
refinement maps the queue to `sent` after the first `Len(received)` packets. For
the panic of `recv_packet`, `HeadersInv` adds that only a transfer-page packet
has a header longer than that of a page-buffer packet, which the 64 bytes hold;
what they hold is exactly 7 ranges (`ScratchIsSevenRanges`). The number of
ranges is not bounded.

*The message slot.* Assumptions: the number of messages is a natural, the
window of the hypervisor's queue at least 1. `SlotInv` is inductive. Every step
posts a message, matches one, or leaves alone both what the matcher saw and
what it has still to see, wherever in slot and queue that is (`PostEffect`,
`MatchEffect`, `OtherEffect`); invariant and refinement follow from that.
For `StallsOnlyOnLateFlag` a second invariant is needed, `WaitingIsFlagged`:
a message that waits behind an occupied slot has MessagePending set.

*Wake-ups.* Assumptions: channels have a bit in the flag words, sizes are
positive, bounds are naturals. `WakeInv` strengthens `NoLostWake` by what the
handler holds in its local word and by the executor finishing a batch before it
takes the next. A channel with packets leaves it by entering `missed`, in one of
two ways, and comes back when its task looks again; or it has its `pending_rx`
occupied: `pump_channel` empties the ring unless it stops behind a frame, so a
task that has looked leaves packets in no other case. Nothing weaker is true:
`tx_ready` can be false while the completion that would make it true lies behind
the frame at which `pump_channel` returned, its signal already spent.

*Alarms.* Assumptions: at least one alarm, a bound on the clock; the tasks
and their futures are any sets. `AlarmsInv` speaks of tasks that wait. The
strengthening, `Covered`, speaks of the futures that the current poll has
already passed, so that it holds in the middle of a poll too, with ticks
between any two steps.

*The NetVSC data path.* Assumptions: slots and bounds are naturals, at least
one range, messages of kinds that the module knows. The invariant has six parts,
each kept given the others. `TypeOK`; `Control`: the task is in a readiness
predicate while `pump_channel` runs, and holds a token only with a frame and a
free section behind it. `Slotted`: each slot is with the host, in the ring, in
the packet being pumped, on its way back or recorded as lost, and a packet in
the ring announces what its first slot holds. `Ordered`: message numbers ascend
along the whole path, ring to stack. `Sectioned`: without an overlap at most one
message is in flight, and it is what section 0 holds. `KeptOnTheWay`: what has
arrived, fits and is not recorded as lost or unread is somewhere on the path.

*The rings of the PCI cards.* Assumptions: the e1000's rings have at least two
descriptors, the tulip's at least one; numbers of frames are naturals. Head,
tail, `rx_next` and `tx_next` count modulo the ring size, and full and empty look
alike, so the invariants (`Inv` of `E1000Ring_proof`, `RingInv` of
`TulipRing_proof`) count without wrapping. Frame n lies in descriptor n - 1 (on
the tulip's transmit ring n, behind the setup frame) modulo the ring size; each
index is such a count of frames returned, arrived, posted, kicked or sent; the
counts are at most one ring apart, which makes the descriptors between them
different ones (`Apart`); the DD or OWN bits are set exactly between two of the
counts; a frame between two counts is in its buffer. Counts move in the middle
of an operation (between clearing a descriptor and returning it, between
filling one and handing it over), which is where the invariant depends on `pc`.
The refinements map a queue to the frames between two counts.

*The edge-triggered line of the tulip.* No assumption. The invariant adds what
`probe` has switched on at each of its steps (interrupts only after the pin is
routed) and that the card is masked while its handler reads and clears. The
theorems hold for any ring sizes and any number of frames. The e1000's
`StaysAlert` needs no strengthening beyond types.

Only model-checked:

- all liveness (`AllDelivered`, `Drained`, `SendsSettle`, `FramesGetThrough`,
  `PacketsReceived`, `TimersExpire`, `BootFinishes`, `InitFinishes`,
  `PictureReported`, `AllAlive`, `SectionComesBack`): TLAPS does not reason about
  fairness and ENABLED;
- the invariants of `KernelBoot` and the modules it is made of;
- the handshakes `VmbusBoot!BootInv`, `NetvscInit!HandshakeInv` and
  `Synthvid!DisplayInv`: their program counters walk through fixed sequences of
  requests, so the runs, which go through all of them against hosts of every
  kind, leave less open than elsewhere.

## Exceptions

Where the code falls short of what its comments and documents say. The first
has a run of its own, in which TLC violates the comment's statement
(`findings` in `PROJECT.json` quotes it); the others are exceptions that the
properties name, so that the passing runs show there are no further ones.

| Where | What happens | Stated in |
|---|---|---|
| `netvsc.rs:945` | a packet taken off the ring while `pending_rx` is occupied is lost, with its receive slot | `NoFrameLost` (violated), `LostOnlyWhenFull`, `SlotAccounted` |
| `ring.rs:361` | a transfer-page packet of more than 7 ranges makes `recv_packet` panic: the slice of its 64-byte buffer is not checked (`docs/design/vmbus.md:122`: "Bounds-check all host-sourced values before use") | `PanicsOnLongHeader`, `AllDelivered` |
| `netvsc.rs:979`, `:925` | with a full send ring a receive slot is lost, or the kernel panics | `SlotAccounted`, `PanicsOnFullRingOnly` |
| `netvsc.rs:1015` | a keepalive reply's completion frees the section of a frame in flight, which a later message then overwrites | `FreeMeansIdle`, `TransmitsWhatWasPosted`, `OverlapNeedsReply` |
| `netvsc.rs:996` | a keepalive during a transmission, or one whose packet finds `pending_rx` occupied, is never answered ("try again later", `:1035`) | `KeepaliveAnswered` (`forgotten`, `lost`) |
| `netvsc.rs:615` | only the first range of a transfer-page packet is read; one completion returns all of them | `LostOnlyWhenFull` (`unread`), `SlotAccounted` |
| `netvsc.rs:609`, `:944` | of a packet with more than 63 ranges, which the 512 bytes of `raw` do not hold, not even the first is read | `LostOnlyWhenFull`, `KeepaliveAnswered` (`unread`) |
| `netvsc.rs:787` | the wait for SubChannelComplete takes any packet: a frame, whose slot is lost, or the completion that frees the section | `SlotsReturned`, `SectionComesBack` |
| `netvsc.rs:514` | a keepalive's reply during init is overwritten by the next request, or the other way round | `OneControlInFlight`, `AnswersInStep` |
| `netvsc.rs:287` | the MTU assertion forgets the 44 bytes of RNDIS header: MTUs of 1543 to 1586 pass and their full frames are cut off and dropped ("refuse to boot rather than silently drop every RX packet", `:284`) | `FullFramesFit` |
| `synic.rs:114` | a message queued between `ack_message`'s read of the flags and its store waits for ever | `StallsOnLateFlag`, `Drained` |
| `channel.rs:375` | an answer that comes after its deadline is taken for a later request's | `OpenMeansOpened`, `AnswersInStep` (`gave_up`) |
| `isr.rs:148`, `isr.rs:76` | a flag set between the handler's read and store is cleared unseen; two relids on one waker slot, or a slot in which nobody has registered yet | `NoLostWake`, `PacketsReceived` (`missed`) |
| `nic.rs:64`, `netvsc.rs:959` | a NetVSC task that has a frame in `pending_rx` and no free section sleeps, and the packets behind that frame stay in the ring, the completion that would free the section among them, until the host signals again or a Timer of the stack, which is not modelled, wakes the task | `NoLostWake` (`pending_rx`), `PacketsReceived` (`Stalled`) |
| `runtime.rs:141` | an interrupt between `poll()` and `disable()` halts the CPU with work, until the next tick | `PacketsReceived` holds because the tick comes |
| `time.rs:79` | of two Timers of one task the one polled last has the alarm, although the other may be due earlier | `OverdueQueued`, `WaitersCovered` |
| `main.rs:118` | vector 34 is not reserved after a failed VMBus init ("even if VMBus init failed", `:115`) | `VectorsExclusive` (`vmbus = "some"`) |
| `memory.rs:100` | a BAR that does not start on a page loses its offset | `RegistersReached` (`offset = 0`) |
| `registry.rs:118`, `drivers/netvsc.rs:35` | a NetVSC probe that fails keeps its memory and does not count for the budget: eight offers exhaust the heap, which the budget is there to prevent (`registry.rs:12`) | `HeapSuffices` (`offers <= 7`) |
| `registry.rs:97`, `ioapic.rs:48` | a second e1000 is probed and takes over the static registers; a card on the same line takes over its entry | `HandlerServesPrimary` (`TakesOver`) |
| `registry.rs:118` | four PCI cards use up the budget before VMBus is scanned | `NetvscProbed`, `BestCardChosen` |
| `embclox-e1000/device.rs:326` | with every descriptor handed out TDT = TDH, which the card reads as an empty ring | `EveryFrameSent`, `TxIsQueue` (`Overfilled`) |
| `embclox-e1000/device.rs:295` | a descriptor with an error or without EOP makes `rx_ready` true and `recv_with` panic | `PanicsOnBadFrameOnly` |
| `embclox-e1000/device.rs:258` | Drop frees the rings although the reset has not ended | `FreedMeansQuiet` (`gave_up`) |
| `embclox-e1000/device.rs:164` | a frame between IMS and the routing of the pin makes the card deaf | `StaysAlert`, `EveryFrameDelivered` (`Deaf`) |
| `nic.rs:63` | a task that sleeps because the transmit ring is full leaves received frames until something else wakes it: neither card interrupts on a transmitted frame | `FrameNoticed`, `EveryFrameDelivered` (`missed`) |
| `synthvid.rs` | the protocol completes and the host can find the picture, yet "the display remains black" (`docs/design/vmbus.md:9`, `:147`): what the host shows is not a consequence of what is modelled | `PictureReported` ends at the VRAM |
| `dma_alloc.rs:37` | DMA memory of dropped cards is freed; `docs/design/driver-model.md:711` ("bump-style with no path to free") is out of date | `HeapAccounted` |
| `smp.rs:132` | an AP is released before its slot of `CPU_LOCALS` is populated; it does that itself, later | `OwnSlot` (from `"timer"` on) |

## What is not modelled

- Serial port, PIC, PIT and APIC programming: registers without later state.
- EEPROM and CSR access of the tulip: reads of one register each.
- Limine's requests, generated bindings, constants, CPUID and MSR wrappers.
- The NVSP and RNDIS builders: fixed fields in fixed places. What is modelled
  of the messages is what the other side does with them.
- The SIMP half of `vmbus_isr`: its waker has no effect under `block_on_hlt`.
- `unmap_mmio` and `find_device`: no caller outside tests.
- `TulipDevice::drop` as a sequence of steps; the memory it frees is modelled.
- Frame lengths in the rings of the PCI cards.
- What the host does with the VRAM of the synthetic video device once it has read it.
- The Timers with which the network stack wakes its own task.
- Tests, test macros, and the tasks of the example kernel above the network stack.

Simplifications of what is modelled: the heap is counted in pages, without
allocations of less than a page and without fragmentation, so `HeapSuffices`
is about what probing takes, not about how the allocator splits it. The host
opens a channel once, as Hyper-V does. `width * height * 4` of the display is
taken to fit into 32 bits. Addresses and text on the command line are what
their parsers make of them.

## Plan

The order was: the ring, since everything on VMBus rests on it, with its
abstract specification and its proof; the data path; the message slot and
boot; wake-ups, with their proof; then the PCI cards, time, NetVSC
initialisation, and the composition of the kernel's boot from command line,
PCI bus, memory, probing and SMP; synthetic video. Still to do:

1. Extend the model
   - `NetvscDataPath`: the ring's room in words.
   - `SynicMessage` with the handler's SIMP half, and the pages published late.
   - Composition of `SintExecutor` with `NetvscDataPath`: keepalives and
     packets of several ranges in the rings of the former.
   - Composition of `SmpBoot` and `TimeDriver`: wakers across CPUs, and
     critical sections that exclude only the own CPU.
2. Prove more
   - `SmpBoot`: `OwnSlot` and `TablesPrivate` for any number of CPUs.
   - `DeviceProbe`: `VectorsExclusive` and `MappingsApart` for any machine.
   - `NetvscInit`: `AnswersInStep` and `OneControlInFlight`.
   - `VmbusBoot`: `GuestKnows`.
