---------------------------- MODULE MCKernelBoot ----------------------------
(* Machines, hosts and command lines that KernelBoot boots with *)
EXTENDS KernelBoot, TLC

Function(kind, line, bar, multi) ==
  [kind |-> kind, line |-> line, bar |-> bar, multi |-> multi,
   command |-> {"io", "memory"}]

Mem32(page) == [type |-> "mem32", page |-> page, offset |-> 0, upper |-> 0]
Mem64(page, upper) == [type |-> "mem64", page |-> page, offset |-> 0, upper |-> upper]
Port(p) == [type |-> "io", page |-> p, offset |-> 0, upper |-> 0]

E1000(l) == Function("e1000", l, Mem32(1040384 + 32 * l), FALSE)
Tulip(l) == Function("tulip", l, Port(49152 + 256 * l), FALSE)
Other(l) == Function("other", l, Port(0), FALSE)

\* Cards in device numbers 1, 2, ... of bus 0
OnBus0(cards) == [s \in {<<0, i, 0>> : i \in DOMAIN cards} |-> cards[s[2]]]

\* One card of each kind in every order, lines usable, unusable and shared;
\* two cards of a kind; as many cards as the budget, one fewer and one more
Cards ==
  {<<Other(9), Tulip(10), Other(255), E1000(11)>>,
   <<E1000(0), Tulip(23)>>, <<E1000(255), Tulip(10)>>,
   <<Tulip(24), E1000(10)>>, <<Other(10)>>,
   <<E1000(10), Tulip(10)>>, <<Tulip(10), E1000(10)>>, <<E1000(10), E1000(11)>>,
   <<E1000(5), Tulip(6), E1000(7)>>,
   <<E1000(5), E1000(6), E1000(7), Tulip(8)>>,
   <<E1000(5), E1000(6), E1000(7), E1000(8), Tulip(9)>>}

\* BARs of 64 bits that differ in the upper half only, and one inside a page
Bars64 ==
  OnBus0(<<Function("e1000", 5, Mem64(1048320, 1), FALSE),
           Function("tulip", 6, Mem64(1048320, 2), FALSE)>>)
Unaligned ==
  OnBus0(<<Function("tulip", 6, [Mem32(1048320) EXCEPT !.offset = 8], FALSE), E1000(11)>>)

\* Eight functions that fail, then a card; functions and buses not enumerated
Failing ==
  [s \in {<<0, 2, f>> : f \in 0..7} |->
     [E1000(255) EXCEPT !.multi = (s[3] = 0)]] @@ (<<0, 3, 0>> :> E1000(9))
Hidden ==
  (<<0, 2, 0>> :> Other(9)) @@ (<<0, 2, 1>> :> E1000(10)) @@ (<<1, 0, 0>> :> E1000(11))
    @@ (<<0, 4, 0>> :> Tulip(7))

Configs == {OnBus0(c) : c \in Cards} \cup {Bars64, Unaligned, Failing, Hidden}

T(k, v) == [key |-> k, val |-> v]

OneCpu == [cpus |-> <<0>>, bsp |-> 0]

CardBoots ==
  [config : Configs, hyperv : {TRUE}, offers : {0, 1, 3}, machine : {OneCpu}, mp : {FALSE},
   cmdline : {<<>>, <<T("nic", "tulip")>>, <<T("nic", "netvsc"), T("nic", "e1000")>>,
              <<T("nic", ""), T("nic", "tulip")>>, <<T("nic", "rtl8139")>>}]
  \cup
  [config : Configs, hyperv : {FALSE}, offers : {0}, machine : {OneCpu}, mp : {FALSE},
   cmdline : {<<>>, <<T("nic", "e1000"), T("net", "dhcp")>>,
              <<T("ip", "a"), T("gw", Malformed)>>, <<T("ip", "a"), T("ip", Malformed)>>}]

\* More NetVSC offers than the heap has rings for
ManyOffers ==
  [config : {OnBus0(<<E1000(5), E1000(6), E1000(7)>>)}, hyperv : {TRUE}, offers : {7, 8},
   machine : {OneCpu}, mp : {FALSE}, cmdline : {<<>>}]

\* Four CPUs in three orders, with fewer, as many and more slots and allowed
\* CPUs than there are
CpuBoots ==
  [config : {OnBus0(<<E1000(10)>>)}, hyperv : {FALSE}, offers : {0}, mp : {TRUE},
   machine : [cpus : {<<0, 1, 2, 3>>, <<3, 0, 1, 2>>, <<2, 1, 3, 0>>, <<0, 5>>}, bsp : {0}],
   cmdline : {<<T("smp", "on")>>, <<T("smp", "on"), T("cpus", 1)>>,
              <<T("cpus", 2), T("smp", "on"), T("cpus", Malformed)>>,
              <<T("smp", "on"), T("cpus", 5)>>, <<T("smp", "off"), T("cpus", 3)>>}]
  \cup
  [config : {OnBus0(<<Tulip(10)>>)}, hyperv : {TRUE}, offers : {1}, mp : BOOLEAN,
   machine : {[cpus |-> <<0, 4>>, bsp |-> 0]}, cmdline : {<<T("smp", "on")>>}]

MCBoots == CardBoots \cup ManyOffers \cup CpuBoots

MCDefaults == [ip |-> "default", gw |-> "default"]
=============================================================================
