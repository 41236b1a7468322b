---------------------------- MODULE CommandLine ----------------------------
(***************************************************************************)
(* The kernel's command line (embclox-hal-x86/src/cmdline.rs): what the    *)
(* whitespace-separated key=value tokens select.                           *)
(*                                                                         *)
(* A token is a pair of its key and what its value means to the parser:    *)
(* a driver's name ("" when empty), "on", "dhcp", a number, an address, or *)
(* Malformed.  The parsers of an address and of a number are what decides  *)
(* between those; case is folded for on and dhcp only.                     *)
(***************************************************************************)
EXTENDS Naturals, Sequences, SequencesExt

CONSTANT Malformed

(* The values of the tokens with a key, in order *)
Values(cmdline, key) ==
  LET toks == SelectSeq(cmdline, LAMBDA t : t.key = key)
  IN [i \in DOMAIN toks |-> toks[i].val]

LastOf(s, default) == IF s = <<>> THEN default ELSE Last(s)

(* parse_ipv4, parse_ipv4_cidr: four octets, and a prefix of at most 32 bits *)
ParsedOr(v, default) == IF v = Malformed THEN default ELSE v

(* The first nic= counts; "" is None *)
parse_nic_filter(cmdline) ==
  LET names == Values(cmdline, "nic") IN IF names = <<>> THEN "" ELSE Head(names)

(* smp=on anywhere, and the last cpus= that is a positive number *)
parse_smp(cmdline) ==
  LET cpus == SelectSeq(Values(cmdline, "cpus"), LAMBDA n : n \notin {0, Malformed})
  IN [enabled |-> "on" \in ToSet(Values(cmdline, "smp")),
      limited |-> cpus # <<>>,
      max_aps |-> IF cpus = <<>> THEN 0 ELSE Last(cpus) - 1]

(* The last net=, ip= and gw= count, and a malformed one means the default, *)
(* whatever an earlier one said.                                            *)
parse_net_mode(cmdline, defaults) ==
  IF LastOf(Values(cmdline, "net"), "static") = "dhcp"
    THEN [mode |-> "dhcp"]
    ELSE [mode |-> "static",
          ip |-> ParsedOr(LastOf(Values(cmdline, "ip"), Malformed), defaults.ip),
          gw |-> ParsedOr(LastOf(Values(cmdline, "gw"), Malformed), defaults.gw)]
=============================================================================
