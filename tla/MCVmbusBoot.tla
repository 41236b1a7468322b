---------------------------- MODULE MCVmbusBoot ----------------------------
(* NICs behind another device: a NIC is probed after the one before it    *)
(* failed or succeeded.                                                   *)
EXTENDS VmbusBoot

Nics == <<[relid |-> 1, type |-> "other"], [relid |-> 2, type |-> "netvsc"],
          [relid |-> 3, type |-> "netvsc"], [relid |-> 4, type |-> "netvsc"]>>
=============================================================================
