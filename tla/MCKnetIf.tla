------------------------------ MODULE MCKnetIf ------------------------------
(* Filters and packets for TLC: a filter of channel 0 that mirrors, one of *)
(* any channel that takes packets with errors, and a call-back.            *)
EXTENDS KnetIf

MCPackets == {[data |-> "arp", error |-> FALSE], [data |-> "ip", error |-> TRUE]}

MCFilterSpecs ==
    {[id |-> 0, priority |-> 0, match |-> {"arp"}, on_error |-> FALSE, dest_type |-> "netif",
      dest_id |-> 1, mirror_type |-> "netif", mirror_id |-> 2],
     [id |-> 0, priority |-> 2, match |-> {"arp", "ip"}, on_error |-> TRUE, dest_type |-> "netif",
      dest_id |-> 2, mirror_type |-> "null", mirror_id |-> 0],
     [id |-> 0, priority |-> 2, match |-> {"arp"}, on_error |-> FALSE, dest_type |-> "cb",
      dest_id |-> 0, mirror_type |-> "null", mirror_id |-> 0]}

Symmetry == Permutations(Devs)

=============================================================================
