------------------------------- MODULE KnetIf -------------------------------
(***************************************************************************)
(* The virtual network interfaces and the packet filters of one switch     *)
(* device (bcm-knet.c).  The SDK creates and destroys them with KCOM       *)
(* commands while received packets are looked up and handed to the stack.  *)
(*                                                                         *)
(* An interface is listed in ndev_list in the order of the ids and found   *)
(* by its id through the table ndevs, which grows by NDEVS_CHUNK entries;  *)
(* when there is no memory for that the interface is only in the list.     *)
(* Commands and packet handlers run under sinfo->lock, so what they do in  *)
(* one go is one action.  The lock is free while register_netdev and       *)
(* unregister_netdev run and while a packet is handed to the stack; the    *)
(* commands of several processes may be at different points of that.       *)
(***************************************************************************)
EXTENDS Integers, FiniteSets, Sequences, SequencesExt

CONSTANTS
    Devs,               \* memory for net_devices
    NULL,               \* the NULL pointer
    NDEVS_CHUNK,        \* entries the table grows by (64 in the driver)
    KCOM_FILTER_MAX,    \* filter ids are less than this (128)
    FilterSpecs,        \* the filters that may be asked for
    Packets,            \* received packets: their contents and error bit
    num_rx_prio,        \* module parameter: filter priorities per Rx channel
    rx_chans,           \* Rx channels
    device_is_dnx,      \* is it a DNX device?
    MAX_FAILURES        \* bound: failures to allocate a larger table

(* A filter holds for the packets whose contents are in match, and for     *)
(* those with an error only if its mask covers the status (on_error).  It  *)
(* gets its id when it is created.                                         *)
FilterType ==
    [id : Nat, priority : Nat, match : SUBSET {p.data : p \in Packets}, on_error : BOOLEAN,
     dest_type : {"null", "netif", "api", "cb"}, dest_id : Nat,
     mirror_type : {"null", "netif", "api"}, mirror_id : Nat]

ASSUME DevAssumption == IsFiniteSet(Devs) /\ NULL \notin Devs
ASSUME TableAssumption == NDEVS_CHUNK \in Nat /\ NDEVS_CHUNK >= 2 /\ MAX_FAILURES \in Nat
ASSUME FilterAssumption ==
    /\ KCOM_FILTER_MAX \in Nat /\ KCOM_FILTER_MAX >= 1
    /\ num_rx_prio \in Nat /\ rx_chans \in Nat /\ device_is_dnx \in BOOLEAN
    /\ FilterSpecs \subseteq FilterType

VARIABLES
    dev,        \* per net_device: how far it is, priv->id, netif_carrier_ok()
    ndev_list,
    ndevs,      \* the table; its domain is 0 .. ndev_max - 1
    overrun,    \* something was written behind the table
    failures,   \* tables not allocated so far
    rxpf_list,  \* the filters
    h,          \* the handler (do_skb_rx) and the packets it hands over
    base        \* the base device

vars == <<dev, ndev_list, ndevs, overrun, failures, rxpf_list, h, base>>
netifs == <<dev, ndev_list, ndevs, overrun, failures>>

ndev_max == Cardinality(DOMAIN ndevs)
Chans == 0 .. rx_chans - 1

NoDev == [st |-> "none", id |-> 0, carrier |-> FALSE, wait |-> FALSE]
Id(d) == dev[d].id

(* Where the handler is: the lock is free in all three places.             *)
HandlerIdle == [pc |-> "idle", mskb |-> NULL, skb |-> NULL]

-----------------------------------------------------------------------------
(* After the first hw_init, with basedev_suspend set.                      *)
Init ==
    /\ dev = [d \in Devs |-> NoDev]
    /\ ndev_list = <<>> /\ ndevs = <<>>
    /\ overrun = FALSE /\ failures = 0
    /\ rxpf_list = <<>>
    /\ h = HandlerIdle
    /\ base = [up |-> FALSE, suspended |-> TRUE]

(* bkn_netif_lookup: the table, then the list. *)
bkn_netif_lookup(id) ==
    IF id \in DOMAIN ndevs /\ ndevs[id] # NULL THEN ndevs[id]
    ELSE IF \E d \in Range(ndev_list) : Id(d) = id
         THEN CHOOSE d \in Range(ndev_list) : Id(d) = id
         ELSE NULL

-----------------------------------------------------------------------------
(* bkn_knet_netif_create: the interface is registered first, when its      *)
(* private data is still zero ...                                          *)
bkn_init_ndev(d) ==
    /\ dev[d].st = "none"
    /\ dev' = [dev EXCEPT ![d] = [NoDev EXCEPT !.st = "registered", !.carrier = TRUE]]
    /\ UNCHANGED <<ndev_list, ndevs, overrun, failures, rxpf_list, h, base>>

(* ... then it gets priv->sinfo and the rest except the id ... *)
FillPriv(d) ==
    /\ dev[d].st = "registered"
    /\ dev' = [dev EXCEPT ![d].st = "filled"]
    /\ UNCHANGED <<ndev_list, ndevs, overrun, failures, rxpf_list, h, base>>

(* ... then the smallest id not in use, and its place in the list ... *)
NextId(n) == IF n = 1 THEN 1 ELSE Id(ndev_list[n - 1]) + 1

Place(n) ==
    LET Hole(m) == m <= Len(ndev_list) => NextId(m) < Id(ndev_list[m])
    IN  Hole(n) /\ \A m \in 1 .. n - 1 : ~Hole(m)

InTable(id) == id < ndev_max

(* ... and its entry in the table, which may have to grow first. *)
Grown == [i \in 0 .. ndev_max + NDEVS_CHUNK - 1 |->
             IF i \in DOMAIN ndevs THEN ndevs[i] ELSE NULL]
Write(table, id, d) ==
    /\ ndevs' = IF id \in DOMAIN table THEN [table EXCEPT ![id] = d] ELSE table
    /\ overrun' = (overrun \/ id \notin DOMAIN table)

bkn_knet_netif_create(d) ==
    /\ dev[d].st = "filled"
    /\ \E n \in 1 .. Len(ndev_list) + 1 :
          /\ Place(n)
          /\ dev' = [dev EXCEPT ![d].st = "listed", ![d].id = NextId(n)]
          /\ ndev_list' = InsertAt(ndev_list, n, d)
          /\ \/ InTable(NextId(n)) /\ Write(ndevs, NextId(n), d) /\ UNCHANGED failures
             \/ ~InTable(NextId(n)) /\ Write(Grown, NextId(n), d) /\ UNCHANGED failures
             \/ /\ ~InTable(NextId(n)) /\ failures < MAX_FAILURES
                /\ failures' = failures + 1
                /\ UNCHANGED <<ndevs, overrun>>
    /\ UNCHANGED <<rxpf_list, h, base>>

(* Mutant of bkn_knet_netif_destroy: the table keeps its entry. *)
DestroyKeepsEntry(id) ==
    /\ \E n \in DOMAIN ndev_list : LET d == ndev_list[n] IN
          /\ Id(d) = id
          /\ ndev_list' = RemoveAt(ndev_list, n)
          /\ dev' = [dev EXCEPT ![d].st = "unlinked", ![d].wait = h.pc # "idle"]
    /\ UNCHANGED <<ndevs, overrun, failures, rxpf_list, h, base>>

(* Mutant of bkn_knet_netif_destroy: the interface is freed without being  *)
(* unregistered.                                                           *)
DestroyAtOnce(id) ==
    /\ \E n \in DOMAIN ndev_list : LET d == ndev_list[n] IN
          /\ Id(d) = id
          /\ ndev_list' = RemoveAt(ndev_list, n)
          /\ ndevs' = IF id < ndev_max THEN [ndevs EXCEPT ![id] = NULL] ELSE ndevs
          /\ dev' = [dev EXCEPT ![d] = NoDev]
    /\ UNCHANGED <<overrun, failures, rxpf_list, h, base>>

(* bkn_knet_netif_destroy: nobody can find the interface any more ... *)
bkn_knet_netif_destroy(id) ==
    /\ \E n \in DOMAIN ndev_list : LET d == ndev_list[n] IN
          /\ Id(d) = id
          /\ ndev_list' = RemoveAt(ndev_list, n)
          /\ ndevs' = IF id < ndev_max THEN [ndevs EXCEPT ![id] = NULL] ELSE ndevs
          /\ dev' = [dev EXCEPT ![d].st = "unlinked", ![d].wait = h.pc # "idle"]
    /\ UNCHANGED <<overrun, failures, rxpf_list, h, base>>

(* ... then it is unregistered and freed.  unregister_netdev waits for     *)
(* those who may still use it (synchronize_net): the handlers run with     *)
(* interrupts or preemption disabled, for which RCU waits.                 *)
unregister_netdev(d) ==
    /\ dev[d].st = "unlinked" /\ ~dev[d].wait
    /\ dev' = [dev EXCEPT ![d] = NoDev]
    /\ UNCHANGED <<ndev_list, ndevs, overrun, failures, rxpf_list, h, base>>

(* bkn_proc_link_write: the software link of an interface. *)
bkn_proc_link_write(d, up) ==
    /\ d \in Range(ndev_list)
    /\ dev' = [dev EXCEPT ![d].carrier = up]
    /\ UNCHANGED <<ndev_list, ndevs, overrun, failures, rxpf_list, h, base>>

-----------------------------------------------------------------------------
(* Filters: the first id that is not in use; behind all of the same        *)
(* priority.                                                               *)

(* Mutant of FilterPlace: in front of those of the same priority. *)
FilterPlaceFirst(f, n) ==
    LET Before(m) == m <= Len(rxpf_list) => f.priority <= rxpf_list[m].priority
    IN  Before(n) /\ \A m \in 1 .. n - 1 : ~Before(m)

FilterPlace(f, n) ==
    LET Before(m) == m <= Len(rxpf_list) => f.priority < rxpf_list[m].priority
    IN  Before(n) /\ \A m \in 1 .. n - 1 : ~Before(m)

FilterIds == {f.id : f \in Range(rxpf_list)}

FreeFilterId(id) ==
    /\ id < KCOM_FILTER_MAX /\ id \notin FilterIds
    /\ \A i \in 1 .. id - 1 : i \in FilterIds

bkn_knet_filter_create(f) ==
    /\ \E id \in 1 .. KCOM_FILTER_MAX, n \in 1 .. Len(rxpf_list) + 1 :
          /\ FreeFilterId(id) /\ FilterPlace(f, n)
          /\ rxpf_list' = InsertAt(rxpf_list, n, [f EXCEPT !.id = id])
    /\ UNCHANGED <<netifs, h, base>>

bkn_knet_filter_destroy(id) ==
    /\ \E n \in DOMAIN rxpf_list :
          rxpf_list[n].id = id /\ rxpf_list' = RemoveAt(rxpf_list, n)
    /\ UNCHANGED <<netifs, h, base>>

(* bkn_match_rx_pkt.  A priority that is below those of all channels       *)
(* belongs to one channel, except priority 0 of a DNX device.              *)
Matches(f, chan, pkt) ==
    /\ f.priority < num_rx_prio * rx_chans /\ (f.priority = 0 => ~device_is_dnx) =>
          f.priority \in num_rx_prio * chan .. num_rx_prio * (chan + 1) - 1
    /\ pkt.data \in f.match

(* The filter that decides: the first that matches.  The call-back of a    *)
(* filter without a destination may decline, or fill in any destination.   *)
bkn_match_rx_pkt(chan, pkt) ==
    LET Hit(n) == Matches(rxpf_list[n], chan, pkt)
        Cb(n) == rxpf_list[n].dest_type = "cb"
    IN  UNION {IF Cb(n) THEN FilterSpecs ELSE {rxpf_list[n]} :
               n \in {m \in DOMAIN rxpf_list :
                        Hit(m) /\ \A i \in 1 .. m - 1 : Hit(i) => Cb(i)}}

-----------------------------------------------------------------------------
(* bkn_do_skb_rx, for one packet.  What is dropped, consumed by a          *)
(* call-back or copied to the API only changes nothing here.  A packet     *)
(* that is mirrored is cloned: the clone is handed over first, for the     *)
(* destination, and the packet itself goes to the mirror.                  *)
UpDev(id) == LET d == bkn_netif_lookup(id)
             IN  IF d # NULL /\ dev[d].carrier THEN d ELSE NULL

bkn_do_skb_rx(chan, pkt) ==
    /\ h.pc = "idle"
    /\ \E f \in bkn_match_rx_pkt(chan, pkt) :
          /\ pkt.error => f.on_error
          /\ f.dest_type = "netif"
          /\ LET d == UpDev(f.dest_id)
                 m == IF f.mirror_type = "netif" THEN UpDev(f.mirror_id) ELSE NULL
             IN  /\ d # NULL
                 /\ \/ h' = [pc |-> "deliver", mskb |-> NULL, skb |-> d]
                    \/ m # NULL /\ h' = [pc |-> "mirror", mskb |-> d, skb |-> m]
    /\ UNCHANGED <<netifs, rxpf_list, base>>

Mirrored ==
    /\ h.pc = "mirror"
    /\ h' = [h EXCEPT !.pc = "deliver", !.mskb = NULL]
    /\ UNCHANGED <<netifs, rxpf_list, base>>

Delivered ==
    /\ h.pc = "deliver"
    /\ h' = HandlerIdle
    /\ dev' = [d \in Devs |-> [dev[d] EXCEPT !.wait = FALSE]]
    /\ UNCHANGED <<ndev_list, ndevs, overrun, failures, rxpf_list, base>>

-----------------------------------------------------------------------------
(* bkn_open of an interface.  The id tells whether it is the base device,  *)
(* so one that has no id yet is taken for it.  Before that it has no       *)
(* priv->sinfo either, and the kernel faults: that has no next state.      *)
bkn_open(d) ==
    /\ dev[d].st \in {"filled", "listed"}
    /\ base' = IF Id(d) <= 0 THEN [base EXCEPT !.suspended = FALSE] ELSE base
    /\ UNCHANGED <<netifs, rxpf_list, h>>

OpenBase ==
    /\ ~base.up
    /\ base' = [up |-> TRUE, suspended |-> FALSE]
    /\ UNCHANGED <<netifs, rxpf_list, h>>

StopBase ==
    /\ base.up
    /\ base' = [up |-> FALSE, suspended |-> TRUE]
    /\ UNCHANGED <<netifs, rxpf_list, h>>

Next ==
    \/ \E d \in Devs : \/ bkn_init_ndev(d) \/ FillPriv(d) \/ bkn_knet_netif_create(d)
                       \/ unregister_netdev(d) \/ bkn_open(d)
                       \/ \E up \in BOOLEAN : bkn_proc_link_write(d, up)
    \/ \E id \in {Id(d) : d \in Range(ndev_list)} : bkn_knet_netif_destroy(id)
    \/ \E f \in FilterSpecs : bkn_knet_filter_create(f)
    \/ \E id \in FilterIds : bkn_knet_filter_destroy(id)
    \/ \E chan \in Chans, pkt \in Packets : bkn_do_skb_rx(chan, pkt)
    \/ Mirrored \/ Delivered
    \/ OpenBase \/ StopBase

Spec == Init /\ [][Next]_vars

-----------------------------------------------------------------------------
TypeOK ==
    /\ dev \in [Devs -> [st : {"none", "registered", "filled", "listed", "unlinked"},
                         id : Nat, carrier : BOOLEAN, wait : BOOLEAN]]
    /\ ndev_list \in Seq(Devs)
    /\ DOMAIN ndevs = 0 .. ndev_max - 1 /\ Range(ndevs) \subseteq Devs \cup {NULL}
    /\ overrun \in BOOLEAN /\ failures \in 0 .. MAX_FAILURES
    /\ \A f \in Range(rxpf_list) : f.id \in 1 .. KCOM_FILTER_MAX - 1
    /\ h \in [pc : {"idle", "mirror", "deliver"}, mskb : Devs \cup {NULL},
              skb : Devs \cup {NULL}]
    /\ base \in [up : BOOLEAN, suspended : BOOLEAN]

(* Whatever was created and destroyed, and whichever tables could not be   *)
(* allocated, a look-up finds the interface that has the id and no other:  *)
(* ids are unique and the smallest that is free can always be found        *)
(* because the list is in their order (bkn_knet_netif_create,              *)
(* bkn_knet_netif_destroy, bkn_netif_lookup).  Nothing is written behind   *)
(* the table: this holds for less than NDEVS_CHUNK - 1 failures, after     *)
(* which one more chunk does not reach the id that needs it.               *)
LookupSound ==
    /\ ~overrun
    /\ \A m, n \in DOMAIN ndev_list : m < n => Id(ndev_list[m]) < Id(ndev_list[n])
    /\ \A d \in Devs : d \in Range(ndev_list) <=> dev[d].st = "listed"
    /\ \A id \in 0 .. ndev_max + Cardinality(Devs) :
          LET d == bkn_netif_lookup(id)
          IN  IF d = NULL THEN \A e \in Devs : ~(dev[e].st = "listed" /\ Id(e) = id)
              ELSE dev[d].st = "listed" /\ Id(d) = id

(* A new filter comes behind all whose priority value is as low or lower   *)
(* and before all others, and nothing else changes the order, so that they *)
(* are checked in priority order with the lowest priority values being     *)
(* checked first (kcom.h:154), the oldest first among equals.              *)
FiltersInOrder ==
    [][\A n \in DOMAIN rxpf_list' :
          LET f == rxpf_list'[n] IN
          /\ f \notin Range(rxpf_list) =>
                \A m \in DOMAIN rxpf_list' \ {n} :
                    m < n <=> rxpf_list'[m].priority <= f.priority
          /\ f \in Range(rxpf_list) =>
                \A m \in n + 1 .. Len(rxpf_list') :
                    LET g == rxpf_list'[m] IN
                    g \in Range(rxpf_list) =>
                       \E i, j \in DOMAIN rxpf_list :
                           i < j /\ rxpf_list[i] = f /\ rxpf_list[j] = g]_rxpf_list

(* An interface is not freed, nor its memory used for another, while a     *)
(* packet or its clone is handed to the stack for it with the lock         *)
(* released (bkn_do_skb_rx, bkn_knet_netif_destroy).                       *)
DeliveryAlive ==
    \A d \in {h.mskb, h.skb} \ {NULL} : dev[d].st \in {"listed", "unlinked"}

(* bkn_open (bcm-knet.c:4736): "Start DMA when base device is started".    *)
BaseStartsDma == ~base.suspended => base.up

=============================================================================
