---------------------------- MODULE KnetIfProofs ----------------------------
(***************************************************************************)
(* Proofs about KnetIf, for every number of interfaces, chunk size, set of *)
(* filters and of packets: a look-up finds what has the id, an interface   *)
(* lives as long as a packet is handed over for it, and the filters stay   *)
(* in the order of their priorities.                                       *)
(***************************************************************************)
EXTENDS KnetIf, FiniteSetTheorems, SequenceTheorems, TLAPS

USE DevAssumption, TableAssumption, FilterAssumption

DevType == [st : {"none", "registered", "filled", "listed", "unlinked"},
            id : Nat, carrier : BOOLEAN, wait : BOOLEAN]

(***************************************************************************)
(* The inductive invariant.  An id is at most the last index of the table, *)
(* plus one for every table that was not allocated: that is why the next   *)
(* chunk reaches the id that needs it.                                     *)
(***************************************************************************)
Reach == failures + (IF ndev_max = 0 THEN 0 ELSE ndev_max - 1)

NetType ==
    /\ dev \in [Devs -> DevType]
    /\ ndev_list \in Seq(Devs)
    /\ ndev_max \in Nat /\ ndevs \in [0 .. ndev_max - 1 -> Devs \cup {NULL}]
    /\ overrun = FALSE /\ failures \in 0 .. MAX_FAILURES

Ordered ==
    \A m, n \in 1 .. Len(ndev_list) : m < n => Id(ndev_list[m]) < Id(ndev_list[n])

Members ==
    \A d \in Devs : dev[d].st = "listed" <=> \E n \in 1 .. Len(ndev_list) : ndev_list[n] = d

TableOK ==
    \A i \in DOMAIN ndevs :
        ndevs[i] # NULL => dev[ndevs[i]].st = "listed" /\ Id(ndevs[i]) = i

Reached == \A n \in 1 .. Len(ndev_list) : Id(ndev_list[n]) <= Reach

NetInv == NetType /\ Ordered /\ Members /\ TableOK /\ Reached

(* What the handler uses is not freed: unregister_netdev waits for it.     *)
Alive(d) == dev[d].st = "listed" \/ (dev[d].st = "unlinked" /\ dev[d].wait)

HandlerInv ==
    /\ h \in [pc : {"idle", "mirror", "deliver"}, mskb : Devs \cup {NULL},
              skb : Devs \cup {NULL}]
    /\ h.pc = "idle" => h.mskb = NULL /\ h.skb = NULL
    /\ \A d \in {h.mskb, h.skb} \ {NULL} : Alive(d)

(* The filters are in the order of their priorities.                       *)
FilterInv ==
    /\ rxpf_list \in Seq(FilterType)
    /\ \A n \in 1 .. Len(rxpf_list) : rxpf_list[n].id \in 1 .. KCOM_FILTER_MAX - 1
    /\ \A m, n \in 1 .. Len(rxpf_list) :
          m < n => rxpf_list[m].priority <= rxpf_list[n].priority

BaseType == base \in [up : BOOLEAN, suspended : BOOLEAN]

IfInv == NetInv /\ HandlerInv /\ FilterInv /\ BaseType

-----------------------------------------------------------------------------
(* Sequences: inserting and removing an element, and intervals.            *)

(* t is s with e put in at n, or with what is at n taken out.              *)
Inserted(t, s, n, e) ==
    /\ Len(t) = Len(s) + 1
    /\ \A i \in 1 .. n - 1 : t[i] = s[i]
    /\ t[n] = e
    /\ \A i \in n + 1 .. Len(s) + 1 : t[i] = s[i - 1]

Removed(t, s, n) ==
    /\ Len(t) = Len(s) - 1
    /\ \A i \in 1 .. n - 1 : t[i] = s[i]
    /\ \A i \in n .. Len(s) - 1 : t[i] = s[i + 1]

LEMMA InsertAtProperties ==
    ASSUME NEW S, NEW s \in Seq(S), NEW n \in 1 .. Len(s) + 1, NEW e \in S
    PROVE  InsertAt(s, n, e) \in Seq(S) /\ Inserted(InsertAt(s, n, e), s, n, e)
<1> DEFINE a == SubSeq(s, 1, n - 1)
           b == SubSeq(s, n, Len(s))
<1>0. Len(s) \in Nat /\ \A i \in 1 .. Len(s) : s[i] \in S
  BY LenProperties
<1>1. a \in Seq(S) /\ Len(a) = n - 1 /\ \A i \in 1 .. n - 1 : a[i] = s[i]
  <2>1. 1 \in Int /\ n - 1 \in Int /\ \A i \in 1 .. n - 1 : s[i] \in S
    BY <1>0
  <2>2. /\ a \in Seq(S) /\ Len(a) = (IF 1 <= n - 1 THEN n - 1 - 1 + 1 ELSE 0)
        /\ \A i \in 1 .. n - 1 - 1 + 1 : a[i] = s[1 + i - 1]
    BY <2>1, SubSeqProperties
  <2>. QED  BY <2>2, <1>0
<1>2. /\ b \in Seq(S) /\ Len(b) = Len(s) - n + 1
      /\ \A i \in 1 .. Len(s) - n + 1 : b[i] = s[n + i - 1]
  <2>1. n \in Int /\ Len(s) \in Int /\ \A i \in n .. Len(s) : s[i] \in S
    BY <1>0
  <2>2. /\ b \in Seq(S) /\ Len(b) = (IF n <= Len(s) THEN Len(s) - n + 1 ELSE 0)
        /\ \A i \in 1 .. Len(s) - n + 1 : b[i] = s[n + i - 1]
    BY <2>1, SubSeqProperties
  <2>. QED  BY <2>2, <1>0
<1> DEFINE c == <<e>>
<1>3. c \in Seq(S) /\ Len(c) = 1 /\ c[1] = e
  OBVIOUS
<1> HIDE DEF a, b, c
<1> DEFINE ac == a \o c
<1>4. /\ ac \in Seq(S) /\ Len(ac) = n
      /\ \A i \in 1 .. n : ac[i] = IF i <= n - 1 THEN a[i] ELSE c[i - (n - 1)]
  <2>1. /\ ac \in Seq(S) /\ Len(ac) = Len(a) + Len(c)
        /\ \A i \in 1 .. Len(a) + Len(c) :
              ac[i] = IF i <= Len(a) THEN a[i] ELSE c[i - Len(a)]
    BY <1>1, <1>3, ConcatProperties, Zenon
  <2> HIDE DEF ac
  <2>. QED  BY <2>1, <1>0, <1>1, <1>3
<1> HIDE DEF ac
<1> DEFINE t == ac \o b
<1>5. /\ t \in Seq(S) /\ Len(t) = Len(s) + 1
      /\ \A i \in 1 .. Len(s) + 1 : t[i] = IF i <= n THEN ac[i] ELSE b[i - n]
  <2>1. /\ t \in Seq(S) /\ Len(t) = Len(ac) + Len(b)
        /\ \A i \in 1 .. Len(ac) + Len(b) :
              t[i] = IF i <= Len(ac) THEN ac[i] ELSE b[i - Len(ac)]
    BY <1>4, <1>2, ConcatProperties, Zenon
  <2> HIDE DEF t
  <2>. QED  BY <2>1, <1>0, <1>2, <1>4
<1>6. InsertAt(s, n, e) = t
  BY Zenon DEF InsertAt, a, b, c, ac
<1> HIDE DEF t
<1>7. \A i \in 1 .. n - 1 : t[i] = s[i]
  BY <1>0, <1>1, <1>4, <1>5
<1>8. t[n] = e
  <2>1. n \in 1 .. Len(s) + 1 /\ n \in 1 .. n /\ ~(n <= n - 1) /\ n - (n - 1) = 1
    BY <1>0
  <2>2. t[n] = ac[n] /\ ac[n] = c[n - (n - 1)]
    BY <2>1, <1>4, <1>5
  <2>. QED  BY <2>1, <2>2, <1>3
<1>9. \A i \in n + 1 .. Len(s) + 1 : t[i] = s[i - 1]
  <2>1. SUFFICES ASSUME NEW i \in n + 1 .. Len(s) + 1  PROVE t[i] = s[i - 1]
    OBVIOUS
  <2>2. i \in 1 .. Len(s) + 1 /\ ~(i <= n) /\ i - n \in 1 .. Len(s) - n + 1
    BY <1>0
  <2>3. t[i] = b[i - n]
    BY <2>2, <1>5
  <2>4. b[i - n] = s[n + (i - n) - 1] /\ n + (i - n) - 1 = i - 1
    BY <2>2, <1>2
  <2>. QED  BY <2>3, <2>4
<1>10. Inserted(t, s, n, e)
  BY <1>5, <1>7, <1>8, <1>9, Zenon DEF Inserted
<1>. QED  BY <1>5, <1>6, <1>10, Zenon

LEMMA RemoveAtProperties ==
    ASSUME NEW S, NEW s \in Seq(S), NEW n \in 1 .. Len(s)
    PROVE  RemoveAt(s, n) \in Seq(S) /\ Removed(RemoveAt(s, n), s, n)
<1> DEFINE a == SubSeq(s, 1, n - 1)
           b == SubSeq(s, n + 1, Len(s))
<1>0. Len(s) \in Nat /\ \A i \in 1 .. Len(s) : s[i] \in S
  BY LenProperties
<1>1. a \in Seq(S) /\ Len(a) = n - 1 /\ \A i \in 1 .. n - 1 : a[i] = s[i]
  <2>1. 1 \in Int /\ n - 1 \in Int /\ \A i \in 1 .. n - 1 : s[i] \in S
    BY <1>0
  <2>2. /\ a \in Seq(S) /\ Len(a) = (IF 1 <= n - 1 THEN n - 1 - 1 + 1 ELSE 0)
        /\ \A i \in 1 .. n - 1 - 1 + 1 : a[i] = s[1 + i - 1]
    BY <2>1, SubSeqProperties
  <2>. QED  BY <2>2, <1>0
<1>2. /\ b \in Seq(S) /\ Len(b) = Len(s) - n
      /\ \A i \in 1 .. Len(s) - n : b[i] = s[n + i]
  <2>1. n + 1 \in Int /\ Len(s) \in Int /\ \A i \in n + 1 .. Len(s) : s[i] \in S
    BY <1>0
  <2>2. /\ b \in Seq(S) /\ Len(b) = (IF n + 1 <= Len(s) THEN Len(s) - (n + 1) + 1 ELSE 0)
        /\ \A i \in 1 .. Len(s) - (n + 1) + 1 : b[i] = s[n + 1 + i - 1]
    BY <2>1, SubSeqProperties
  <2>. QED  BY <2>2, <1>0
<1> HIDE DEF a, b
<1>3. /\ a \o b \in Seq(S) /\ Len(a \o b) = Len(s) - 1
      /\ \A i \in 1 .. Len(s) - 1 : (a \o b)[i] = IF i <= n - 1 THEN a[i] ELSE b[i - (n - 1)]
  <2>1. /\ a \o b \in Seq(S) /\ Len(a \o b) = Len(a) + Len(b)
        /\ \A i \in 1 .. Len(a) + Len(b) :
              (a \o b)[i] = IF i <= Len(a) THEN a[i] ELSE b[i - Len(a)]
    BY <1>1, <1>2, ConcatProperties
  <2>. QED  BY <2>1, <1>0, <1>1, <1>2
<1>4. RemoveAt(s, n) = a \o b
  BY DEF RemoveAt, a, b
<1>5. \A i \in 1 .. n - 1 : (a \o b)[i] = s[i]
  BY <1>0, <1>1, <1>3
<1>6. \A i \in n .. Len(s) - 1 : (a \o b)[i] = s[i + 1]
  <2>1. SUFFICES ASSUME NEW i \in n .. Len(s) - 1  PROVE (a \o b)[i] = s[i + 1]
    OBVIOUS
  <2>2. i \in 1 .. Len(s) - 1 /\ ~(i <= n - 1) /\ i - (n - 1) \in 1 .. Len(s) - n
    BY <1>0
  <2>3. (a \o b)[i] = b[i - (n - 1)]
    BY <2>2, <1>3
  <2>4. b[i - (n - 1)] = s[n + (i - (n - 1))] /\ n + (i - (n - 1)) = i + 1
    BY <2>2, <1>2
  <2>. QED  BY <2>3, <2>4
<1>7. Removed(a \o b, s, n)
  BY <1>3, <1>5, <1>6, Zenon DEF Removed
<1>. QED  BY <1>3, <1>4, <1>7, Zenon

LEMMA TableSize == ASSUME NEW m \in Nat PROVE Cardinality(0 .. m - 1) = m
<1>1. 0 \in Int /\ m - 1 \in Int
  OBVIOUS
<1>2. Cardinality(0 .. m - 1) = IF 0 > m - 1 THEN 0 ELSE m - 1 - 0 + 1
  BY <1>1, FS_Interval, Zenon
<1>. QED  BY <1>2

-----------------------------------------------------------------------------
(* Looking up an interface. *)

LEMMA NetFacts ==
    ASSUME NetType
    PROVE  /\ dev \in [Devs -> DevType] /\ ndev_list \in Seq(Devs)
           /\ Len(ndev_list) \in Nat /\ DOMAIN ndev_list = 1 .. Len(ndev_list)
           /\ \A n \in 1 .. Len(ndev_list) : ndev_list[n] \in Devs
           /\ \A d \in Devs : dev[d] \in DevType /\ Id(d) \in Nat
           /\ ndev_max \in Nat /\ ndevs \in [0 .. ndev_max - 1 -> Devs \cup {NULL}]
           /\ DOMAIN ndevs = 0 .. ndev_max - 1
           /\ failures \in Nat /\ failures <= MAX_FAILURES
<1>1. Len(ndev_list) \in Nat /\ DOMAIN ndev_list = 1 .. Len(ndev_list)
      /\ \A n \in 1 .. Len(ndev_list) : ndev_list[n] \in Devs
  BY LenProperties, ElementOfSeq DEF NetType
<1>2. \A d \in Devs : dev[d] \in DevType /\ Id(d) \in Nat
  BY DEF NetType, Id, DevType
<1>. QED  BY <1>1, <1>2 DEF NetType

LEMMA ListRange ==
    ASSUME NetType
    PROVE  \A d : d \in Range(ndev_list) <=> \E n \in 1 .. Len(ndev_list) : ndev_list[n] = d
BY NetFacts, Zenon DEF Range

LEMMA Lookup ==
    ASSUME NetInv, NEW id
    PROVE  /\ bkn_netif_lookup(id) = NULL =>
                 \A e \in Devs : ~(dev[e].st = "listed" /\ Id(e) = id)
           /\ bkn_netif_lookup(id) # NULL =>
                 /\ bkn_netif_lookup(id) \in Devs
                 /\ dev[bkn_netif_lookup(id)].st = "listed"
                 /\ Id(bkn_netif_lookup(id)) = id
<1>0. NetType /\ Members /\ TableOK /\ NULL \notin Devs
  BY DEF NetInv
<1>1. CASE id \in DOMAIN ndevs /\ ndevs[id] # NULL
  <2>1. bkn_netif_lookup(id) = ndevs[id]
    BY <1>1, Zenon DEF bkn_netif_lookup
  <2>2. ndevs[id] \in Devs /\ dev[ndevs[id]].st = "listed" /\ Id(ndevs[id]) = id
    BY <1>0, <1>1, NetFacts DEF TableOK
  <2>. QED  BY <2>1, <2>2, <1>1, Zenon
<1>2. CASE ~(id \in DOMAIN ndevs /\ ndevs[id] # NULL)
           /\ \E d \in Range(ndev_list) : Id(d) = id
  <2>1. bkn_netif_lookup(id) = CHOOSE d \in Range(ndev_list) : Id(d) = id
    BY <1>2, Zenon DEF bkn_netif_lookup
  <2>2. bkn_netif_lookup(id) \in Range(ndev_list) /\ Id(bkn_netif_lookup(id)) = id
    BY <1>2, <2>1, Zenon
  <2>3. /\ bkn_netif_lookup(id) \in Devs
        /\ dev[bkn_netif_lookup(id)].st = "listed"
    BY <1>0, <2>2, ListRange, NetFacts, Zenon DEF Members
  <2>. QED  BY <2>2, <2>3, <1>0, Zenon
<1>3. CASE ~(id \in DOMAIN ndevs /\ ndevs[id] # NULL)
           /\ ~\E d \in Range(ndev_list) : Id(d) = id
  <2>1. bkn_netif_lookup(id) = NULL
    BY <1>3, Zenon DEF bkn_netif_lookup
  <2>2. \A e \in Devs : dev[e].st = "listed" => e \in Range(ndev_list)
    BY <1>0, ListRange, Zenon DEF Members
  <2>. QED  BY <1>3, <2>1, <2>2, Zenon
<1>. QED  BY <1>1, <1>2, <1>3, Zenon

LEMMA InvLookupSound == NetInv => LookupSound
<1> SUFFICES ASSUME NetInv  PROVE LookupSound
  OBVIOUS
<1>0. NetType /\ Ordered /\ Members /\ DOMAIN ndev_list = 1 .. Len(ndev_list)
  BY NetFacts DEF NetInv
<1>1. ~overrun
  BY <1>0 DEF NetType
<1>2. \A m, n \in DOMAIN ndev_list : m < n => Id(ndev_list[m]) < Id(ndev_list[n])
  BY <1>0, Zenon DEF Ordered
<1>3. \A d \in Devs : d \in Range(ndev_list) <=> dev[d].st = "listed"
  BY <1>0, ListRange, Zenon DEF Members
<1>4. \A id \in 0 .. ndev_max + Cardinality(Devs) :
          LET d == bkn_netif_lookup(id)
          IN  IF d = NULL THEN \A e \in Devs : ~(dev[e].st = "listed" /\ Id(e) = id)
              ELSE dev[d].st = "listed" /\ Id(d) = id
  BY Lookup, Zenon
<1>. QED  BY <1>1, <1>2, <1>3, <1>4, Zenon DEF LookupSound

-----------------------------------------------------------------------------
(* Creating an interface. *)

(* The place in the list is where the id fits in.                          *)
LEMMA PlaceFits ==
    ASSUME NetInv, NEW n \in 1 .. Len(ndev_list) + 1, Place(n)
    PROVE  /\ NextId(n) \in Nat /\ NextId(n) <= Reach + 1
           /\ Reach \in Nat
           /\ \A m \in 1 .. n - 1 : Id(ndev_list[m]) < NextId(n)
           /\ \A m \in n .. Len(ndev_list) : NextId(n) < Id(ndev_list[m])
<1> USE NetFacts
<1>0. NetType /\ Ordered /\ Reached
  BY DEF NetInv
<1>1. Reach \in Nat
  BY <1>0 DEF Reach
<1>2. NextId(n) = IF n = 1 THEN 1 ELSE Id(ndev_list[n - 1]) + 1
  BY Zenon DEF NextId
<1>3. n # 1 => n - 1 \in 1 .. Len(ndev_list) /\ Id(ndev_list[n - 1]) \in Nat
  BY <1>0
<1>4. NextId(n) \in Nat /\ NextId(n) <= Reach + 1
  <2>1. n # 1 => Id(ndev_list[n - 1]) <= Reach
    BY <1>0, <1>3, Zenon DEF Reached
  <2>. QED  BY <1>1, <1>2, <1>3, <2>1
<1>5. \A m \in 1 .. n - 1 : Id(ndev_list[m]) < NextId(n)
  <2>1. SUFFICES ASSUME NEW m \in 1 .. n - 1  PROVE Id(ndev_list[m]) < NextId(n)
    OBVIOUS
  <2>2. m \in 1 .. Len(ndev_list) /\ n # 1 /\ (m = n - 1 \/ m < n - 1) /\ Id(ndev_list[m]) \in Nat
    BY <1>0
  <2>3. m < n - 1 => Id(ndev_list[m]) < Id(ndev_list[n - 1])
    BY <1>0, <1>3, <2>2 DEF Ordered
  <2>. QED  BY <1>2, <1>3, <2>2, <2>3
<1>6. \A m \in n .. Len(ndev_list) : NextId(n) < Id(ndev_list[m])
  <2>1. SUFFICES ASSUME NEW m \in n .. Len(ndev_list)  PROVE NextId(n) < Id(ndev_list[m])
    OBVIOUS
  <2>2. n <= Len(ndev_list) /\ n \in 1 .. Len(ndev_list) /\ m \in 1 .. Len(ndev_list)
        /\ (m = n \/ n < m) /\ Id(ndev_list[m]) \in Nat /\ Id(ndev_list[n]) \in Nat
    BY <1>0
  <2>3. NextId(n) < Id(ndev_list[n])
    BY <2>2, Zenon DEF Place
  <2>4. n < m => Id(ndev_list[n]) < Id(ndev_list[m])
    BY <1>0, <2>2 DEF Ordered
  <2>. QED  BY <2>2, <2>3, <2>4, <1>4
<1>. QED  BY <1>1, <1>4, <1>5, <1>6

(* The entry is within the table: its index is at most Reach + 1, and a    *)
(* chunk is more than the tables that may have failed.                     *)
LEMMA WriteInTable ==
    ASSUME NetType, TableOK, MAX_FAILURES + 1 < NDEVS_CHUNK,
           NEW id \in Nat, id <= Reach + 1, NEW d \in Devs
    PROVE  /\ InTable(id) => id \in 0 .. ndev_max - 1
           /\ id \in 0 .. ndev_max + NDEVS_CHUNK - 1
BY NetFacts DEF Reach, InTable

(* What is written to the table t, in which all entries are as before.     *)
Copy(t, m) == /\ t \in [0 .. m - 1 -> Devs \cup {NULL}]
              /\ \A i \in 0 .. m - 1 : t[i] # NULL => i \in DOMAIN ndevs /\ t[i] = ndevs[i]

LEMMA TableCopies ==
    ASSUME NetType
    PROVE  Copy(ndevs, ndev_max) /\ Copy(Grown, ndev_max + NDEVS_CHUNK)
<1>0. ndev_max \in Nat /\ NDEVS_CHUNK \in Nat /\ ndevs \in [0 .. ndev_max - 1 -> Devs \cup {NULL}]
      /\ DOMAIN ndevs = 0 .. ndev_max - 1
  BY NetFacts
<1>1. Copy(ndevs, ndev_max)
  BY <1>0, Zenon DEF Copy
<1>2. \A i \in 0 .. ndev_max + NDEVS_CHUNK - 1 :
          Grown[i] = IF i \in DOMAIN ndevs THEN ndevs[i] ELSE NULL
  BY Zenon DEF Grown
<1>3. Grown \in [0 .. ndev_max + NDEVS_CHUNK - 1 -> Devs \cup {NULL}]
  <2>1. \A i \in 0 .. ndev_max + NDEVS_CHUNK - 1 :
            (IF i \in DOMAIN ndevs THEN ndevs[i] ELSE NULL) \in Devs \cup {NULL}
    BY <1>0
  <2>. QED  BY <2>1, Zenon DEF Grown
<1>4. Copy(Grown, ndev_max + NDEVS_CHUNK)
  <2>1. \A i \in 0 .. ndev_max + NDEVS_CHUNK - 1 :
            Grown[i] # NULL => i \in DOMAIN ndevs /\ Grown[i] = ndevs[i]
    BY <1>2, Zenon
  <2>2. 0 .. ndev_max + NDEVS_CHUNK - 1 = 0 .. (ndev_max + NDEVS_CHUNK) - 1
    BY <1>0
  <2>. QED  BY <2>1, <2>2, <1>3, Zenon DEF Copy
<1>. QED  BY <1>1, <1>4

LEMMA WriteFacts ==
    ASSUME NetType, NEW t, NEW m \in Nat, Copy(t, m), NEW id \in 0 .. m - 1, NEW d \in Devs,
           Write(t, id, d)
    PROVE  /\ overrun' = FALSE
           /\ ndevs' \in [0 .. m - 1 -> Devs \cup {NULL}] /\ ndev_max' = m
           /\ ndevs'[id] = d
           /\ \A i \in 0 .. m - 1 : i # id /\ ndevs'[i] # NULL =>
                 i \in DOMAIN ndevs /\ ndevs'[i] = ndevs[i]
<1>1. t \in [0 .. m - 1 -> Devs \cup {NULL}] /\ DOMAIN t = 0 .. m - 1
      /\ \A i \in 0 .. m - 1 : t[i] # NULL => i \in DOMAIN ndevs /\ t[i] = ndevs[i]
  BY DEF Copy
<1>2. ndevs' = [t EXCEPT ![id] = d]
  BY <1>1, Zenon DEF Write
<1>3. overrun' = FALSE
  BY <1>1 DEF Write, NetType
<1>4. ndevs' \in [0 .. m - 1 -> Devs \cup {NULL}] /\ DOMAIN ndevs' = 0 .. m - 1
  BY <1>1, <1>2
<1>5. ndev_max' = m
  BY <1>4, TableSize, Zenon DEF ndev_max
<1>6. ndevs'[id] = d /\ \A i \in 0 .. m - 1 : i # id => ndevs'[i] = t[i]
  BY <1>1, <1>2
<1>. QED  BY <1>1, <1>3, <1>4, <1>5, <1>6, Zenon

(* The interface that is put into the list.                                *)
LEMMA CreateStep ==
    ASSUME NetInv, MAX_FAILURES + 1 < NDEVS_CHUNK, NEW d \in Devs, bkn_knet_netif_create(d)
    PROVE  NetInv'
<1>0. /\ NetType /\ Ordered /\ Members /\ TableOK /\ Reached
      /\ dev \in [Devs -> DevType] /\ ndev_list \in Seq(Devs)
      /\ Len(ndev_list) \in Nat /\ DOMAIN ndev_list = 1 .. Len(ndev_list)
      /\ \A n \in 1 .. Len(ndev_list) : ndev_list[n] \in Devs
      /\ \A e \in Devs : dev[e] \in DevType /\ Id(e) \in Nat
      /\ ndev_max \in Nat /\ ndevs \in [0 .. ndev_max - 1 -> Devs \cup {NULL}]
      /\ DOMAIN ndevs = 0 .. ndev_max - 1
      /\ failures \in Nat /\ failures <= MAX_FAILURES
  BY NetFacts, Zenon DEF NetInv
<1>1. dev[d].st = "filled"
  BY Zenon DEF bkn_knet_netif_create
<1>2. PICK n \in 1 .. Len(ndev_list) + 1 :
          /\ Place(n)
          /\ dev' = [dev EXCEPT ![d].st = "listed", ![d].id = NextId(n)]
          /\ ndev_list' = InsertAt(ndev_list, n, d)
          /\ \/ InTable(NextId(n)) /\ Write(ndevs, NextId(n), d) /\ UNCHANGED failures
             \/ ~InTable(NextId(n)) /\ Write(Grown, NextId(n), d) /\ UNCHANGED failures
             \/ /\ ~InTable(NextId(n)) /\ failures < MAX_FAILURES
                /\ failures' = failures + 1
                /\ UNCHANGED <<ndevs, overrun>>
  BY Zenon DEF bkn_knet_netif_create
<1> DEFINE id == NextId(n)
           L == ndev_list'
<1>3. /\ id \in Nat /\ id <= Reach + 1 /\ Reach \in Nat
      /\ \A m \in 1 .. n - 1 : Id(ndev_list[m]) < id
      /\ \A m \in n .. Len(ndev_list) : id < Id(ndev_list[m])
  BY <1>2, PlaceFits, Zenon
<1>4. /\ L \in Seq(Devs) /\ Len(L) = Len(ndev_list) + 1
      /\ \A i \in 1 .. n - 1 : L[i] = ndev_list[i]
      /\ L[n] = d
      /\ \A i \in n + 1 .. Len(ndev_list) + 1 : L[i] = ndev_list[i - 1]
  <2>1. L = InsertAt(ndev_list, n, d)
    BY <1>2
  <2> HIDE DEF L
  <2>2. L \in Seq(Devs) /\ Inserted(L, ndev_list, n, d)
    BY <2>1, <1>0, InsertAtProperties, Zenon
  <2>. QED  BY <2>2, Zenon DEF Inserted
<1>5. /\ dev' \in [Devs -> DevType]
      /\ dev'[d].st = "listed" /\ dev'[d].id = id
      /\ \A e \in Devs \ {d} : dev'[e] = dev[e] /\ dev'[e].id = Id(e)
  <2> HIDE DEF id
  <2>1. dev' = [dev EXCEPT ![d] = [dev[d] EXCEPT !.st = "listed", !.id = id]]
    BY <1>2, Zenon DEF id
  <2>2. [dev[d] EXCEPT !.st = "listed", !.id = id] \in DevType
    BY <1>0, <1>3 DEF DevType
  <2>3. [dev[d] EXCEPT !.st = "listed", !.id = id].st = "listed"
        /\ [dev[d] EXCEPT !.st = "listed", !.id = id].id = id
    BY <1>0 DEF DevType
  <2>. QED  BY <1>0, <2>1, <2>2, <2>3, Zenon DEF Id
<1>6. \A m \in 1 .. Len(ndev_list) : ndev_list[m] \in Devs /\ ndev_list[m] # d
  BY <1>0, <1>1, Zenon DEF Members
<1> HIDE DEF id, L
<1>7. \A i \in 1 .. Len(L) : i # n => /\ L[i] \in Devs /\ L[i] # d
                                      /\ \E m \in 1 .. Len(ndev_list) : L[i] = ndev_list[m]
  <2>1. \A i \in 1 .. n - 1 : i \in 1 .. Len(ndev_list)
    BY <1>0
  <2>2. \A i \in n + 1 .. Len(ndev_list) + 1 : i - 1 \in 1 .. Len(ndev_list)
    BY <1>0
  <2>3. \A i \in 1 .. Len(L) : i = n \/ i \in 1 .. n - 1 \/ i \in n + 1 .. Len(ndev_list) + 1
    BY <1>0, <1>4
  <2>. QED  BY <1>4, <1>6, <2>1, <2>2, <2>3, Zenon
<1>8. \A m \in 1 .. Len(ndev_list) : \E i \in 1 .. Len(L) : L[i] = ndev_list[m]
  <2>1. SUFFICES ASSUME NEW m \in 1 .. Len(ndev_list)
                 PROVE  \E i \in 1 .. Len(L) : L[i] = ndev_list[m]
    OBVIOUS
  <2>2. CASE m < n
    <3>1. m \in 1 .. n - 1 /\ m \in 1 .. Len(L)
      BY <1>0, <1>4, <2>2
    <3>. QED  BY <3>1, <1>4, Zenon
  <2>3. CASE ~(m < n)
    <3>1. m + 1 \in n + 1 .. Len(ndev_list) + 1 /\ m + 1 \in 1 .. Len(L) /\ (m + 1) - 1 = m
      BY <1>0, <1>4, <2>3
    <3>2. L[m + 1] = ndev_list[m]
      BY <3>1, <1>4
    <3>. QED  BY <3>1, <3>2, Zenon
  <2>. QED  BY <2>2, <2>3
<1>9. Ordered'
  <2>0. Len(ndev_list) \in Nat /\ Len(L) = Len(ndev_list) + 1
    BY <1>0, <1>4
  <2>1. \A i \in 1 .. Len(L) : dev'[L[i]].id = IF i = n THEN id ELSE Id(L[i])
    BY <1>4, <1>5, <1>7, Zenon DEF Id
  <2>2. SUFFICES ASSUME NEW p \in 1 .. Len(L), NEW q \in 1 .. Len(L), p < q
                 PROVE  dev'[L[p]].id < dev'[L[q]].id
    BY Zenon DEF Ordered, L, Id
  <2>3. CASE p < n /\ q < n
    <3>1. p \in 1 .. n - 1 /\ q \in 1 .. n - 1
          /\ p \in 1 .. Len(ndev_list) /\ q \in 1 .. Len(ndev_list)
      BY <2>0, <2>2, <2>3
    <3>2. Id(ndev_list[p]) < Id(ndev_list[q])
      BY <3>1, <2>2, <1>0, Zenon DEF Ordered
    <3>3. dev'[L[p]].id = Id(ndev_list[p]) /\ dev'[L[q]].id = Id(ndev_list[q])
      BY <3>1, <2>1, <1>4, <2>3
    <3>. QED  BY <3>2, <3>3, Zenon
  <2>4. CASE p < n /\ q = n
    <3>1. p \in 1 .. n - 1
      BY <2>0, <2>2, <2>4
    <3>2. dev'[L[p]].id = Id(ndev_list[p]) /\ dev'[L[q]].id = id
      BY <3>1, <2>1, <1>4, <2>4
    <3>. QED  BY <3>1, <3>2, <1>3, Zenon
  <2>5. CASE p < n /\ q > n
    <3>1. p \in 1 .. n - 1 /\ p \in 1 .. Len(ndev_list) /\ q - 1 \in n .. Len(ndev_list)
          /\ q \in n + 1 .. Len(ndev_list) + 1 /\ q - 1 \in 1 .. Len(ndev_list) /\ p < q - 1
      BY <2>0, <2>2, <2>5
    <3>2. Id(ndev_list[p]) < Id(ndev_list[q - 1])
      BY <3>1, <1>0, Zenon DEF Ordered
    <3>3. dev'[L[p]].id = Id(ndev_list[p]) /\ dev'[L[q]].id = Id(ndev_list[q - 1])
      BY <3>1, <2>1, <1>4, <2>5
    <3>. QED  BY <3>2, <3>3, Zenon
  <2>6. CASE p = n
    <3>1. q \in n + 1 .. Len(ndev_list) + 1 /\ q - 1 \in n .. Len(ndev_list)
      BY <2>0, <2>2, <2>6
    <3>2. dev'[L[p]].id = id /\ dev'[L[q]].id = Id(ndev_list[q - 1])
      BY <3>1, <2>1, <1>4, <2>6
    <3>. QED  BY <3>1, <3>2, <1>3, Zenon
  <2>7. CASE p > n
    <3>1. /\ p \in n + 1 .. Len(ndev_list) + 1 /\ q \in n + 1 .. Len(ndev_list) + 1
          /\ p - 1 \in 1 .. Len(ndev_list) /\ q - 1 \in 1 .. Len(ndev_list) /\ p - 1 < q - 1
      BY <2>0, <2>2, <2>7
    <3>2. Id(ndev_list[p - 1]) < Id(ndev_list[q - 1])
      BY <3>1, <1>0, Zenon DEF Ordered
    <3>3. dev'[L[p]].id = Id(ndev_list[p - 1]) /\ dev'[L[q]].id = Id(ndev_list[q - 1])
      BY <3>1, <2>1, <1>4, <2>7
    <3>. QED  BY <3>2, <3>3, Zenon
  <2>. QED  BY <2>0, <2>2, <2>3, <2>4, <2>5, <2>6, <2>7
<1>10. Members'
  <2>1. SUFFICES ASSUME NEW e \in Devs
                 PROVE  dev'[e].st = "listed" <=> \E i \in 1 .. Len(L) : L[i] = e
    BY Zenon DEF Members, L
  <2>2. CASE e = d
    <3>1. n \in 1 .. Len(L)
      BY <1>0, <1>4
    <3>. QED  BY <3>1, <2>2, <1>4, <1>5, Zenon
  <2>3. CASE e # d
    <3>1. dev'[e].st = "listed" <=> dev[e].st = "listed"
      BY <2>3, <1>5, Zenon
    <3>2. dev[e].st = "listed" <=> \E m \in 1 .. Len(ndev_list) : ndev_list[m] = e
      BY <1>0, Zenon DEF Members
    <3>3. (\E m \in 1 .. Len(ndev_list) : ndev_list[m] = e) => \E i \in 1 .. Len(L) : L[i] = e
      BY <1>8, Zenon
    <3>4. (\E i \in 1 .. Len(L) : L[i] = e) => \E m \in 1 .. Len(ndev_list) : ndev_list[m] = e
      BY <2>3, <1>4, <1>7, Zenon
    <3>. QED  BY <3>1, <3>2, <3>3, <3>4, Zenon
  <2>. QED  BY <2>2, <2>3
<1>11. \A i \in 1 .. Len(L) : dev'[L[i]].id <= id \/ dev'[L[i]].id <= Reach
  <2>1. \A m \in 1 .. Len(ndev_list) : Id(ndev_list[m]) <= Reach
    BY <1>0, Zenon DEF Reached
  <2>2. \A i \in 1 .. Len(L) : i # n => dev'[L[i]].id <= Reach
    <3>1. SUFFICES ASSUME NEW i \in 1 .. Len(L), i # n  PROVE dev'[L[i]].id <= Reach
      BY Zenon
    <3>2. PICK m \in 1 .. Len(ndev_list) : L[i] = ndev_list[m]
      BY <3>1, <1>7, Zenon
    <3>3. L[i] \in Devs \ {d} /\ Id(L[i]) <= Reach
      BY <3>1, <3>2, <2>1, <1>7, Zenon
    <3>4. dev'[L[i]].id = Id(L[i])
      BY <3>3, <1>5, Zenon
    <3>. QED  BY <3>3, <3>4, Zenon
  <2>3. dev'[L[n]].id <= id
    BY <1>3, <1>4, <1>5
  <2>. QED  BY <2>2, <2>3
<1>12. ASSUME NEW t, NEW m \in Nat, Copy(t, m), m >= ndev_max, m > id, Write(t, id, d),
              UNCHANGED failures
       PROVE  NetType' /\ TableOK' /\ Reached'
  <2>1. id \in 0 .. m - 1
    BY <1>3, <1>12
  <2>2. /\ overrun' = FALSE
        /\ ndevs' \in [0 .. m - 1 -> Devs \cup {NULL}] /\ ndev_max' = m
        /\ ndevs'[id] = d
        /\ \A i \in 0 .. m - 1 : i # id /\ ndevs'[i] # NULL =>
              i \in DOMAIN ndevs /\ ndevs'[i] = ndevs[i]
    BY <1>0, <1>12, <2>1, WriteFacts, Zenon
  <2>3. NetType'
    BY <2>2, <1>0, <1>4, <1>5, <1>12 DEF NetType, L
  <2>4. TableOK'
    <3>1. SUFFICES ASSUME NEW i \in 0 .. m - 1, ndevs'[i] # NULL
                   PROVE  dev'[ndevs'[i]].st = "listed" /\ dev'[ndevs'[i]].id = i
      BY <2>2, Zenon DEF TableOK, Id
    <3>2. CASE i = id
      BY <3>2, <2>2, <1>5, Zenon
    <3>3. CASE i # id
      <4>1. i \in DOMAIN ndevs /\ ndevs'[i] = ndevs[i] /\ ndevs[i] \in Devs
            /\ dev[ndevs[i]].st = "listed" /\ Id(ndevs[i]) = i
        BY <3>1, <3>3, <2>2, <1>0 DEF TableOK
      <4>2. ndevs[i] # d
        BY <4>1, <1>1
      <4>. QED  BY <4>1, <4>2, <1>5, Zenon DEF Id
    <3>. QED  BY <3>2, <3>3
  <2>5. Reached'
    <3>1. Reach' \in Nat /\ Reach <= Reach' /\ id <= Reach'
      BY <2>2, <1>0, <1>3, <1>12 DEF Reach
    <3>2. \A i \in 1 .. Len(L) : L[i] \in Devs
      BY <1>4, LenProperties, ElementOfSeq
    <3>3. \A i \in 1 .. Len(L) : dev'[L[i]].id \in Nat
      BY <3>2, <1>5, <2>3 DEF NetType, Id, DevType
    <3>4. \A i \in 1 .. Len(L) : dev'[L[i]].id <= Reach'
      <4>1. SUFFICES ASSUME NEW i \in 1 .. Len(L)  PROVE dev'[L[i]].id <= Reach'
        BY Zenon
      <4>2. dev'[L[i]].id \in Nat /\ (dev'[L[i]].id <= id \/ dev'[L[i]].id <= Reach)
        BY <3>3, <1>11, Zenon
      <4>. QED  BY <4>2, <3>1, <1>3
    <3>. QED  BY <3>4, Zenon DEF Reached, L, Id
  <2>. QED  BY <2>3, <2>4, <2>5
<1>13. CASE InTable(NextId(n)) /\ Write(ndevs, NextId(n), d) /\ UNCHANGED failures
  <2>1. Copy(ndevs, ndev_max) /\ ndev_max \in Nat /\ ndev_max > id /\ ndev_max >= ndev_max
    BY <1>13, <1>0, <1>3, TableCopies, WriteInTable DEF id, InTable
  <2>2. NetType' /\ TableOK' /\ Reached'
    BY <2>1, <1>12, <1>13, Zenon DEF id
  <2>. QED  BY <2>2, <1>9, <1>10, Zenon DEF NetInv
<1>14. CASE ~InTable(NextId(n)) /\ Write(Grown, NextId(n), d) /\ UNCHANGED failures
  <2>1. Copy(Grown, ndev_max + NDEVS_CHUNK)
    BY <1>0, TableCopies
  <2>2. id \in 0 .. ndev_max + NDEVS_CHUNK - 1
    BY <1>0, <1>3, WriteInTable
  <2>3. ndev_max + NDEVS_CHUNK \in Nat /\ ndev_max + NDEVS_CHUNK > id
        /\ ndev_max + NDEVS_CHUNK >= ndev_max
    BY <1>0, <2>2
  <2>4. NetType' /\ TableOK' /\ Reached'
    BY <2>1, <2>3, <1>12, <1>14, Zenon DEF id
  <2>. QED  BY <2>4, <1>9, <1>10, Zenon DEF NetInv
<1>15. CASE /\ ~InTable(NextId(n)) /\ failures < MAX_FAILURES
            /\ failures' = failures + 1
            /\ UNCHANGED <<ndevs, overrun>>
  <2>1. ndev_max' = ndev_max /\ ndevs' = ndevs /\ overrun' = overrun
    BY <1>15, Zenon DEF ndev_max
  <2>2. NetType'
    BY <2>1, <1>0, <1>4, <1>5, <1>15 DEF NetType, L
  <2>3. TableOK'
    <3>1. SUFFICES ASSUME NEW i \in DOMAIN ndevs, ndevs[i] # NULL
                   PROVE  dev'[ndevs[i]].st = "listed" /\ dev'[ndevs[i]].id = i
      BY <2>1, Zenon DEF TableOK, Id
    <3>2. ndevs[i] \in Devs /\ dev[ndevs[i]].st = "listed" /\ Id(ndevs[i]) = i
      BY <3>1, <1>0 DEF TableOK
    <3>3. ndevs[i] # d
      BY <3>2, <1>1
    <3>. QED  BY <3>2, <3>3, <1>5, Zenon DEF Id
  <2>4. Reached'
    <3>1. Reach' = Reach + 1
      BY <2>1, <1>0, <1>15 DEF Reach
    <3>2. \A i \in 1 .. Len(L) : L[i] \in Devs
      BY <1>4, LenProperties, ElementOfSeq
    <3>3. \A i \in 1 .. Len(L) : dev'[L[i]].id \in Nat
      BY <3>2, <1>5, <2>2 DEF NetType, Id, DevType
    <3>4. \A i \in 1 .. Len(L) : dev'[L[i]].id <= Reach'
      <4>1. SUFFICES ASSUME NEW i \in 1 .. Len(L)  PROVE dev'[L[i]].id <= Reach'
        BY Zenon
      <4>2. dev'[L[i]].id \in Nat /\ (dev'[L[i]].id <= id \/ dev'[L[i]].id <= Reach)
        BY <3>3, <1>11, Zenon
      <4>. QED  BY <4>2, <3>1, <1>3
    <3>. QED  BY <3>4, Zenon DEF Reached, L, Id
  <2>. QED  BY <2>2, <2>3, <2>4, <1>9, <1>10, Zenon DEF NetInv
<1>. QED  BY <1>2, <1>13, <1>14, <1>15, Zenon

-----------------------------------------------------------------------------
(* The other steps of the interfaces. *)

(* The interface that is taken out of the list and of the table.           *)
LEMMA DestroyStep ==
    ASSUME NetInv, NEW id, bkn_knet_netif_destroy(id)
    PROVE  NetInv'
<1>0. /\ NetType /\ Ordered /\ Members /\ TableOK /\ Reached
      /\ dev \in [Devs -> DevType] /\ ndev_list \in Seq(Devs)
      /\ Len(ndev_list) \in Nat /\ DOMAIN ndev_list = 1 .. Len(ndev_list)
      /\ \A n \in 1 .. Len(ndev_list) : ndev_list[n] \in Devs
      /\ \A e \in Devs : dev[e] \in DevType /\ Id(e) \in Nat
      /\ ndev_max \in Nat /\ ndevs \in [0 .. ndev_max - 1 -> Devs \cup {NULL}]
      /\ DOMAIN ndevs = 0 .. ndev_max - 1
  BY NetFacts, Zenon DEF NetInv
<1>1. PICK n \in 1 .. Len(ndev_list) :
          /\ Id(ndev_list[n]) = id
          /\ ndev_list' = RemoveAt(ndev_list, n)
          /\ ndevs' = IF id < ndev_max THEN [ndevs EXCEPT ![id] = NULL] ELSE ndevs
          /\ dev' = [dev EXCEPT ![ndev_list[n]].st = "unlinked",
                                ![ndev_list[n]].wait = h.pc # "idle"]
  BY <1>0, Zenon DEF bkn_knet_netif_destroy
<1> DEFINE d == ndev_list[n]
           L == ndev_list'
<1>2. d \in Devs /\ Id(d) = id /\ id \in Nat
  BY <1>0, <1>1
<1>3. overrun' = overrun /\ failures' = failures
  BY Zenon DEF bkn_knet_netif_destroy
<1>4. /\ L \in Seq(Devs) /\ Len(L) = Len(ndev_list) - 1
      /\ \A i \in 1 .. n - 1 : L[i] = ndev_list[i]
      /\ \A i \in n .. Len(ndev_list) - 1 : L[i] = ndev_list[i + 1]
  <2>1. L = RemoveAt(ndev_list, n)
    BY <1>1
  <2> HIDE DEF L
  <2>2. L \in Seq(Devs) /\ Removed(L, ndev_list, n)
    BY <2>1, <1>0, RemoveAtProperties, Zenon
  <2>. QED  BY <2>2, Zenon DEF Removed
<1>5. /\ dev' \in [Devs -> DevType] /\ dev'[d].st = "unlinked"
      /\ \A e \in Devs \ {d} : dev'[e] = dev[e] /\ dev'[e].id = Id(e)
  <2> HIDE DEF d
  <2> DEFINE w == h.pc # "idle"
  <2>1. dev' = [dev EXCEPT ![d] = [dev[d] EXCEPT !.st = "unlinked", !.wait = w]]
    BY <1>1, Zenon DEF d
  <2>2. w \in BOOLEAN
    OBVIOUS
  <2> HIDE DEF w
  <2>3. [dev[d] EXCEPT !.st = "unlinked", !.wait = w] \in DevType
    BY <1>0, <1>2, <2>2 DEF DevType
  <2>4. [dev[d] EXCEPT !.st = "unlinked", !.wait = w].st = "unlinked"
    BY <1>0, <1>2 DEF DevType
  <2>. QED  BY <1>0, <1>2, <2>1, <2>3, <2>4, Zenon DEF Id
<1>6. \A m \in 1 .. Len(ndev_list) : m # n => ndev_list[m] \in Devs \ {d}
  <2>1. SUFFICES ASSUME NEW m \in 1 .. Len(ndev_list), m # n
                 PROVE  Id(ndev_list[m]) # Id(d)
    BY <1>0, Zenon
  <2>2. m < n \/ n < m
    BY <2>1, <1>0
  <2>3. Id(ndev_list[m]) \in Nat /\ Id(d) \in Nat
    BY <1>0, <1>2, Zenon
  <2>4. Id(ndev_list[m]) < Id(d) \/ Id(d) < Id(ndev_list[m])
    BY <2>2, <1>0, Zenon DEF Ordered
  <2>. QED  BY <2>3, <2>4
<1> HIDE DEF d, L
(* Where an element of the list is in the new one, and the other way round. *)
<1>7. \A i \in 1 .. Len(L) : /\ L[i] \in Devs \ {d}
                             /\ \E m \in 1 .. Len(ndev_list) : L[i] = ndev_list[m]
  <2>1. \A i \in 1 .. n - 1 : i \in 1 .. Len(ndev_list) /\ i # n
    BY <1>0
  <2>2. \A i \in n .. Len(ndev_list) - 1 : i + 1 \in 1 .. Len(ndev_list) /\ i + 1 # n
    BY <1>0
  <2>3. \A i \in 1 .. Len(L) : i \in 1 .. n - 1 \/ i \in n .. Len(ndev_list) - 1
    BY <1>0, <1>4
  <2>. QED  BY <1>4, <1>6, <2>1, <2>2, <2>3, Zenon
<1>8. \A m \in 1 .. Len(ndev_list) : m # n => \E i \in 1 .. Len(L) : L[i] = ndev_list[m]
  <2>1. SUFFICES ASSUME NEW m \in 1 .. Len(ndev_list), m # n
                 PROVE  \E i \in 1 .. Len(L) : L[i] = ndev_list[m]
    OBVIOUS
  <2>2. CASE m < n
    <3>1. m \in 1 .. n - 1 /\ m \in 1 .. Len(L)
      BY <1>0, <1>4, <2>2
    <3>. QED  BY <3>1, <1>4, Zenon
  <2>3. CASE n < m
    <3>1. m - 1 \in n .. Len(ndev_list) - 1 /\ m - 1 \in 1 .. Len(L) /\ (m - 1) + 1 = m
      BY <1>0, <1>4, <2>3
    <3>2. L[m - 1] = ndev_list[m]
      BY <3>1, <1>4
    <3>. QED  BY <3>1, <3>2, Zenon
  <2>. QED  BY <2>1, <2>2, <2>3, <1>0
<1>9. Ordered'
  <2>1. \A i \in 1 .. Len(L) : dev'[L[i]].id = Id(L[i])
    BY <1>5, <1>7, Zenon
  <2>2. SUFFICES ASSUME NEW p \in 1 .. Len(L), NEW q \in 1 .. Len(L), p < q
                 PROVE  Id(L[p]) < Id(L[q])
    BY <2>1, Zenon DEF Ordered, L, Id
  <2> DEFINE At(i) == IF i < n THEN i ELSE i + 1
  <2>3. \A i \in 1 .. Len(L) : At(i) \in 1 .. Len(ndev_list) /\ L[i] = ndev_list[At(i)]
    <3>1. SUFFICES ASSUME NEW i \in 1 .. Len(L)
                   PROVE  At(i) \in 1 .. Len(ndev_list) /\ L[i] = ndev_list[At(i)]
      OBVIOUS
    <3>2. i < n => i \in 1 .. n - 1 /\ i \in 1 .. Len(ndev_list)
      BY <1>0, <1>4
    <3>3. ~(i < n) => i \in n .. Len(ndev_list) - 1 /\ i + 1 \in 1 .. Len(ndev_list)
      BY <1>0, <1>4
    <3>. QED  BY <3>2, <3>3, <1>4, Zenon
  <2>4. At(p) < At(q)
    BY <2>2, <1>0, <1>4
  <2> HIDE DEF At
  <2>. QED  BY <2>3, <2>4, <1>0, Zenon DEF Ordered
<1>10. Members'
  <2>1. SUFFICES ASSUME NEW e \in Devs
                 PROVE  dev'[e].st = "listed" <=> \E i \in 1 .. Len(L) : L[i] = e
    BY Zenon DEF Members, L
  <2>2. CASE e = d
    <3>1. dev'[e].st # "listed"
      BY <2>2, <1>5
    <3>2. ~ \E i \in 1 .. Len(L) : L[i] = e
      BY <2>2, <1>7, Zenon
    <3>. QED  BY <3>1, <3>2, Zenon
  <2>3. CASE e # d
    <3>1. dev'[e].st = "listed" <=> dev[e].st = "listed"
      BY <2>3, <1>5, Zenon
    <3>2. dev[e].st = "listed" <=> \E m \in 1 .. Len(ndev_list) : ndev_list[m] = e
      BY <1>0, Zenon DEF Members
    <3>3. (\E m \in 1 .. Len(ndev_list) : ndev_list[m] = e) => \E i \in 1 .. Len(L) : L[i] = e
      BY <2>3, <1>8, Zenon DEF d
    <3>4. (\E i \in 1 .. Len(L) : L[i] = e) => \E m \in 1 .. Len(ndev_list) : ndev_list[m] = e
      BY <1>7, Zenon
    <3>. QED  BY <3>1, <3>2, <3>3, <3>4, Zenon
  <2>. QED  BY <2>2, <2>3
<1>11. /\ ndevs' \in [0 .. ndev_max - 1 -> Devs \cup {NULL}] /\ ndev_max' = ndev_max
       /\ \A i \in 0 .. ndev_max - 1 : ndevs'[i] # NULL => i # id /\ ndevs'[i] = ndevs[i]
  <2>1. CASE id < ndev_max
    <3>1. id \in 0 .. ndev_max - 1 /\ ndevs' = [ndevs EXCEPT ![id] = NULL]
      BY <2>1, <1>0, <1>1, <1>2
    <3>2. /\ ndevs' \in [0 .. ndev_max - 1 -> Devs \cup {NULL}]
          /\ DOMAIN ndevs' = 0 .. ndev_max - 1
          /\ \A i \in 0 .. ndev_max - 1 : ndevs'[i] # NULL => i # id /\ ndevs'[i] = ndevs[i]
      BY <3>1, <1>0
    <3>. QED  BY <3>2, <1>0, TableSize, Zenon DEF ndev_max
  <2>2. CASE ~(id < ndev_max)
    <3>1. ndevs' = ndevs
      BY <2>2, <1>1, Zenon
    <3>2. \A i \in 0 .. ndev_max - 1 : i # id
      BY <2>2, <1>0, <1>2
    <3>. QED  BY <3>1, <3>2, <1>0, Zenon DEF ndev_max
  <2>. QED  BY <2>1, <2>2
<1>12. NetType'
  BY <1>0, <1>3, <1>4, <1>5, <1>11 DEF NetType, L
<1>13. TableOK'
  <2>1. SUFFICES ASSUME NEW i \in 0 .. ndev_max - 1, ndevs'[i] # NULL
                 PROVE  dev'[ndevs'[i]].st = "listed" /\ dev'[ndevs'[i]].id = i
    BY <1>11, Zenon DEF TableOK, Id
  <2>2. i # id /\ ndevs'[i] = ndevs[i] /\ ndevs[i] # NULL
    BY <2>1, <1>11, Zenon
  <2>3. ndevs[i] \in Devs /\ dev[ndevs[i]].st = "listed" /\ Id(ndevs[i]) = i
    BY <2>2, <1>0 DEF TableOK
  <2>4. ndevs[i] # d
    BY <2>2, <2>3, <1>2
  <2>. QED  BY <2>2, <2>3, <2>4, <1>5, Zenon
<1>14. Reached'
  <2>1. Reach' = Reach
    BY <1>3, <1>11, Zenon DEF Reach
  <2>2. SUFFICES ASSUME NEW i \in 1 .. Len(L)  PROVE dev'[L[i]].id <= Reach
    BY <2>1, Zenon DEF Reached, L, Id
  <2>3. PICK m \in 1 .. Len(ndev_list) : L[i] = ndev_list[m]
    BY <1>7, Zenon
  <2>4. Id(L[i]) <= Reach
    BY <2>3, <1>0, Zenon DEF Reached
  <2>. QED  BY <2>4, <1>5, <1>7, Zenon
<1>. QED  BY <1>9, <1>10, <1>12, <1>13, <1>14, Zenon DEF NetInv

(* The list and the table stay, and an interface in the list keeps its id. *)
LEMMA OtherNetStep ==
    ASSUME NetInv, UNCHANGED <<ndev_list, ndevs, overrun, failures>>,
           dev' \in [Devs -> DevType],
           \A d \in Devs : /\ dev[d].st = "listed" <=> dev'[d].st = "listed"
                           /\ dev[d].st = "listed" => dev'[d].id = dev[d].id
    PROVE  NetInv'
<1>0. /\ NetType /\ Ordered /\ Members /\ TableOK /\ Reached
      /\ Len(ndev_list) \in Nat
      /\ \A n \in 1 .. Len(ndev_list) : ndev_list[n] \in Devs
      /\ ndevs \in [0 .. ndev_max - 1 -> Devs \cup {NULL}]
      /\ DOMAIN ndevs = 0 .. ndev_max - 1
  BY NetFacts, Zenon DEF NetInv
<1>1. /\ ndev_list' = ndev_list /\ ndevs' = ndevs /\ overrun' = overrun
      /\ failures' = failures /\ ndev_max' = ndev_max /\ Reach' = Reach
  BY Zenon DEF ndev_max, Reach
<1>2. NetType'
  BY <1>0, <1>1, Zenon DEF NetType
<1>3. \A n \in 1 .. Len(ndev_list) : dev'[ndev_list[n]].id = Id(ndev_list[n])
  BY <1>0, Zenon DEF Members, Id
<1>4. Ordered' /\ Reached'
  BY <1>0, <1>1, <1>3, Zenon DEF Ordered, Reached, Id
<1>5. Members'
  BY <1>0, <1>1, Zenon DEF Members
<1>6. TableOK'
  <2>1. SUFFICES ASSUME NEW i \in DOMAIN ndevs, ndevs[i] # NULL
                 PROVE  dev'[ndevs[i]].st = "listed" /\ dev'[ndevs[i]].id = i
    BY <1>1, Zenon DEF TableOK, Id
  <2>2. ndevs[i] \in Devs /\ dev[ndevs[i]].st = "listed" /\ dev[ndevs[i]].id = i
    BY <2>1, <1>0 DEF TableOK, Id
  <2>. QED  BY <2>2, Zenon
<1>. QED  BY <1>2, <1>4, <1>5, <1>6, Zenon DEF NetInv

-----------------------------------------------------------------------------
(* What a command does to the record of one interface: r is the new one.   *)
Becomes(d, r) == dev' = [dev EXCEPT ![d] = r]

LEMMA DevStep ==
    ASSUME NetType, NEW d \in Devs, NEW r \in DevType, Becomes(d, r)
    PROVE  /\ dev' \in [Devs -> DevType] /\ dev'[d] = r
           /\ \A e \in Devs \ {d} : dev'[e] = dev[e]
BY Zenon DEF Becomes, NetType

LEMMA HandlerStep ==
    ASSUME HandlerInv, UNCHANGED h,
           h.pc # "idle" => \A d \in Devs : Alive(d) => Alive(d)'
    PROVE  HandlerInv'
<1>1. CASE h.pc = "idle"
  BY <1>1, Zenon DEF HandlerInv
<1>2. CASE h.pc # "idle"
  <2>1. \A d \in {h.mskb, h.skb} \ {NULL} : d \in Devs /\ Alive(d)
    BY DEF HandlerInv
  <2>2. \A d \in {h.mskb, h.skb} \ {NULL} : Alive(d)'
    BY <1>2, <2>1, Zenon
  <2>. QED  BY <1>2, <2>2, Zenon DEF HandlerInv
<1>. QED  BY <1>1, <1>2

(* The commands that neither list an interface nor take it from the list.  *)
LEMMA QuietDevStep ==
    ASSUME NetInv, HandlerInv, NEW d \in Devs, NEW r \in DevType, Becomes(d, r),
           UNCHANGED <<ndev_list, ndevs, overrun, failures, h>>,
           dev[d].st = "listed" <=> r.st = "listed",
           dev[d].st = "listed" => r.id = dev[d].id,
           dev[d].st # "listed" => ~Alive(d)
    PROVE  NetInv' /\ HandlerInv'
<1>0. NetType
  BY DEF NetInv
<1>1. /\ dev' \in [Devs -> DevType] /\ dev'[d] = r
      /\ \A e \in Devs \ {d} : dev'[e] = dev[e]
  BY <1>0, DevStep, Zenon
<1>2. NetInv'
  <2>1. \A e \in Devs : /\ dev[e].st = "listed" <=> dev'[e].st = "listed"
                        /\ dev[e].st = "listed" => dev'[e].id = dev[e].id
    BY <1>1, Zenon
  <2>2. UNCHANGED <<ndev_list, ndevs, overrun, failures>>
    BY Zenon
  <2>. QED  BY <1>1, <2>1, <2>2, OtherNetStep, Zenon
<1>3. Alive(d) => Alive(d)'
  <2>1. Alive(d) => dev'[d].st = "listed"
    BY <1>1, Zenon
  <2>. QED  BY <2>1, Zenon DEF Alive
<1>4. \A e \in Devs \ {d} : Alive(e) => Alive(e)'
  BY <1>1, Zenon DEF Alive
<1>5. \A e \in Devs : Alive(e) => Alive(e)'
  BY <1>3, <1>4, Zenon
<1>. QED  BY <1>2, <1>5, HandlerStep, Zenon

LEMMA InitNdev ==
    ASSUME NetInv, HandlerInv, NEW d \in Devs, bkn_init_ndev(d)
    PROVE  NetInv' /\ HandlerInv'
<1> DEFINE r == [NoDev EXCEPT !.st = "registered", !.carrier = TRUE]
<1>1. r \in DevType /\ r.st = "registered"
  BY DEF NoDev, DevType
<1>2. Becomes(d, r) /\ dev[d].st = "none" /\ UNCHANGED <<ndev_list, ndevs, overrun, failures, h>>
  BY Zenon DEF bkn_init_ndev, Becomes
<1> HIDE DEF r
<1>3. dev[d].st # "listed" /\ ~Alive(d) /\ r.st # "listed"
  BY <1>1, <1>2 DEF Alive
<1>. QED  BY <1>1, <1>2, <1>3, QuietDevStep, Zenon

LEMMA FillPrivStep ==
    ASSUME NetInv, HandlerInv, NEW d \in Devs, FillPriv(d)
    PROVE  NetInv' /\ HandlerInv'
<1> DEFINE r == [dev[d] EXCEPT !.st = "filled"]
<1>1. r \in DevType /\ r.st = "filled"
  BY NetFacts DEF NetInv, DevType
<1>2. Becomes(d, r) /\ dev[d].st = "registered"
      /\ UNCHANGED <<ndev_list, ndevs, overrun, failures, h>>
  BY Zenon DEF FillPriv, Becomes
<1> HIDE DEF r
<1>3. dev[d].st # "listed" /\ ~Alive(d) /\ r.st # "listed"
  BY <1>1, <1>2 DEF Alive
<1>. QED  BY <1>1, <1>2, <1>3, QuietDevStep, Zenon

(* An interface that is freed is one that no handler uses.                 *)
LEMMA UnregisterStep ==
    ASSUME NetInv, HandlerInv, NEW d \in Devs, unregister_netdev(d)
    PROVE  NetInv' /\ HandlerInv'
<1>1. NoDev \in DevType /\ NoDev.st = "none"
  BY DEF NoDev, DevType
<1>2. Becomes(d, NoDev) /\ dev[d].st = "unlinked" /\ ~dev[d].wait
      /\ UNCHANGED <<ndev_list, ndevs, overrun, failures, h>>
  BY Zenon DEF unregister_netdev, Becomes
<1>3. dev[d].st # "listed" /\ NoDev.st # "listed"
  BY <1>1, <1>2
<1>4. ~Alive(d)
  BY <1>2, <1>3, Zenon DEF Alive
<1>. QED  BY <1>1, <1>2, <1>3, <1>4, QuietDevStep, Zenon

LEMMA LinkStep ==
    ASSUME NetInv, HandlerInv, NEW d \in Devs, NEW up \in BOOLEAN, bkn_proc_link_write(d, up)
    PROVE  NetInv' /\ HandlerInv'
<1> DEFINE r == [dev[d] EXCEPT !.carrier = up]
<1>0. NetType /\ Members
  BY DEF NetInv
<1>1. r \in DevType /\ r.st = dev[d].st /\ r.id = dev[d].id
  BY <1>0, NetFacts DEF DevType
<1>2. Becomes(d, r) /\ d \in Range(ndev_list)
      /\ UNCHANGED <<ndev_list, ndevs, overrun, failures, h>>
  BY Zenon DEF bkn_proc_link_write, Becomes
<1> HIDE DEF r
<1>3. dev[d].st = "listed" /\ r.st = "listed" /\ r.id = dev[d].id
  BY <1>0, <1>1, <1>2, ListRange, Zenon DEF Members
<1>. QED  BY <1>1, <1>2, <1>3, QuietDevStep, Zenon

LEMMA CreateHandler ==
    ASSUME NetInv, HandlerInv, NEW d \in Devs, bkn_knet_netif_create(d)
    PROVE  HandlerInv'
<1>0. NetType
  BY DEF NetInv
<1>1. dev[d].st = "filled" /\ UNCHANGED h
  BY Zenon DEF bkn_knet_netif_create
<1>2. PICK id : dev' = [dev EXCEPT ![d].st = "listed", ![d].id = id]
  BY Zenon DEF bkn_knet_netif_create
<1>3. \A e \in Devs \ {d} : dev'[e] = dev[e]
  BY <1>0, <1>2, Zenon DEF NetType
<1>4. ~Alive(d)
  BY <1>1 DEF Alive
<1>5. \A e \in Devs : Alive(e) => Alive(e)'
  BY <1>3, <1>4, Zenon DEF Alive
<1>. QED  BY <1>1, <1>5, HandlerStep, Zenon

(* An interface that is destroyed waits for the handler, if there is one.  *)
LEMMA DestroyHandler ==
    ASSUME NetInv, HandlerInv, NEW id, bkn_knet_netif_destroy(id)
    PROVE  HandlerInv'
<1>0. NetType
  BY DEF NetInv
<1>1. PICK n \in DOMAIN ndev_list :
          dev' = [dev EXCEPT ![ndev_list[n]].st = "unlinked",
                             ![ndev_list[n]].wait = h.pc # "idle"]
  BY Zenon DEF bkn_knet_netif_destroy
<1> DEFINE d == ndev_list[n]
           w == h.pc # "idle"
           r == [dev[d] EXCEPT !.st = "unlinked", !.wait = w]
<1>2. d \in Devs /\ dev[d] \in DevType
  BY <1>0, NetFacts
<1>3. w \in BOOLEAN /\ (h.pc # "idle" => w)
  OBVIOUS
<1>4. UNCHANGED h
  BY Zenon DEF bkn_knet_netif_destroy
<1> HIDE DEF d
<1>5. dev' = [dev EXCEPT ![d] = r]
  BY <1>1, Zenon DEF d
<1> HIDE DEF w
<1>6. r.st = "unlinked" /\ (r.wait <=> w)
  BY <1>2, <1>3 DEF DevType
<1> HIDE DEF r
<1>7. dev'[d] = r /\ \A e \in Devs \ {d} : dev'[e] = dev[e]
  BY <1>0, <1>2, <1>5, Zenon DEF NetType
<1>8. h.pc # "idle" => \A e \in Devs : Alive(e) => Alive(e)'
  BY <1>3, <1>6, <1>7, Zenon DEF Alive
<1>. QED  BY <1>4, <1>8, HandlerStep, Zenon

-----------------------------------------------------------------------------
(* The steps of the handler. *)

LEMMA UpDevAlive ==
    ASSUME NetInv, NEW id
    PROVE  UpDev(id) \in Devs \cup {NULL} /\ (UpDev(id) # NULL => Alive(UpDev(id)))
<1>1. bkn_netif_lookup(id) # NULL =>
          bkn_netif_lookup(id) \in Devs /\ Alive(bkn_netif_lookup(id))
  <2>1. bkn_netif_lookup(id) # NULL =>
            bkn_netif_lookup(id) \in Devs /\ dev[bkn_netif_lookup(id)].st = "listed"
    BY Lookup, Zenon
  <2> DEFINE d == bkn_netif_lookup(id)
  <2> HIDE DEF d
  <2>2. dev[d].st = "listed" => Alive(d)
    BY Zenon DEF Alive
  <2>. QED  BY <2>1, <2>2, Zenon DEF d
<1>2. UpDev(id) = bkn_netif_lookup(id) \/ UpDev(id) = NULL
  BY Zenon DEF UpDev
<1> HIDE DEF UpDev
<1>. QED  BY <1>1, <1>2, Zenon

LEMMA ReceiveHandler ==
    ASSUME NetInv, HandlerInv, NEW chan, NEW pkt, bkn_do_skb_rx(chan, pkt)
    PROVE  HandlerInv'
<1>1. dev' = dev
  BY Zenon DEF bkn_do_skb_rx, netifs
<1>2. PICK f :
          LET d == UpDev(f.dest_id)
              m == IF f.mirror_type = "netif" THEN UpDev(f.mirror_id) ELSE NULL
          IN  /\ d # NULL
              /\ \/ h' = [pc |-> "deliver", mskb |-> NULL, skb |-> d]
                 \/ m # NULL /\ h' = [pc |-> "mirror", mskb |-> d, skb |-> m]
  BY Zenon DEF bkn_do_skb_rx
<1> DEFINE d == UpDev(f.dest_id)
           m == IF f.mirror_type = "netif" THEN UpDev(f.mirror_id) ELSE NULL
<1>3. d \in Devs /\ Alive(d)
  BY <1>2, UpDevAlive, Zenon
<1>4. m # NULL => m \in Devs /\ Alive(m)
  BY UpDevAlive, Zenon
<1>5. \/ h' = [pc |-> "deliver", mskb |-> NULL, skb |-> d]
      \/ m # NULL /\ h' = [pc |-> "mirror", mskb |-> d, skb |-> m]
  BY <1>2, Zenon
<1> HIDE DEF d, m
<1>6. \A e : Alive(e) => Alive(e)'
  BY <1>1, Zenon DEF Alive
<1>. QED  BY <1>3, <1>4, <1>5, <1>6 DEF HandlerInv

LEMMA MirroredHandler == ASSUME HandlerInv, Mirrored PROVE HandlerInv'
<1>1. dev' = dev /\ h.pc = "mirror"
  BY Zenon DEF Mirrored, netifs
<1>2. h' = [h EXCEPT !.pc = "deliver", !.mskb = NULL]
  BY Zenon DEF Mirrored
<1>3. \A e : Alive(e) => Alive(e)'
  BY <1>1, Zenon DEF Alive
<1>4. /\ h' \in [pc : {"idle", "mirror", "deliver"}, mskb : Devs \cup {NULL},
                 skb : Devs \cup {NULL}]
      /\ h'.pc = "deliver" /\ h'.mskb = NULL /\ h'.skb = h.skb
  BY <1>2 DEF HandlerInv
<1>. QED  BY <1>3, <1>4 DEF HandlerInv

(* Nobody waits for the handler any more.                                  *)
LEMMA DeliveredStep ==
    ASSUME NetInv, HandlerInv, Delivered
    PROVE  NetInv' /\ HandlerInv'
<1>0. NetType
  BY DEF NetInv
<1>1. /\ h' = HandlerIdle /\ dev' = [d \in Devs |-> [dev[d] EXCEPT !.wait = FALSE]]
      /\ UNCHANGED <<ndev_list, ndevs, overrun, failures>>
  BY Zenon DEF Delivered
<1>2. \A d \in Devs : /\ [dev[d] EXCEPT !.wait = FALSE] \in DevType
                      /\ [dev[d] EXCEPT !.wait = FALSE].st = dev[d].st
                      /\ [dev[d] EXCEPT !.wait = FALSE].id = dev[d].id
  BY <1>0, NetFacts DEF DevType
<1>3. dev' \in [Devs -> DevType]
  BY <1>1, <1>2, Zenon
<1>4. \A d \in Devs : dev'[d].st = dev[d].st /\ dev'[d].id = dev[d].id
  BY <1>1, <1>2, Zenon
<1>5. NetInv'
  BY <1>1, <1>3, <1>4, OtherNetStep, Zenon
<1>6. HandlerInv'
  <2>1. HandlerIdle.pc = "idle" /\ HandlerIdle.mskb = NULL /\ HandlerIdle.skb = NULL
        /\ HandlerIdle \in [pc : {"idle", "mirror", "deliver"}, mskb : Devs \cup {NULL},
                            skb : Devs \cup {NULL}]
    BY DEF HandlerIdle
  <2>2. \A d \in {h'.mskb, h'.skb} : d = NULL
    BY <1>1, <2>1
  <2>. QED  BY <1>1, <2>1, <2>2, Zenon DEF HandlerInv
<1>. QED  BY <1>5, <1>6

-----------------------------------------------------------------------------
(* The filters. *)

LEMMA FilterFacts ==
    ASSUME FilterInv
    PROVE  /\ rxpf_list \in Seq(FilterType) /\ Len(rxpf_list) \in Nat
           /\ DOMAIN rxpf_list = 1 .. Len(rxpf_list)
           /\ \A n \in 1 .. Len(rxpf_list) : /\ rxpf_list[n] \in FilterType
                                             /\ rxpf_list[n].priority \in Nat
                                             /\ rxpf_list[n].id \in 1 .. KCOM_FILTER_MAX - 1
<1>1. rxpf_list \in Seq(FilterType) /\ Len(rxpf_list) \in Nat
      /\ DOMAIN rxpf_list = 1 .. Len(rxpf_list)
      /\ \A n \in 1 .. Len(rxpf_list) : rxpf_list[n] \in FilterType
  BY LenProperties, ElementOfSeq DEF FilterInv
<1>2. \A f \in FilterType : f.priority \in Nat
  BY DEF FilterType
<1>. QED  BY <1>1, <1>2, Zenon DEF FilterInv

(* What FiltersInOrder says of one step.                                   *)
InOrder ==
    \A n \in DOMAIN rxpf_list' :
          LET f == rxpf_list'[n] IN
          /\ f \notin Range(rxpf_list) =>
                \A m \in DOMAIN rxpf_list' \ {n} :
                    m < n <=> rxpf_list'[m].priority <= f.priority
          /\ f \in Range(rxpf_list) =>
                \A m \in n + 1 .. Len(rxpf_list') :
                    LET g == rxpf_list'[m] IN
                    g \in Range(rxpf_list) =>
                       \E i, j \in DOMAIN rxpf_list :
                           i < j /\ rxpf_list[i] = f /\ rxpf_list[j] = g

LEMMA FilterCreateStep ==
    ASSUME FilterInv, NEW f \in FilterSpecs, bkn_knet_filter_create(f)
    PROVE  FilterInv' /\ InOrder
<1>0. /\ FilterInv /\ rxpf_list \in Seq(FilterType) /\ Len(rxpf_list) \in Nat
      /\ DOMAIN rxpf_list = 1 .. Len(rxpf_list)
      /\ \A n \in 1 .. Len(rxpf_list) : /\ rxpf_list[n] \in FilterType
                                        /\ rxpf_list[n].priority \in Nat
                                        /\ rxpf_list[n].id \in 1 .. KCOM_FILTER_MAX - 1
  BY FilterFacts, Zenon
<1>1. PICK id \in 1 .. KCOM_FILTER_MAX, n \in 1 .. Len(rxpf_list) + 1 :
          /\ FreeFilterId(id) /\ FilterPlace(f, n)
          /\ rxpf_list' = InsertAt(rxpf_list, n, [f EXCEPT !.id = id])
  BY Zenon DEF bkn_knet_filter_create
<1> DEFINE g == [f EXCEPT !.id = id]
           L == rxpf_list'
           N == Len(rxpf_list)
<1>2. g \in FilterType /\ g.id = id /\ g.priority = f.priority /\ f.priority \in Nat
      /\ id \in 1 .. KCOM_FILTER_MAX - 1
  <2>1. id \in 1 .. KCOM_FILTER_MAX - 1 /\ id \in Nat
    BY <1>1 DEF FreeFilterId
  <2>2. f \in FilterType
    OBVIOUS
  <2>3. g \in FilterType /\ g.id = id /\ g.priority = f.priority /\ f.priority \in Nat
    BY ONLY <2>1, <2>2 DEF FilterType
  <2>. QED  BY <2>1, <2>3
<1>3. /\ L \in Seq(FilterType) /\ Len(L) = N + 1
      /\ \A i \in 1 .. n - 1 : L[i] = rxpf_list[i]
      /\ L[n] = g
      /\ \A i \in n + 1 .. N + 1 : L[i] = rxpf_list[i - 1]
  <2>1. L = InsertAt(rxpf_list, n, g)
    BY <1>1
  <2> HIDE DEF L, g
  <2>2. L \in Seq(FilterType) /\ Inserted(L, rxpf_list, n, g)
    BY <2>1, <1>0, <1>2, InsertAtProperties, Zenon
  <2>. QED  BY <2>2, Zenon DEF Inserted
<1>4. g \notin Range(rxpf_list)
  <2>1. \A h1 \in Range(rxpf_list) : h1.id # id
    BY <1>1, Zenon DEF FreeFilterId, FilterIds
  <2>. QED  BY <2>1, <1>2, Zenon
<1> HIDE DEF g, L
(* Those before the place have a priority that is as low or lower, those   *)
(* behind it a higher one.                                                 *)
<1>5. \A m \in 1 .. n - 1 : m \in 1 .. N /\ rxpf_list[m].priority <= f.priority
  <2>1. SUFFICES ASSUME NEW m \in 1 .. n - 1
                 PROVE  m \in 1 .. N /\ rxpf_list[m].priority <= f.priority
    OBVIOUS
  <2>2. m \in 1 .. N /\ m <= N
    BY <1>0
  <2>3. ~(f.priority < rxpf_list[m].priority)
    BY <1>1, <2>2, Zenon DEF FilterPlace
  <2>4. rxpf_list[m].priority \in Nat
    BY <1>0, <2>2
  <2>. QED  BY <1>2, <2>2, <2>3, <2>4
<1>6. \A m \in n .. N : m \in 1 .. N /\ f.priority < rxpf_list[m].priority
  <2>1. SUFFICES ASSUME NEW m \in n .. N
                 PROVE  m \in 1 .. N /\ f.priority < rxpf_list[m].priority
    OBVIOUS
  <2>2. m \in 1 .. N /\ n \in 1 .. N /\ n <= N /\ (m = n \/ n < m)
    BY <1>0
  <2>3. f.priority < rxpf_list[n].priority
    BY <1>1, <2>2, Zenon DEF FilterPlace
  <2>4. n < m => rxpf_list[n].priority <= rxpf_list[m].priority
    BY <1>0, <2>2, Zenon DEF FilterInv
  <2>5. rxpf_list[m].priority \in Nat /\ rxpf_list[n].priority \in Nat
    BY <1>0, <2>2, Zenon
  <2>. QED  BY <1>2, <2>2, <2>3, <2>4, <2>5
<1> DEFINE At(i) == IF i < n THEN i ELSE i - 1
<1>7. \A i \in 1 .. N + 1 : i # n => At(i) \in 1 .. N /\ L[i] = rxpf_list[At(i)]
  <2>1. SUFFICES ASSUME NEW i \in 1 .. N + 1, i # n
                 PROVE  At(i) \in 1 .. N /\ L[i] = rxpf_list[At(i)]
    OBVIOUS
  <2>2. i < n => i \in 1 .. n - 1 /\ i \in 1 .. N
    BY <1>0
  <2>3. ~(i < n) => i \in n + 1 .. N + 1 /\ i - 1 \in 1 .. N
    BY <1>0, <2>1
  <2>. QED  BY <2>2, <2>3, <1>3, Zenon
<1>8. \A i, j \in 1 .. N + 1 : i # n /\ j # n /\ i < j => At(i) < At(j)
  BY <1>0
<1> HIDE DEF At
<1>9. \A i \in 1 .. N + 1 : i # n => /\ i < n => L[i].priority <= f.priority
                                     /\ n < i => f.priority < L[i].priority
  <2>1. SUFFICES ASSUME NEW i \in 1 .. N + 1, i # n
                 PROVE  /\ i < n => L[i].priority <= f.priority
                        /\ n < i => f.priority < L[i].priority
    OBVIOUS
  <2>2. i < n => i \in 1 .. n - 1
    BY <1>0
  <2>3. n < i => i \in n + 1 .. N + 1 /\ i - 1 \in n .. N
    BY <1>0
  <2>. QED  BY <2>2, <2>3, <1>3, <1>5, <1>6, Zenon
<1>10. \A i \in 1 .. N + 1 : L[i].priority \in Nat /\ L[i].id \in 1 .. KCOM_FILTER_MAX - 1
  BY <1>0, <1>2, <1>3, <1>7, Zenon
<1>11. FilterInv'
  <2>1. SUFFICES ASSUME NEW p \in 1 .. N + 1, NEW q \in 1 .. N + 1, p < q
                 PROVE  L[p].priority <= L[q].priority
    BY <1>3, <1>10, Zenon DEF FilterInv, L
  <2>2. CASE p # n /\ q # n
    <3>1. At(p) < At(q) /\ At(p) \in 1 .. N /\ At(q) \in 1 .. N
          /\ L[p] = rxpf_list[At(p)] /\ L[q] = rxpf_list[At(q)]
      BY <2>1, <2>2, <1>7, <1>8, Zenon
    <3>. QED  BY <3>1, <1>0, Zenon DEF FilterInv
  <2>3. CASE p = n
    <3>1. q # n /\ n < q /\ L[p].priority = f.priority
      BY <2>1, <2>3, <1>2, <1>3
    <3>2. f.priority < L[q].priority
      BY <3>1, <1>9, Zenon
    <3>. QED  BY <3>1, <3>2, <1>2, <1>10
  <2>4. CASE q = n
    <3>1. p # n /\ p < n /\ L[q].priority = f.priority
      BY <2>1, <2>4, <1>2, <1>3
    <3>2. L[p].priority <= f.priority
      BY <3>1, <1>9, Zenon
    <3>. QED  BY <3>1, <3>2, Zenon
  <2>. QED  BY <2>2, <2>3, <2>4
<1>12. InOrder
  <2>1. DOMAIN L = 1 .. N + 1 /\ Len(L) = N + 1
    BY <1>3, LenProperties
  <2>2. SUFFICES ASSUME NEW k \in DOMAIN L
                 PROVE  /\ L[k] \notin Range(rxpf_list) =>
                              \A m \in DOMAIN L \ {k} :
                                  m < k <=> L[m].priority <= L[k].priority
                        /\ L[k] \in Range(rxpf_list) =>
                              \A m \in k + 1 .. Len(L) :
                                  L[m] \in Range(rxpf_list) =>
                                     \E i, j \in DOMAIN rxpf_list :
                                         i < j /\ rxpf_list[i] = L[k] /\ rxpf_list[j] = L[m]
    BY Zenon DEF InOrder, L
  <2>k. k \in 1 .. N + 1
    BY <2>1
  <2>3. L[k] \in Range(rxpf_list) => k # n
    BY <1>3, <1>4, Zenon
  <2>4. k # n => L[k] \in Range(rxpf_list)
    BY <1>0, <1>7, <2>k, Zenon DEF Range
  <2>5. CASE k = n
    <3>1. L[k].priority = f.priority
      BY <2>5, <1>2, <1>3, Zenon
    <3>2. ASSUME NEW m \in DOMAIN L \ {k}
          PROVE  m < k <=> L[m].priority <= L[k].priority
      <4>1. m \in 1 .. N + 1 /\ m # k /\ L[m].priority \in Nat
        BY <1>10, <2>1
      <4>2. /\ m < n => L[m].priority <= f.priority
            /\ n < m => f.priority < L[m].priority
        BY <4>1, <2>5, <1>9, Zenon
      <4>. QED  BY <3>1, <4>1, <4>2, <2>5, <1>2
    <3>. QED  BY <3>2, <2>3, <2>5, Zenon
  <2>6. CASE k # n
    <3>1. ASSUME NEW m \in k + 1 .. Len(L), L[m] \in Range(rxpf_list)
          PROVE  \E i, j \in DOMAIN rxpf_list :
                     i < j /\ rxpf_list[i] = L[k] /\ rxpf_list[j] = L[m]
      <4>1. m \in 1 .. N + 1 /\ k < m
        BY <1>0, <2>1, <2>k
      <4>2. m # n
        BY <3>1, <1>3, <1>4, Zenon
      <4>3. At(k) < At(m) /\ At(k) \in 1 .. N /\ At(m) \in 1 .. N
            /\ L[k] = rxpf_list[At(k)] /\ L[m] = rxpf_list[At(m)]
        BY <2>6, <2>k, <4>1, <4>2, <1>7, <1>8, Zenon
      <4>. QED  BY <4>3, <1>0, Zenon
    <3>. QED  BY <3>1, <2>4, <2>6, Zenon
  <2>. QED  BY <2>5, <2>6
<1>. QED  BY <1>11, <1>12

LEMMA FilterDestroyStep ==
    ASSUME FilterInv, NEW id, bkn_knet_filter_destroy(id)
    PROVE  FilterInv' /\ InOrder
<1>0. /\ FilterInv /\ rxpf_list \in Seq(FilterType) /\ Len(rxpf_list) \in Nat
      /\ DOMAIN rxpf_list = 1 .. Len(rxpf_list)
      /\ \A n \in 1 .. Len(rxpf_list) : rxpf_list[n].id \in 1 .. KCOM_FILTER_MAX - 1
  BY FilterFacts, Zenon
<1>1. PICK n \in 1 .. Len(rxpf_list) : rxpf_list' = RemoveAt(rxpf_list, n)
  BY <1>0, Zenon DEF bkn_knet_filter_destroy
<1> DEFINE L == rxpf_list'
           N == Len(rxpf_list)
           At(i) == IF i < n THEN i ELSE i + 1
<1>2. /\ L \in Seq(FilterType) /\ Len(L) = N - 1 /\ DOMAIN L = 1 .. N - 1
      /\ \A i \in 1 .. n - 1 : L[i] = rxpf_list[i]
      /\ \A i \in n .. N - 1 : L[i] = rxpf_list[i + 1]
  <2>1. L = RemoveAt(rxpf_list, n)
    BY <1>1
  <2> HIDE DEF L
  <2>2. L \in Seq(FilterType) /\ Removed(L, rxpf_list, n)
    BY <2>1, <1>0, RemoveAtProperties, Zenon
  <2>3. DOMAIN L = 1 .. Len(L)
    BY <2>2, LenProperties, Zenon
  <2>. QED  BY <2>2, <2>3, Zenon DEF Removed
<1> HIDE DEF L
<1>3. \A i \in 1 .. N - 1 : At(i) \in 1 .. N /\ L[i] = rxpf_list[At(i)]
  <2>1. SUFFICES ASSUME NEW i \in 1 .. N - 1
                 PROVE  At(i) \in 1 .. N /\ L[i] = rxpf_list[At(i)]
    OBVIOUS
  <2>2. i < n => i \in 1 .. n - 1 /\ i \in 1 .. N
    BY <1>0
  <2>3. ~(i < n) => i \in n .. N - 1 /\ i + 1 \in 1 .. N
    BY <1>0, <2>1
  <2>. QED  BY <2>2, <2>3, <1>2, Zenon
<1>4. \A i, j \in 1 .. N - 1 : i < j => At(i) < At(j)
  BY <1>0
<1> HIDE DEF At
<1>5. FilterInv'
  <2>1. ASSUME NEW p \in 1 .. N - 1, NEW q \in 1 .. N - 1, p < q
        PROVE  L[p].priority <= L[q].priority
    <3>1. At(p) < At(q) /\ At(p) \in 1 .. N /\ At(q) \in 1 .. N
          /\ L[p] = rxpf_list[At(p)] /\ L[q] = rxpf_list[At(q)]
      BY <2>1, <1>3, <1>4, Zenon
    <3>. QED  BY <3>1, <1>0, Zenon DEF FilterInv
  <2>2. \A i \in 1 .. N - 1 : L[i].id \in 1 .. KCOM_FILTER_MAX - 1
    BY <1>0, <1>3, Zenon
  <2>. QED  BY <2>1, <2>2, <1>2, Zenon DEF FilterInv, L
<1>6. InOrder
  <2>1. SUFFICES ASSUME NEW k \in DOMAIN L
                 PROVE  /\ L[k] \in Range(rxpf_list)
                        /\ \A m \in k + 1 .. Len(L) :
                              \E i, j \in DOMAIN rxpf_list :
                                  i < j /\ rxpf_list[i] = L[k] /\ rxpf_list[j] = L[m]
    BY Zenon DEF InOrder, L
  <2>k. k \in 1 .. N - 1
    BY <1>2
  <2>2. L[k] \in Range(rxpf_list)
    BY <1>0, <1>3, <2>k, Zenon DEF Range
  <2>3. ASSUME NEW m \in k + 1 .. Len(L)
        PROVE  \E i, j \in DOMAIN rxpf_list :
                   i < j /\ rxpf_list[i] = L[k] /\ rxpf_list[j] = L[m]
    <3>1. m \in 1 .. N - 1 /\ k < m
      BY <1>0, <1>2, <2>k
    <3>2. At(k) < At(m) /\ At(k) \in 1 .. N /\ At(m) \in 1 .. N
          /\ L[k] = rxpf_list[At(k)] /\ L[m] = rxpf_list[At(m)]
      BY <3>1, <2>k, <1>3, <1>4, Zenon
    <3>. QED  BY <3>2, <1>0, Zenon
  <2>. QED  BY <2>2, <2>3
<1>. QED  BY <1>5, <1>6

-----------------------------------------------------------------------------
(* The theorems. *)

LEMMA IfInit == Init => NetInv /\ HandlerInv /\ FilterInv /\ BaseType
<1> SUFFICES ASSUME Init  PROVE NetInv /\ HandlerInv /\ FilterInv /\ BaseType
  OBVIOUS
<1>1. /\ dev = [d \in Devs |-> NoDev] /\ ndev_list = <<>> /\ ndevs = <<>>
      /\ overrun = FALSE /\ failures = 0 /\ rxpf_list = <<>> /\ h = HandlerIdle
      /\ base = [up |-> FALSE, suspended |-> TRUE]
  BY Zenon DEF Init
<1>2. dev \in [Devs -> DevType] /\ \A d \in Devs : dev[d].st = "none"
  BY <1>1 DEF NoDev, DevType
<1>3. DOMAIN ndevs = {} /\ ndevs \in [0 .. 0 - 1 -> Devs \cup {NULL}]
  BY <1>1
<1>4. ndev_max = 0
  BY <1>3, FS_EmptySet, Zenon DEF ndev_max
<1>5. Len(ndev_list) = 0 /\ ndev_list \in Seq(Devs)
  BY <1>1
<1>6. NetType
  BY <1>1, <1>2, <1>3, <1>4, <1>5 DEF NetType
<1>7. Ordered /\ Members /\ TableOK /\ Reached
  <2>1. Ordered /\ Reached
    BY <1>5 DEF Ordered, Reached
  <2>2. Members
    BY <1>2, <1>5 DEF Members
  <2>3. TableOK
    BY <1>3, Zenon DEF TableOK
  <2>. QED  BY <2>1, <2>2, <2>3
<1>8. HandlerInv
  BY <1>1 DEF HandlerInv, HandlerIdle
<1>9. FilterInv
  BY <1>1 DEF FilterInv
<1>10. BaseType
  BY <1>1 DEF BaseType
<1>. QED  BY <1>6, <1>7, <1>8, <1>9, <1>10, Zenon DEF NetInv

LEMMA FilterNext == FilterInv /\ [Next]_vars => FilterInv' /\ (InOrder \/ UNCHANGED rxpf_list)
<1> SUFFICES ASSUME FilterInv, [Next]_vars
             PROVE  FilterInv' /\ (InOrder \/ UNCHANGED rxpf_list)
  OBVIOUS
<1>1. UNCHANGED rxpf_list => FilterInv'
  BY Zenon DEF FilterInv
<1>2. \/ UNCHANGED rxpf_list
      \/ \E f \in FilterSpecs : bkn_knet_filter_create(f)
      \/ \E id \in FilterIds : bkn_knet_filter_destroy(id)
  BY Zenon DEF Next, vars, bkn_init_ndev, FillPriv, bkn_knet_netif_create, unregister_netdev,
         bkn_open, bkn_proc_link_write, bkn_knet_netif_destroy, bkn_do_skb_rx, Mirrored,
         Delivered, OpenBase, StopBase
<1>. QED  BY <1>1, <1>2, FilterCreateStep, FilterDestroyStep, Zenon

LEMMA NetNext ==
    ASSUME MAX_FAILURES + 1 < NDEVS_CHUNK, NetInv, HandlerInv, BaseType, [Next]_vars
    PROVE  NetInv' /\ HandlerInv' /\ BaseType'
<1>a. UNCHANGED <<netifs, h>> => NetInv' /\ HandlerInv'
  <2> SUFFICES ASSUME UNCHANGED <<netifs, h>>  PROVE NetInv' /\ HandlerInv'
    OBVIOUS
  <2>1. /\ dev' = dev /\ ndev_list' = ndev_list /\ ndevs' = ndevs /\ overrun' = overrun
        /\ failures' = failures /\ h' = h
    BY Zenon DEF netifs
  <2>2. ndev_max' = ndev_max /\ Reach' = Reach
    BY <2>1, Zenon DEF ndev_max, Reach
  <2>3. NetInv => NetType' /\ Members'
    BY <2>1, <2>2, Zenon DEF NetInv, NetType, Members
  <2>4. NetInv => Ordered' /\ Reached'
    BY <2>1, <2>2, Zenon DEF NetInv, Ordered, Reached, Id
  <2>5. NetInv => TableOK'
    BY <2>1, <2>2, Zenon DEF NetInv, TableOK, Id
  <2>6. HandlerInv'
    BY <2>1, Zenon DEF HandlerInv, Alive
  <2>. QED  BY <2>3, <2>4, <2>5, <2>6, Zenon DEF NetInv
<1>b. UNCHANGED base => BaseType'
  BY Zenon DEF BaseType
<1>1. ASSUME NEW d \in Devs, bkn_init_ndev(d)  PROVE NetInv' /\ HandlerInv' /\ BaseType'
  BY <1>1, <1>b, InitNdev, Zenon DEF bkn_init_ndev
<1>2. ASSUME NEW d \in Devs, FillPriv(d)  PROVE NetInv' /\ HandlerInv' /\ BaseType'
  BY <1>2, <1>b, FillPrivStep, Zenon DEF FillPriv
<1>3. ASSUME NEW d \in Devs, bkn_knet_netif_create(d)
      PROVE  NetInv' /\ HandlerInv' /\ BaseType'
  <2>1. UNCHANGED base
    BY <1>3, Zenon DEF bkn_knet_netif_create
  <2>. QED  BY <1>3, <2>1, <1>b, CreateStep, CreateHandler, Zenon
<1>4. ASSUME NEW d \in Devs, unregister_netdev(d)
      PROVE  NetInv' /\ HandlerInv' /\ BaseType'
  BY <1>4, <1>b, UnregisterStep, Zenon DEF unregister_netdev
<1>5. ASSUME NEW d \in Devs, bkn_open(d)  PROVE NetInv' /\ HandlerInv' /\ BaseType'
  <2>1. UNCHANGED <<netifs, h>>
    BY <1>5, Zenon DEF bkn_open
  <2>2. BaseType'
    <3>1. base' = base \/ base' = [base EXCEPT !.suspended = FALSE]
      BY <1>5, Zenon DEF bkn_open
    <3>2. [base EXCEPT !.suspended = FALSE] \in [up : BOOLEAN, suspended : BOOLEAN]
      BY DEF BaseType
    <3>. QED  BY <3>1, <3>2, Zenon DEF BaseType
  <2>. QED  BY <2>1, <2>2, <1>a, Zenon
<1>6. ASSUME NEW d \in Devs, NEW up \in BOOLEAN, bkn_proc_link_write(d, up)
      PROVE  NetInv' /\ HandlerInv' /\ BaseType'
  BY <1>6, <1>b, LinkStep, Zenon DEF bkn_proc_link_write
<1>7. ASSUME NEW id, bkn_knet_netif_destroy(id)
      PROVE  NetInv' /\ HandlerInv' /\ BaseType'
  BY <1>7, <1>b, DestroyStep, DestroyHandler, Zenon DEF bkn_knet_netif_destroy
<1>8. ASSUME NEW f, bkn_knet_filter_create(f) \/ bkn_knet_filter_destroy(f)
      PROVE  NetInv' /\ HandlerInv' /\ BaseType'
  BY <1>8, <1>a, <1>b, Zenon DEF bkn_knet_filter_create, bkn_knet_filter_destroy
<1>9. ASSUME NEW chan, NEW pkt, bkn_do_skb_rx(chan, pkt)
      PROVE  NetInv' /\ HandlerInv' /\ BaseType'
  <2>1. UNCHANGED <<netifs, base>>
    BY <1>9, Zenon DEF bkn_do_skb_rx
  <2>2. UNCHANGED <<ndev_list, ndevs, overrun, failures>> /\ dev' = dev
    BY <2>1, Zenon DEF netifs
  <2>3. dev \in [Devs -> DevType]
    BY DEF NetInv, NetType
  <2>4. NetInv'
    BY <2>2, <2>3, OtherNetStep, Zenon
  <2>. QED  BY <1>9, <1>b, <2>1, <2>4, ReceiveHandler, Zenon
<1>10. CASE Mirrored
  <2>1. UNCHANGED <<netifs, base>>
    BY <1>10, Zenon DEF Mirrored
  <2>2. UNCHANGED <<ndev_list, ndevs, overrun, failures>> /\ dev' = dev
    BY <2>1, Zenon DEF netifs
  <2>3. dev \in [Devs -> DevType]
    BY DEF NetInv, NetType
  <2>4. NetInv'
    BY <2>2, <2>3, OtherNetStep, Zenon
  <2>. QED  BY <1>10, <1>b, <2>1, <2>4, MirroredHandler, Zenon
<1>11. CASE Delivered
  BY <1>11, <1>b, DeliveredStep, Zenon DEF Delivered
<1>12. CASE OpenBase \/ StopBase
  <2>1. UNCHANGED <<netifs, h>>
    BY <1>12, Zenon DEF OpenBase, StopBase
  <2>2. base' = [up |-> TRUE, suspended |-> FALSE] \/ base' = [up |-> FALSE, suspended |-> TRUE]
    BY <1>12, Zenon DEF OpenBase, StopBase
  <2>3. BaseType'
    <3>1. /\ [up |-> TRUE, suspended |-> FALSE] \in [up : BOOLEAN, suspended : BOOLEAN]
          /\ [up |-> FALSE, suspended |-> TRUE] \in [up : BOOLEAN, suspended : BOOLEAN]
      OBVIOUS
    <3>. QED  BY <2>2, <3>1, Zenon DEF BaseType
  <2>. QED  BY <2>1, <2>3, <1>a, Zenon
<1>13. CASE UNCHANGED vars
  <2>1. UNCHANGED <<netifs, h>> /\ UNCHANGED base
    BY <1>13, Zenon DEF vars, netifs
  <2>. QED  BY <2>1, <1>a, <1>b, Zenon
<1>. QED  BY <1>1, <1>2, <1>3, <1>4, <1>5, <1>6, <1>7, <1>8, <1>9, <1>10, <1>11, <1>12, <1>13,
             Zenon DEF Next

LEMMA FilterInvariant == Spec => []FilterInv
<1>1. Init => FilterInv
  BY IfInit, Zenon
<1>2. FilterInv /\ [Next]_vars => FilterInv'
  BY FilterNext, Zenon
<1>. QED  BY <1>1, <1>2, PTL DEF Spec

LEMMA IfInvariant ==
    ASSUME MAX_FAILURES + 1 < NDEVS_CHUNK
    PROVE  Spec => []IfInv
<1> DEFINE I == NetInv /\ HandlerInv /\ BaseType
<1>1. Init => I
  BY IfInit, Zenon
<1>2. I /\ [Next]_vars => I'
  BY NetNext, Zenon
<1>3. Spec => []I
  <2> HIDE DEF I
  <2>. QED  BY <1>1, <1>2, PTL DEF Spec
<1>4. I /\ FilterInv => IfInv
  BY DEF IfInv
<1> HIDE DEF I
<1>. QED  BY <1>3, <1>4, FilterInvariant, PTL

(* Every variable has its type: the table stays as large as ndev_max says  *)
(* (bkn_knet_netif_create) and no filter has an id out of range            *)
(* (bkn_knet_filter_create).                                               *)
THEOREM IfTypeCorrect ==
    ASSUME MAX_FAILURES + 1 < NDEVS_CHUNK
    PROVE  Spec => []TypeOK
<1>1. IfInv => TypeOK
  <2> SUFFICES ASSUME IfInv  PROVE TypeOK
    OBVIOUS
  <2>1. NetType /\ HandlerInv /\ FilterInv /\ BaseType
    BY DEF IfInv, NetInv
  <2>2. DOMAIN ndevs = 0 .. ndev_max - 1 /\ Range(ndevs) \subseteq Devs \cup {NULL}
    BY <2>1 DEF NetType, Range
  <2>3. \A f \in Range(rxpf_list) : f.id \in 1 .. KCOM_FILTER_MAX - 1
    BY <2>1, FilterFacts, Zenon DEF Range
  <2>. QED  BY <2>1, <2>2, <2>3 DEF TypeOK, NetType, DevType, HandlerInv, BaseType
<1>. QED  BY <1>1, IfInvariant, PTL

(* A look-up finds the interface that has the id and no other, and nothing *)
(* is written behind the table as long as fewer than NDEVS_CHUNK - 1       *)
(* tables could not be allocated (bkn_netif_lookup, bkn_knet_netif_create, *)
(* bkn_knet_netif_destroy).                                                *)
THEOREM IfLookupSound ==
    ASSUME MAX_FAILURES + 1 < NDEVS_CHUNK
    PROVE  Spec => []LookupSound
<1>1. IfInv => LookupSound
  BY InvLookupSound, Zenon DEF IfInv
<1>. QED  BY <1>1, IfInvariant, PTL

(* The interface that a packet or its clone is handed to the stack for is  *)
(* not freed (bkn_do_skb_rx, bkn_knet_netif_destroy).                      *)
THEOREM IfDeliveryAlive ==
    ASSUME MAX_FAILURES + 1 < NDEVS_CHUNK
    PROVE  Spec => []DeliveryAlive
<1>1. IfInv => DeliveryAlive
  BY DEF IfInv, HandlerInv, Alive, DeliveryAlive
<1>. QED  BY <1>1, IfInvariant, PTL

(* Filters are checked in the order of their priorities, the oldest first  *)
(* among equals (bkn_knet_filter_create, bkn_knet_filter_destroy).         *)
THEOREM IfFiltersInOrder == Spec => FiltersInOrder
<1>1. FilterInv /\ [Next]_vars => [InOrder]_rxpf_list
  BY FilterNext, Zenon
<1>2. InOrder =>
        \A n \in DOMAIN rxpf_list' :
          LET f == rxpf_list'[n] IN
          /\ f \notin Range(rxpf_list) =>
                \A m \in DOMAIN rxpf_list' \ {n} :
                    m < n <=> rxpf_list'[m].priority <= f.priority
          /\ f \in Range(rxpf_list) =>
                \A m \in n + 1 .. Len(rxpf_list') :
                    LET g == rxpf_list'[m] IN
                    g \in Range(rxpf_list) =>
                       \E i, j \in DOMAIN rxpf_list :
                           i < j /\ rxpf_list[i] = f /\ rxpf_list[j] = g
  BY Zenon DEF InOrder
<1>. QED  BY <1>1, <1>2, FilterInvariant, PTL DEF Spec, FiltersInOrder

=============================================================================
