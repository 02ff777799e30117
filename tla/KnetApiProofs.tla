--------------------------- MODULE KnetApiProofs ---------------------------
(***************************************************************************)
(* Proofs about KnetApi and KnetEvents, for every number of chains, DCBs   *)
(* and records, with any instances: no chain and no DCB is lost, the       *)
(* hardware works on DCBs that are KNET's, and events go to the process    *)
(* that has the device.                                                    *)
(***************************************************************************)
EXTENDS KnetApi, FiniteSetTheorems, SequenceTheorems, WellFoundedInduction, TLAPS

USE ChainAssumption, RetryAssumption, SuspendAssumption

RecType == [Recs -> [used : BOOLEAN, chain : Chains, cur : 1 .. DCB_CNT + 1]]
DcbType == [Chains -> [Idx -> DcbStates]]

(***************************************************************************)
(* The inductive invariant of the API channel, of a channel s, the records *)
(* R, the DCBs D and the handler x.  Every record in use is in the list or *)
(* is the active one; the chains in the list are KNET's and untouched.     *)
(***************************************************************************)
ListOK(s, R, D) ==
    /\ \A n \in 1 .. Len(s.api_dcb_list) :
          /\ R[s.api_dcb_list[n]].used /\ R[s.api_dcb_list[n]].cur = 1
          /\ s.api_dcb_list[n] # s.api_dcb_chain
          /\ \A i \in Idx : D[R[s.api_dcb_list[n]].chain][i] = "new"
    /\ \A m, n \in 1 .. Len(s.api_dcb_list) : m # n =>
          /\ s.api_dcb_list[m] # s.api_dcb_list[n]
          /\ R[s.api_dcb_list[m]].chain # R[s.api_dcb_list[n]].chain
    /\ s.api_dcb_chain # None => R[s.api_dcb_chain].used
    /\ \A r \in Recs : R[r].used =>
          \/ r = s.api_dcb_chain
          \/ \E n \in 1 .. Len(s.api_dcb_list) : s.api_dcb_list[n] = r
    /\ s.api_active <=> s.api_dcb_chain # None

(* The active chain: the driver has passed the DCBs before "cur".  The     *)
(* process may have had all of them back, and may have given KNET the same *)
(* chain again.                                                            *)
Cur(s, R) == R[s.api_dcb_chain].cur
ChainOf(s, R) == R[s.api_dcb_chain].chain
Passed(s, R) == Cur(s, R) = DCB_CNT + 1

ActiveOK(s, R, D, x) ==
    s.api_dcb_chain # None =>
        /\ \A n \in 1 .. Len(s.api_dcb_list) :
              R[s.api_dcb_list[n]].chain = ChainOf(s, R) => Passed(s, R)
        /\ s.use_rx_skb =>
              ~Passed(s, R) /\ \A i \in Idx : Cur(s, R) <= i => D[ChainOf(s, R)][i] = "new"
        /\ ~s.use_rx_skb =>
              /\ s.dma.st = "rx" =>
                    /\ s.dma.chain = ChainOf(s, R) /\ Cur(s, R) <= s.dma.idx
                    /\ \A i \in Idx :
                          /\ Cur(s, R) <= i /\ i < s.dma.idx => D[ChainOf(s, R)][i] = "filled"
                          /\ s.dma.idx <= i => D[ChainOf(s, R)][i] = "new"
              /\ s.dma.st = "idle" =>
                    \A i \in Idx : Cur(s, R) <= i => D[ChainOf(s, R)][i] = "filled"
              /\ Passed(s, R) => s.chain_complete
              /\ s.chain_complete => Passed(s, R) \/ (x.pc = "deliver" /\ Cur(s, R) = DCB_CNT)

(* The hardware: unless the process is gone, it works for the active chain *)
(* only, and the DCBs that it has filled are there, still to be taken.     *)
AtEnd(s) == s.dma = Stopped \/ (s.late /\ s.dma.idx = DCB_CNT)

HwOK(s, R, D) ==
    /\ s.dma.st # "clash" /\ (s.dma.st = "idle" => s.dma = Stopped)
    /\ s.late => s.posted /\ s.dma.st = "rx"
    /\ s.posted => ~s.warm
    /\ s.use_rx_skb => s.dma = Stopped
    /\ s.warm => s.api_dcb_chain = None /\ s.api_dcb_list = <<>>
    /\ ~s.warm =>
          /\ s.api_dcb_chain = None => s.dma = Stopped
          /\ s.api_dcb_chain # None /\ s.chain_done => AtEnd(s)
          /\ \A c \in Chains, i \in Idx :
                D[c][i] = "filled" =>
                    s.api_dcb_chain # None /\ ChainOf(s, R) = c /\ Cur(s, R) <= i

(* The handler of the channel: once it has waited for a DCB, the hardware  *)
(* is at the end of the chain, so that one more round takes all the DCBs   *)
(* that are left.                                                          *)
HandlerOK(s, R, D, x) ==
    /\ s.use_rx_skb => x.pc = "idle"
    /\ x.pc \in {"rx", "deliver"} => x.rec = s.api_dcb_chain
    /\ x.pc = "deliver" => /\ s.api_dcb_chain # None
                           /\ Cur(s, R) <= DCB_CNT
                           /\ D[ChainOf(s, R)][Cur(s, R)] = "filled"
                           /\ Cur(s, R) = DCB_CNT => s.chain_complete
    /\ x.pc # "idle" /\ x.stat /\ s.api_dcb_chain # None =>
          /\ AtEnd(s)
          /\ x.retry > 0 => s.dma = Stopped
          /\ x.retry > 0 /\ x.pc = "chain" => Passed(s, R)

ChanInv(s, R, D, x) ==
    /\ s \in ApiType /\ R \in RecType /\ D \in DcbType /\ x \in HandlerType
    /\ ListOK(s, R, D) /\ ActiveOK(s, R, D, x) /\ HwOK(s, R, D) /\ HandlerOK(s, R, D, x)

ApiInv == ChanInv(api, rec, dcb, h)

-----------------------------------------------------------------------------
(* Types. *)

LEMMA ApiFields ==
    ASSUME NEW s \in ApiType
    PROVE  /\ s.on \in BOOLEAN /\ s.use_rx_skb \in BOOLEAN /\ s.posted \in BOOLEAN
           /\ s.api_dcb_list \in Seq(Recs) /\ s.api_dcb_chain \in Recs \cup {None}
           /\ s.api_active \in BOOLEAN /\ s.chain_complete \in BOOLEAN
           /\ s.basedev_suspended \in BOOLEAN /\ s.irq \in BOOLEAN
           /\ s.desc_done \in BOOLEAN /\ s.chain_done \in BOOLEAN
           /\ s.late \in BOOLEAN /\ s.warm \in BOOLEAN
           /\ s.dma \in [st : {"idle", "rx", "clash"}, chain : Chains, idx : Idx]
           /\ s.dma.st \in {"idle", "rx", "clash"} /\ s.dma.chain \in Chains /\ s.dma.idx \in Idx
BY DEF ApiType

LEMMA RecFields ==
    ASSUME NEW R \in RecType, NEW r \in Recs
    PROVE  /\ R[r] \in [used : BOOLEAN, chain : Chains, cur : 1 .. DCB_CNT + 1]
           /\ R[r].used \in BOOLEAN /\ R[r].chain \in Chains /\ R[r].cur \in 1 .. DCB_CNT + 1
BY DEF RecType

LEMMA StoppedFields ==
    /\ AnyChain \in Chains /\ 1 \in Idx
    /\ Stopped \in [st : {"idle", "rx", "clash"}, chain : Chains, idx : Idx]
    /\ Stopped.st = "idle"
<1>1. AnyChain \in Chains
  BY DEF AnyChain
<1>2. 1 \in Idx
  BY DEF Idx
<1>. QED  BY <1>1, <1>2 DEF Stopped

LEMMA ListFields ==
    ASSUME NEW s \in ApiType
    PROVE  /\ Len(s.api_dcb_list) \in Nat
           /\ DOMAIN s.api_dcb_list = 1 .. Len(s.api_dcb_list)
           /\ \A n \in 1 .. Len(s.api_dcb_list) : /\ s.api_dcb_list[n] \in Recs
                                                  /\ s.api_dcb_list[n] # None
           /\ s.api_dcb_list # <<>> => 1 \in 1 .. Len(s.api_dcb_list)
<1>1. s.api_dcb_list \in Seq(Recs)
  BY ApiFields
<1>2. \A r \in Recs : r # None
  BY DEF Recs, None
<1>. QED  BY <1>1, <1>2, LenProperties, ElementOfSeq, EmptySeq

-----------------------------------------------------------------------------
(* A channel that differs only in what the invariant does not look at.     *)
Like(s, t) ==
    /\ t.use_rx_skb <=> s.use_rx_skb
    /\ t.posted <=> s.posted
    /\ t.api_dcb_list = s.api_dcb_list
    /\ t.api_dcb_chain = s.api_dcb_chain
    /\ t.api_active <=> s.api_active
    /\ t.chain_complete <=> s.chain_complete
    /\ t.late <=> s.late
    /\ t.warm <=> s.warm
    /\ t.dma = s.dma

LEMMA LikeInv ==
    ASSUME NEW s, NEW t \in ApiType, NEW R, NEW D, NEW x,
           ChanInv(s, R, D, x), Like(s, t), t.chain_done => s.chain_done
    PROVE  ChanInv(t, R, D, x)
<1>1. ListOK(t, R, D)
  BY DEF ChanInv, ListOK, Like
<1>2. ActiveOK(t, R, D, x)
  BY DEF ChanInv, ActiveOK, Like, Cur, ChainOf, Passed
<1>3. HwOK(t, R, D)
  BY DEF ChanInv, HwOK, Like, Cur, ChainOf, AtEnd
<1>4. HandlerOK(t, R, D, x)
  BY DEF ChanInv, HandlerOK, Like, Cur, ChainOf, Passed, AtEnd
<1>. QED  BY <1>1, <1>2, <1>3, <1>4 DEF ChanInv

(* The handler may end at any point but with a DCB handed to the stack.    *)
LEMMA IdleInv ==
    ASSUME NEW s, NEW R, NEW D, NEW x, ChanInv(s, R, D, x), x.pc # "deliver"
    PROVE  ChanInv(s, R, D, HandlerIdle)
<1>1. HandlerIdle \in HandlerType /\ HandlerIdle.pc = "idle"
  BY DEF HandlerIdle, HandlerType, Recs, None
<1>2. ActiveOK(s, R, D, HandlerIdle)
  BY <1>1 DEF ChanInv, ActiveOK
<1>3. HandlerOK(s, R, D, HandlerIdle)
  BY <1>1 DEF HandlerOK
<1>. QED  BY <1>1, <1>2, <1>3 DEF ChanInv

-----------------------------------------------------------------------------
(* bkn_api_rx_restart.  When it takes a chain, none is active.             *)
Takes(s) == ~s.basedev_suspended /\ s.api_dcb_chain = None /\ s.api_dcb_list # <<>>

Taken(s, t) ==
    /\ t.use_rx_skb <=> s.use_rx_skb
    /\ t.posted <=> s.posted
    /\ t.late <=> s.late
    /\ t.warm <=> s.warm
    /\ t.api_dcb_chain = Head(s.api_dcb_list) /\ t.api_dcb_list = Tail(s.api_dcb_list)
    /\ t.api_active
    /\ s.use_rx_skb => t.dma = s.dma /\ (t.chain_done <=> s.chain_done)

LEMMA ListTail ==
    ASSUME NEW s \in ApiType, s.api_dcb_list # <<>>
    PROVE  /\ Head(s.api_dcb_list) = s.api_dcb_list[1] /\ Head(s.api_dcb_list) \in Recs
           /\ Tail(s.api_dcb_list) \in Seq(Recs)
           /\ Len(Tail(s.api_dcb_list)) = Len(s.api_dcb_list) - 1
           /\ \A n \in 1 .. Len(s.api_dcb_list) - 1 :
                 Tail(s.api_dcb_list)[n] = s.api_dcb_list[n + 1]
<1>1. s.api_dcb_list \in Seq(Recs)
  BY ApiFields
<1>. QED  BY <1>1, HeadTailProperties

LEMMA RestartType ==
    ASSUME NEW s \in ApiType, NEW R \in RecType
    PROVE  bkn_api_rx_restart(s, R) \in ApiType
<1>1. CASE ~Takes(s)
  BY <1>1 DEF Takes, bkn_api_rx_restart
<1>2. CASE Takes(s)
  <2> DEFINE r == Head(s.api_dcb_list)
             t == [s EXCEPT !.api_dcb_chain = r, !.api_active = TRUE,
                            !.api_dcb_list = Tail(@)]
             u == [t EXCEPT !.chain_complete = FALSE]
             d == IF u.dma = Stopped THEN [st |-> "rx", chain |-> R[r].chain, idx |-> 1]
                  ELSE [u.dma EXCEPT !.st = "clash"]
  <2>1. r \in Recs /\ Tail(s.api_dcb_list) \in Seq(Recs) /\ R[r].chain \in Chains
    BY <1>2, ListTail, RecFields DEF Takes
  <2>2. t \in ApiType
    BY <2>1 DEF ApiType
  <2>3. u \in ApiType
    BY <2>2 DEF ApiType
  <2>4. d \in [st : {"idle", "rx", "clash"}, chain : Chains, idx : Idx]
    <3>1. u.dma \in [st : {"idle", "rx", "clash"}, chain : Chains, idx : Idx]
      BY <2>3, ApiFields
    <3>. QED  BY <3>1, <2>1, StoppedFields
  <2>5. [u EXCEPT !.irq = TRUE, !.desc_done = FALSE, !.chain_done = FALSE, !.dma = d] \in ApiType
    <3>. HIDE DEF d, u
    <3>. QED  BY <2>3, <2>4 DEF ApiType
  <2>6. bkn_api_rx_restart(s, R) \in
            {t, [u EXCEPT !.irq = TRUE, !.desc_done = FALSE, !.chain_done = FALSE, !.dma = d]}
    BY <1>2, Zenon DEF bkn_api_rx_restart, Takes, StartDma
  <2>. QED  BY <2>2, <2>5, <2>6
<1>. QED  BY <1>1, <1>2

LEMMA RestartTakes ==
    ASSUME NEW s \in ApiType, NEW R \in RecType, Takes(s),
           ~s.use_rx_skb => s.dma = Stopped
    PROVE  LET t == bkn_api_rx_restart(s, R)
           IN  /\ Taken(s, t)
               /\ ~s.use_rx_skb =>
                     /\ t.dma = [st |-> "rx", chain |-> R[Head(s.api_dcb_list)].chain, idx |-> 1]
                     /\ ~t.chain_complete /\ ~t.chain_done
<1> DEFINE r == Head(s.api_dcb_list)
           t == [s EXCEPT !.api_dcb_chain = r, !.api_active = TRUE,
                          !.api_dcb_list = Tail(@)]
           u == [t EXCEPT !.chain_complete = FALSE]
           d == IF u.dma = Stopped THEN [st |-> "rx", chain |-> R[r].chain, idx |-> 1]
                ELSE [u.dma EXCEPT !.st = "clash"]
           v == [u EXCEPT !.irq = TRUE, !.desc_done = FALSE, !.chain_done = FALSE, !.dma = d]
<1>1. CASE s.use_rx_skb
  <2>1. bkn_api_rx_restart(s, R) = t
    BY <1>1, Zenon DEF bkn_api_rx_restart, Takes
  <2>2. Taken(s, t)
    BY DEF ApiType, Taken
  <2>. QED  BY <1>1, <2>1, <2>2
<1>2. CASE ~s.use_rx_skb
  <2>1. bkn_api_rx_restart(s, R) = v
    BY <1>2, Zenon DEF bkn_api_rx_restart, Takes, StartDma
  <2>2. u.dma = s.dma
    BY DEF ApiType
  <2>3. d = [st |-> "rx", chain |-> R[r].chain, idx |-> 1]
    BY <1>2, <2>2
  <2>4. Taken(s, v) /\ v.dma = d /\ ~v.chain_complete /\ ~v.chain_done
    <3>. HIDE DEF d
    <3>. QED  BY <1>2 DEF ApiType, Taken
  <2>. QED  BY <1>2, <2>1, <2>3, <2>4
<1>. QED  BY <1>1, <1>2

LEMMA RestartInv ==
    ASSUME NEW s, NEW R, NEW D, NEW x, ChanInv(s, R, D, x),
           x.pc = "idle" \/ s.api_dcb_chain # None
    PROVE  ChanInv(bkn_api_rx_restart(s, R), R, D, x)
<1> DEFINE t == bkn_api_rx_restart(s, R)
<1>0. s \in ApiType /\ R \in RecType /\ D \in DcbType /\ x \in HandlerType
  BY DEF ChanInv
<1>1. CASE ~Takes(s)
  <2>1. t = s
    BY <1>1 DEF Takes, bkn_api_rx_restart
  <2>. QED  BY <2>1, Zenon
<1>2. CASE Takes(s)
  <2> DEFINE r == Head(s.api_dcb_list)
             L == Len(s.api_dcb_list)
  <2>0. s.api_dcb_chain = None /\ s.api_dcb_list # <<>> /\ x.pc = "idle" /\ s.api_dcb_list \in Seq(Recs)
    BY <1>2, <1>0, ApiFields DEF Takes
  <2>1. ~s.warm /\ s.dma = Stopped /\ ~s.late /\ Stopped.st = "idle"
        /\ \A c \in Chains, i \in Idx : D[c][i] # "filled"
    BY <2>0, StoppedFields DEF ChanInv, HwOK
  <2>2. /\ Taken(s, t)
        /\ ~s.use_rx_skb => /\ t.dma = [st |-> "rx", chain |-> R[r].chain, idx |-> 1]
                            /\ ~t.chain_complete /\ ~t.chain_done
    BY <1>0, <1>2, <2>1, RestartTakes
  <2>3. t \in ApiType
    BY <1>0, RestartType
  <2>. HIDE DEF t
  <2>4. /\ L \in Nat /\ L >= 1 /\ r \in Recs /\ r = s.api_dcb_list[1]
        /\ t.api_dcb_chain = r /\ Len(t.api_dcb_list) = L - 1
        /\ \A n \in 1 .. L - 1 : t.api_dcb_list[n] = s.api_dcb_list[n + 1]
    BY <1>0, <2>0, <2>2, ListTail, ListFields DEF Taken
  <2>5. r # None
    BY <2>4 DEF Recs, None
  <2>6. R[r].used /\ R[r].cur = 1 /\ R[r].chain \in Chains
        /\ \A i \in Idx : D[R[r].chain][i] = "new"
    BY <1>0, <2>4, RecFields DEF ChanInv, ListOK
  <2>7. ListOK(t, R, D)
    <3>1. ListOK(s, R, D)
      BY DEF ChanInv
    <3>2. \A n \in 1 .. L - 1 : n \in 1 .. L /\ n + 1 \in 1 .. L /\ n + 1 # 1
      BY <2>4
    <3>3. \A n \in 1 .. L - 1 :
             /\ R[t.api_dcb_list[n]].used /\ R[t.api_dcb_list[n]].cur = 1
             /\ t.api_dcb_list[n] # r
             /\ \A i \in Idx : D[R[t.api_dcb_list[n]].chain][i] = "new"
      BY <2>4, <3>1, <3>2 DEF ListOK
    <3>4. \A m, n \in 1 .. L - 1 : m # n =>
             /\ t.api_dcb_list[m] # t.api_dcb_list[n]
             /\ R[t.api_dcb_list[m]].chain # R[t.api_dcb_list[n]].chain
      <4> SUFFICES ASSUME NEW m \in 1 .. L - 1, NEW n \in 1 .. L - 1, m # n
                   PROVE  /\ t.api_dcb_list[m] # t.api_dcb_list[n]
                          /\ R[t.api_dcb_list[m]].chain # R[t.api_dcb_list[n]].chain
        OBVIOUS
      <4>1. m + 1 \in 1 .. L /\ n + 1 \in 1 .. L /\ m + 1 # n + 1
        BY <2>4
      <4>2. /\ s.api_dcb_list[m + 1] # s.api_dcb_list[n + 1]
            /\ R[s.api_dcb_list[m + 1]].chain # R[s.api_dcb_list[n + 1]].chain
        BY <4>1, <3>1, Zenon DEF ListOK
      <4>. QED  BY <4>2, <2>4, Zenon
    <3>5. ASSUME NEW q \in Recs, R[q].used, q # r
          PROVE  \E n \in 1 .. L - 1 : t.api_dcb_list[n] = q
      <4>1. PICK n \in 1 .. L : s.api_dcb_list[n] = q
        BY <3>1, <3>5, <2>0 DEF ListOK, Recs, None
      <4>2. n # 1
        BY <4>1, <3>5, <2>4
      <4>3. n - 1 \in 1 .. L - 1 /\ (n - 1) + 1 = n
        BY <4>1, <4>2, <2>4
      <4>4. t.api_dcb_list[n - 1] = s.api_dcb_list[(n - 1) + 1]
        BY <4>3, <2>4
      <4>. QED  BY <4>1, <4>3, <4>4
    <3>. QED  BY <2>2, <2>4, <2>5, <2>6, <3>3, <3>4, <3>5 DEF ListOK, Taken
  <2>8. ActiveOK(t, R, D, x)
    <3>1. \A n \in 1 .. L - 1 : R[t.api_dcb_list[n]].chain # R[r].chain
      <4>1. \A n \in 1 .. L - 1 : n + 1 \in 1 .. L /\ n + 1 # 1
        BY <2>4
      <4>2. 1 \in 1 .. L
        BY <2>4
      <4>3. \A n \in 1 .. L - 1 : R[s.api_dcb_list[n + 1]].chain # R[s.api_dcb_list[1]].chain
        BY <4>1, <4>2, Zenon DEF ChanInv, ListOK
      <4>. QED  BY <2>4, <4>3, Zenon
    <3>2. Cur(t, R) = 1 /\ ChainOf(t, R) = R[r].chain /\ ~Passed(t, R)
      BY <2>4, <2>6 DEF Cur, ChainOf, Passed
    <3>3. \A i \in Idx : 1 <= i /\ ~(i < 1)
      BY DEF Idx
    <3>. QED  BY <2>2, <2>4, <2>6, <3>1, <3>2, <3>3 DEF ActiveOK, Taken
  <2>9. HwOK(t, R, D)
    BY <2>1, <2>2, <2>4, <2>5 DEF ChanInv, HwOK, Taken, AtEnd
  <2>10. HandlerOK(t, R, D, x)
    BY <2>0, <2>2 DEF ChanInv, HandlerOK
  <2>. QED  BY <1>0, <2>3, <2>7, <2>8, <2>9, <2>10 DEF ChanInv, t
<1>. QED  BY <1>1, <1>2

(* The record of the active chain plays no part in it.                     *)
LEMMA RestartEq ==
    ASSUME NEW s \in ApiType, NEW R \in RecType, NEW Q, 
           s.api_dcb_list # <<>> =>
               Q[Head(s.api_dcb_list)].chain = R[Head(s.api_dcb_list)].chain
    PROVE  bkn_api_rx_restart(s, Q) = bkn_api_rx_restart(s, R)
BY Zenon DEF bkn_api_rx_restart

-----------------------------------------------------------------------------
(* bkn_api_rx_chain_done, up to the restart: the active chain is dropped   *)
(* with its record.                                                        *)
Dropped(s, t) ==
    /\ t.use_rx_skb <=> s.use_rx_skb
    /\ t.posted <=> s.posted
    /\ t.late <=> s.late
    /\ t.warm <=> s.warm
    /\ t.api_dcb_list = s.api_dcb_list /\ t.dma = s.dma
    /\ t.api_dcb_chain = None /\ ~t.api_active

Freed(s, R) == IF s.api_dcb_chain = None THEN R ELSE [R EXCEPT ![s.api_dcb_chain] = NoRec]

LEMMA FreedType ==
    ASSUME NEW s \in ApiType, NEW R \in RecType
    PROVE  /\ Freed(s, R) \in RecType
           /\ \A r \in Recs : r # s.api_dcb_chain => Freed(s, R)[r] = R[r]
           /\ s.api_dcb_chain # None => Freed(s, R)[s.api_dcb_chain] = NoRec
<1>1. NoRec \in [used : BOOLEAN, chain : Chains, cur : 1 .. DCB_CNT + 1]
  BY StoppedFields DEF NoRec
<1>2. s.api_dcb_chain \in Recs \cup {None}
  BY ApiFields
<1>. QED  BY <1>1, <1>2 DEF Freed, RecType

LEMMA DropInv ==
    ASSUME NEW s \in ApiType, NEW t \in ApiType, NEW R \in RecType, NEW D \in DcbType,
           ListOK(s, R, D), HwOK(s, R, D), Dropped(s, t),
           s.api_dcb_chain # None => s.dma = Stopped,
           ~s.warm => \A c \in Chains, i \in Idx : D[c][i] # "filled"
    PROVE  ChanInv(t, Freed(s, R), D, HandlerIdle)
<1> DEFINE Q == Freed(s, R)
           L == Len(s.api_dcb_list)
<1>0. /\ Q \in RecType
      /\ \A r \in Recs : r # s.api_dcb_chain => Q[r] = R[r]
      /\ s.api_dcb_chain # None => ~Q[s.api_dcb_chain].used
      /\ s.api_dcb_chain \in Recs \cup {None}
  BY FreedType, ApiFields DEF NoRec
<1>1. L \in Nat /\ \A n \in 1 .. L : s.api_dcb_list[n] \in Recs /\ s.api_dcb_list[n] # None
  BY ListFields
<1>2. HandlerIdle \in HandlerType /\ HandlerIdle.pc = "idle"
  BY DEF HandlerIdle, HandlerType, Recs, None
<1>3. \A n \in 1 .. L : Q[s.api_dcb_list[n]] = R[s.api_dcb_list[n]]
  BY <1>0, <1>1 DEF ListOK
<1>. HIDE DEF Q, L
<1>4. ListOK(t, Q, D)
  <2>1. \A r \in Recs : Q[r].used => r # s.api_dcb_chain /\ R[r].used
    BY <1>0 DEF Recs, None
  <2>. QED  BY <1>0, <1>1, <1>3, <2>1 DEF ListOK, Dropped, L
<1>5. ActiveOK(t, Q, D, HandlerIdle)
  BY DEF ActiveOK, Dropped
<1>6. HwOK(t, Q, D)
  BY DEF HwOK, Dropped, AtEnd
<1>7. HandlerOK(t, Q, D, HandlerIdle)
  BY <1>2 DEF HandlerOK, Dropped
<1>. QED  BY <1>0, <1>2, <1>4, <1>5, <1>6, <1>7 DEF ChanInv, Q

(* What the driver restarts afterwards it does with the records as they    *)
(* were before: none in the list has changed.                              *)
LEMMA FreedRestart ==
    ASSUME NEW s \in ApiType, NEW R \in RecType, NEW u, NEW D, NEW x,
           ChanInv(u, Freed(s, R), D, x), s.api_dcb_chain # None => ~Freed(s, R)[s.api_dcb_chain].used
    PROVE  bkn_api_rx_restart(u, R) = bkn_api_rx_restart(u, Freed(s, R))
<1>1. u \in ApiType
  BY DEF ChanInv
<1>2. ASSUME u.api_dcb_list # <<>>
      PROVE  Freed(s, R)[Head(u.api_dcb_list)] = R[Head(u.api_dcb_list)]
  <2>1. Head(u.api_dcb_list) = u.api_dcb_list[1] /\ Head(u.api_dcb_list) \in Recs
        /\ 1 \in 1 .. Len(u.api_dcb_list)
    BY <1>1, <1>2, ListTail, ListFields
  <2>2. Freed(s, R)[Head(u.api_dcb_list)].used
    BY <2>1 DEF ChanInv, ListOK
  <2>3. Head(u.api_dcb_list) # s.api_dcb_chain
    BY <2>1, <2>2 DEF Recs, None
  <2>. QED  BY <2>1, <2>3, FreedType
<1>. QED  BY <1>1, <1>2, RestartEq, FreedType

-----------------------------------------------------------------------------
(* The process gives a chain.  The active chain may be the same one, when  *)
(* the driver has passed all of it but not freed its record.               *)
Given(s, t, r) ==
    /\ t.use_rx_skb <=> s.use_rx_skb
    /\ t.posted <=> s.posted
    /\ t.api_dcb_list = Append(s.api_dcb_list, r)
    /\ t.api_dcb_chain = s.api_dcb_chain
    /\ t.api_active <=> s.api_active
    /\ t.chain_complete <=> s.chain_complete
    /\ t.chain_done <=> s.chain_done
    /\ t.late <=> s.late
    /\ t.warm <=> s.warm
    /\ t.dma = s.dma

GivenTo(R, D, Q, E, r, c) ==
    /\ ~R[r].used /\ \A i \in Idx : D[c][i] = "own"
    /\ \A q \in Recs : q # r => Q[q] = R[q]
    /\ Q[r].used /\ Q[r].chain = c /\ Q[r].cur = 1
    /\ \A b \in Chains : b # c => E[b] = D[b]
    /\ \A i \in Idx : E[c][i] = "new"

LEMMA ActiveGiven ==
    ASSUME NEW s, NEW R, NEW D, NEW x, ChanInv(s, R, D, x), s.api_dcb_chain # None,
           \A i \in Idx : D[ChainOf(s, R)][i] = "own"
    PROVE  Passed(s, R) /\ x.pc # "deliver" /\ s.dma.st = "idle" /\ ~s.use_rx_skb
<1>0. s \in ApiType /\ R \in RecType /\ D \in DcbType /\ x \in HandlerType
  BY DEF ChanInv
<1>1. s.api_dcb_chain \in Recs /\ Cur(s, R) \in 1 .. DCB_CNT + 1 /\ s.dma.idx \in Idx
      /\ s.dma.st \in {"idle", "rx", "clash"}
  BY <1>0, ApiFields, RecFields DEF Cur
<1>2. Cur(s, R) \in Idx \/ Passed(s, R)
  BY <1>1 DEF Idx, Passed
<1>3. s.dma.st # "clash"
  BY DEF ChanInv, HwOK
<1>4. ~s.use_rx_skb
  BY <1>1, <1>2 DEF ChanInv, ActiveOK
<1>5. s.dma.st # "rx"
  BY <1>1, <1>2, <1>4 DEF ChanInv, ActiveOK, Idx
<1>6. Passed(s, R)
  BY <1>1, <1>2, <1>3, <1>4, <1>5 DEF ChanInv, ActiveOK
<1>7. x.pc # "deliver"
  BY <1>1, <1>6 DEF ChanInv, HandlerOK, Passed
<1>. QED  BY <1>1, <1>3, <1>4, <1>5, <1>6, <1>7

LEMMA GiveInv ==
    ASSUME NEW s, NEW t \in ApiType, NEW R, NEW D, NEW x, ChanInv(s, R, D, x),
           NEW Q \in RecType, NEW E \in DcbType, NEW r \in Recs, NEW c \in Chains,
           ~s.warm, Given(s, t, r), GivenTo(R, D, Q, E, r, c)
    PROVE  ChanInv(t, Q, E, x)
<1> DEFINE L == Len(s.api_dcb_list)
<1>. USE DEF GivenTo
<1>0. s \in ApiType /\ R \in RecType /\ D \in DcbType /\ x \in HandlerType
  BY DEF ChanInv
<1>1. L \in Nat /\ \A n \in 1 .. L : s.api_dcb_list[n] \in Recs /\ s.api_dcb_list[n] # None
  BY <1>0, ListFields
<1>2. /\ Len(t.api_dcb_list) = L + 1 /\ t.api_dcb_list[L + 1] = r
      /\ \A n \in 1 .. L : t.api_dcb_list[n] = s.api_dcb_list[n]
  <2>1. s.api_dcb_list \in Seq(Recs)
    BY <1>0, ApiFields
  <2>. QED  BY <2>1, AppendProperties DEF Given
<1>3. 1 \in Idx /\ s.api_dcb_chain \in Recs \cup {None} /\ r # None
  BY <1>0, ApiFields, StoppedFields DEF Recs, None
<1>4. \A n \in 1 .. L : /\ s.api_dcb_list[n] # r
                        /\ R[s.api_dcb_list[n]].chain \in Chains
                        /\ R[s.api_dcb_list[n]].chain # c
  <2>1. \A n \in 1 .. L : R[s.api_dcb_list[n]].used /\ R[s.api_dcb_list[n]].chain \in Chains
    BY <1>0, <1>1, RecFields DEF ChanInv, ListOK
  <2>2. \A n \in 1 .. L : D[R[s.api_dcb_list[n]].chain][1] = "new"
    BY <1>1, <1>3 DEF ChanInv, ListOK
  <2>. QED  BY <1>3, <2>1, <2>2
<1>5. s.api_dcb_chain # r
  BY <1>3 DEF ChanInv, ListOK
<1>6. s.api_dcb_chain # None =>
          /\ ChainOf(s, R) \in Chains /\ Cur(t, Q) = Cur(s, R) /\ ChainOf(t, Q) = ChainOf(s, R)
          /\ Cur(s, R) \in 1 .. DCB_CNT + 1
  BY <1>0, <1>3, <1>5, RecFields DEF Given, Cur, ChainOf
<1>7. s.api_dcb_chain # None /\ ChainOf(s, R) = c =>
          Passed(s, R) /\ x.pc # "deliver" /\ s.dma.st = "idle" /\ ~s.use_rx_skb
  BY ActiveGiven
<1>. HIDE DEF L
<1>8. ListOK(t, Q, E)
  <2>1. ListOK(s, R, D)
    BY DEF ChanInv
  <2>2. \A n \in 1 .. L + 1 : n \in 1 .. L \/ n = L + 1
    BY <1>1
  <2>3. \A n \in 1 .. L : n \in 1 .. L + 1 /\ n # L + 1
    BY <1>1
  <2>4. L + 1 \in 1 .. L + 1
    BY <1>1
  <2>5. \A n \in 1 .. L + 1 :
          /\ Q[t.api_dcb_list[n]].used /\ Q[t.api_dcb_list[n]].cur = 1
          /\ t.api_dcb_list[n] # t.api_dcb_chain
          /\ \A i \in Idx : E[Q[t.api_dcb_list[n]].chain][i] = "new"
    <3>1. ASSUME NEW n \in 1 .. L
          PROVE  /\ Q[t.api_dcb_list[n]].used /\ Q[t.api_dcb_list[n]].cur = 1
                 /\ t.api_dcb_list[n] # t.api_dcb_chain
                 /\ \A i \in Idx : E[Q[t.api_dcb_list[n]].chain][i] = "new"
      <4>1. /\ R[s.api_dcb_list[n]].used /\ R[s.api_dcb_list[n]].cur = 1
            /\ s.api_dcb_list[n] # s.api_dcb_chain
            /\ \A i \in Idx : D[R[s.api_dcb_list[n]].chain][i] = "new"
        BY <2>1 DEF ListOK, L
      <4>2. Q[t.api_dcb_list[n]] = R[s.api_dcb_list[n]]
        BY <1>1, <1>2, <1>4
      <4>3. E[R[s.api_dcb_list[n]].chain] = D[R[s.api_dcb_list[n]].chain]
        BY <1>4
      <4>4. t.api_dcb_list[n] = s.api_dcb_list[n] /\ t.api_dcb_chain = s.api_dcb_chain
        BY <1>2 DEF Given
      <4>5. \A i \in Idx : E[R[s.api_dcb_list[n]].chain][i] = "new"
        BY <4>1, <4>3
      <4>. QED  BY <4>1, <4>2, <4>4, <4>5
    <3>. QED  BY <1>2, <1>5, <2>2, <3>1 DEF Given
  <2>6. ASSUME NEW m \in 1 .. L + 1, NEW n \in 1 .. L + 1, m # n
        PROVE  /\ t.api_dcb_list[m] # t.api_dcb_list[n]
               /\ Q[t.api_dcb_list[m]].chain # Q[t.api_dcb_list[n]].chain
    <3>1. ASSUME m \in 1 .. L, n \in 1 .. L
          PROVE  /\ s.api_dcb_list[m] # s.api_dcb_list[n]
                 /\ R[s.api_dcb_list[m]].chain # R[s.api_dcb_list[n]].chain
      BY <2>1, <2>6, <3>1, Zenon DEF ListOK, L
    <3>2. \A k \in 1 .. L : Q[t.api_dcb_list[k]] = R[s.api_dcb_list[k]]
      BY <1>1, <1>2, <1>4
    <3>. QED  BY <1>2, <1>4, <2>2, <2>6, <3>1, <3>2
  <2>7. ASSUME NEW q \in Recs, Q[q].used
        PROVE  \/ q = t.api_dcb_chain
               \/ \E n \in 1 .. L + 1 : t.api_dcb_list[n] = q
    <3>1. CASE q = r
      BY <1>2, <2>4, <3>1
    <3>2. CASE q # r
      <4>1. \/ q = s.api_dcb_chain
            \/ \E n \in 1 .. L : s.api_dcb_list[n] = q
        BY <2>1, <2>7, <3>2 DEF ListOK, L
      <4>. QED  BY <4>1, <1>2, <2>3 DEF Given
    <3>. QED  BY <3>1, <3>2
  <2>8. /\ t.api_dcb_chain # None => Q[t.api_dcb_chain].used
        /\ t.api_active <=> t.api_dcb_chain # None
    BY <1>3, <1>5, <2>1 DEF ListOK, Given
  <2>. QED  BY <1>2, <2>5, <2>6, <2>7, <2>8 DEF ListOK
<1>9. ActiveOK(t, Q, E, x)
  <2> SUFFICES ASSUME t.api_dcb_chain # None
               PROVE  ActiveOK(t, Q, E, x)
    BY DEF ActiveOK
  <2>1. s.api_dcb_chain # None /\ (Passed(t, Q) <=> Passed(s, R))
    BY <1>6 DEF Given, Passed
  <2>2. ASSUME NEW n \in 1 .. L + 1, Q[t.api_dcb_list[n]].chain = ChainOf(t, Q)
        PROVE  Passed(t, Q)
    <3>1. CASE n = L + 1
      BY <1>2, <1>6, <1>7, <2>1, <2>2, <3>1
    <3>2. CASE n \in 1 .. L
      <4>1. Q[t.api_dcb_list[n]] = R[s.api_dcb_list[n]]
        BY <1>1, <1>2, <1>4, <3>2
      <4>. QED  BY <1>6, <2>1, <2>2, <3>2, <4>1 DEF ChanInv, ActiveOK, L
    <3>. QED  BY <1>1, <3>1, <3>2
  <2>3. CASE ChainOf(s, R) = c
    <3>1. \A i \in Idx : ~(Cur(s, R) <= i)
      BY <1>6, <1>7, <2>1, <2>3 DEF Passed, Idx
    <3>. QED  BY <1>2, <1>6, <1>7, <2>1, <2>2, <2>3, <3>1 DEF ChanInv, ActiveOK, Given
  <2>4. CASE ChainOf(s, R) # c
    <3>1. E[ChainOf(s, R)] = D[ChainOf(s, R)]
      BY <1>6, <2>1, <2>4
    <3>. QED  BY <1>2, <1>6, <2>1, <2>2, <3>1 DEF ChanInv, ActiveOK, Given
  <2>. QED  BY <2>3, <2>4
<1>10. HwOK(t, Q, E)
  <2>1. \A b \in Chains, i \in Idx : E[b][i] = "filled" => D[b][i] = "filled"
    <3>1. ASSUME NEW b \in Chains, NEW i \in Idx, E[b][i] = "filled"
          PROVE  D[b][i] = "filled"
      BY <3>1
    <3>. QED  BY <3>1
  <2>. QED  BY <1>6, <2>1 DEF ChanInv, HwOK, Given, AtEnd
<1>11. HandlerOK(t, Q, E, x)
  <2>1. x.pc = "deliver" => E[ChainOf(s, R)] = D[ChainOf(s, R)]
    BY <1>6, <1>7 DEF ChanInv, HandlerOK
  <2>. QED  BY <1>6, <2>1 DEF ChanInv, HandlerOK, Given, AtEnd, Passed
<1>. QED  BY <1>0, <1>8, <1>9, <1>10, <1>11 DEF ChanInv

LEMMA QueueStep ==
    ASSUME NEW c \in Chains, ApiInv, bkn_knet_dma_info(c),
           \E r \in Recs : kmalloc(r) /\ QueueChain(r, c)
    PROVE  ApiInv'
<1>0. api \in ApiType /\ rec \in RecType /\ dcb \in DcbType /\ ChanInv(api, rec, dcb, h)
  BY DEF ApiInv, ChanInv
<1>1. PICK r \in Recs :
           /\ ~rec[r].used
           /\ rec' = [rec EXCEPT ![r] = [used |-> TRUE, chain |-> c, cur |-> 1]]
           /\ dcb' = [dcb EXCEPT ![c] = [i \in Idx |-> "new"]]
           /\ LET s == [api EXCEPT !.api_dcb_list = Append(@, r)]
              IN  api' = IF s.api_active THEN s ELSE bkn_api_rx_restart(s, rec')
  BY Zenon DEF kmalloc, QueueChain
<1> DEFINE s == [api EXCEPT !.api_dcb_list = Append(@, r)]
<1>2. /\ h.pc \in {"idle", "deliver"} /\ ~api.warm /\ h' = h
      /\ \A i \in Idx : dcb[c][i] = "own"
  BY DEF bkn_knet_dma_info, LockFree
<1>3. s \in ApiType /\ Given(api, s, r)
  <2>1. Append(api.api_dcb_list, r) \in Seq(Recs)
    BY <1>0, ApiFields, AppendProperties
  <2>. QED  BY <1>0, <2>1 DEF ApiType, Given
<1>4. /\ rec' \in RecType
      /\ \A q \in Recs : q # r => rec'[q] = rec[q]
      /\ rec'[r].used /\ rec'[r].chain = c /\ rec'[r].cur = 1
  BY <1>0, <1>1 DEF RecType
<1>5. /\ dcb' \in DcbType
      /\ \A b \in Chains : b # c => dcb'[b] = dcb[b]
      /\ \A i \in Idx : dcb'[c][i] = "new"
  BY <1>0, <1>1 DEF DcbType, DcbStates
<1>. HIDE DEF s
<1>6. ChanInv(s, rec', dcb', h)
  <2>1. GivenTo(rec, dcb, rec', dcb', r, c)
    BY <1>1, <1>2, <1>4, <1>5 DEF GivenTo
  <2>. QED  BY <1>0, <1>2, <1>3, <1>4, <1>5, <2>1, GiveInv, Zenon
<1>7. s.api_active <=> s.api_dcb_chain # None
  BY <1>6 DEF ChanInv, ListOK
<1>8. api' = bkn_api_rx_restart(s, rec')
  <2>1. CASE s.api_active
    <3>1. api' = s
      BY <1>1, <2>1, Zenon DEF s
    <3>2. bkn_api_rx_restart(s, rec') = s
      BY <1>7, <2>1, Zenon DEF bkn_api_rx_restart
    <3>. QED  BY <3>1, <3>2
  <2>2. CASE ~s.api_active
    BY <1>1, <2>2, Zenon DEF s
  <2>. QED  BY <2>1, <2>2
<1>9. h.pc = "idle" \/ s.api_dcb_chain # None
  BY <1>2, <1>6 DEF ChanInv, HandlerOK
<1>. QED  BY <1>2, <1>6, <1>8, <1>9, RestartInv DEF ApiInv

LEMMA DmaInfoStep ==
    ASSUME NEW c \in Chains, ApiInv, bkn_knet_dma_info(c)
    PROVE  ApiInv'
<1>1. \/ UNCHANGED <<dcb, rec, api, h>>
      \/ \E r \in Recs : kmalloc(r) /\ QueueChain(r, c)
  BY Zenon DEF bkn_knet_dma_info, RefuseChain
<1>2. CASE UNCHANGED <<dcb, rec, api, h>>
  BY <1>2, Zenon DEF ApiInv
<1>3. CASE \E r \in Recs : kmalloc(r) /\ QueueChain(r, c)
  BY <1>3, QueueStep
<1>. QED  BY <1>1, <1>2, <1>3

-----------------------------------------------------------------------------
(* The hardware fills the DCB it works on, and goes on to the next one.    *)
Filled(s, t) ==
    /\ t.use_rx_skb <=> s.use_rx_skb
    /\ t.posted <=> s.posted
    /\ t.api_dcb_list = s.api_dcb_list
    /\ t.api_dcb_chain = s.api_dcb_chain
    /\ t.api_active <=> s.api_active
    /\ t.chain_complete <=> s.chain_complete
    /\ t.warm <=> s.warm
    /\ ~t.late
    /\ t.chain_done => s.chain_done \/ s.dma.idx = DCB_CNT
    /\ s.dma.idx = DCB_CNT => t.dma = Stopped
    /\ s.dma.idx # DCB_CNT => /\ t.dma.st = "rx" /\ t.dma.chain = s.dma.chain
                              /\ t.dma.idx = s.dma.idx + 1

FilledDcb(s, D, E) ==
    /\ \A b \in Chains : b # s.dma.chain => E[b] = D[b]
    /\ \A i \in Idx : i # s.dma.idx => E[s.dma.chain][i] = D[s.dma.chain][i]
    /\ E[s.dma.chain][s.dma.idx] = "filled"

LEMMA FillInv ==
    ASSUME NEW s, NEW t \in ApiType, NEW R, NEW D, NEW E \in DcbType, NEW x,
           ChanInv(s, R, D, x), s.dma.st = "rx", Filled(s, t), FilledDcb(s, D, E)
    PROVE  ChanInv(t, R, E, x)
<1> DEFINE L == Len(s.api_dcb_list)
           a == s.api_dcb_chain
<1>0. s \in ApiType /\ R \in RecType /\ D \in DcbType /\ x \in HandlerType
  BY DEF ChanInv
<1>1. L \in Nat /\ \A n \in 1 .. L : s.api_dcb_list[n] \in Recs
  BY <1>0, ListFields
<1>2. a \in Recs \cup {None} /\ s.dma.idx \in Idx /\ s.dma.chain \in Chains
      /\ Stopped.st = "idle" /\ s.dma # Stopped
  BY <1>0, ApiFields, StoppedFields
<1>3. a # None =>
        /\ ~s.warm /\ ~s.use_rx_skb
        /\ ChainOf(s, R) \in Chains /\ Cur(s, R) \in Nat /\ s.dma.chain = ChainOf(s, R)
        /\ Cur(s, R) <= s.dma.idx /\ ~Passed(s, R)
        /\ Cur(t, R) = Cur(s, R) /\ ChainOf(t, R) = ChainOf(s, R)
  <2> SUFFICES ASSUME a # None
               PROVE  /\ ~s.warm /\ ~s.use_rx_skb
                      /\ ChainOf(s, R) \in Chains /\ Cur(s, R) \in Nat
                      /\ s.dma.chain = ChainOf(s, R)
                      /\ Cur(s, R) <= s.dma.idx /\ ~Passed(s, R)
                      /\ Cur(t, R) = Cur(s, R) /\ ChainOf(t, R) = ChainOf(s, R)
    OBVIOUS
  <2>1. ~s.warm /\ ~s.use_rx_skb
    BY <1>2 DEF ChanInv, HwOK
  <2>2. ChainOf(s, R) \in Chains /\ Cur(s, R) \in Nat
    BY <1>0, <1>2, RecFields DEF ChainOf, Cur
  <2>3. s.dma.chain = ChainOf(s, R) /\ Cur(s, R) <= s.dma.idx
    BY <2>1 DEF ChanInv, ActiveOK
  <2>4. ~Passed(s, R)
    BY <1>2, <2>2, <2>3 DEF Passed, Idx
  <2>. QED  BY <2>1, <2>2, <2>3, <2>4 DEF Filled, Cur, ChainOf
<1>4. a = None => s.warm /\ L = 0
  <2>1. a = None => s.warm
    BY <1>2 DEF ChanInv, HwOK
  <2>2. s.warm => s.api_dcb_list = <<>>
    BY DEF ChanInv, HwOK
  <2>. QED  BY <2>1, <2>2
<1>5. \A n \in 1 .. L : /\ a # None /\ R[s.api_dcb_list[n]].chain \in Chains
                        /\ R[s.api_dcb_list[n]].chain # s.dma.chain
  BY <1>0, <1>1, <1>3, <1>4, RecFields DEF ChanInv, ActiveOK
<1>6. ListOK(t, R, E)
  <2>1. \A n \in 1 .. L : E[R[s.api_dcb_list[n]].chain] = D[R[s.api_dcb_list[n]].chain]
    BY <1>5 DEF FilledDcb
  <2>2. ASSUME NEW n \in 1 .. L
        PROVE  \A i \in Idx : E[R[s.api_dcb_list[n]].chain][i] = "new"
    BY <2>1 DEF ChanInv, ListOK
  <2>. QED  BY <2>2 DEF ChanInv, ListOK, Filled
<1>. HIDE DEF L
<1>7. \A i \in Idx : i # s.dma.idx => E[s.dma.chain][i] = D[s.dma.chain][i]
  BY DEF FilledDcb
<1>8. E[s.dma.chain][s.dma.idx] = "filled"
  BY DEF FilledDcb
<1>9. \A b \in Chains : b # s.dma.chain => E[b] = D[b]
  BY DEF FilledDcb
<1>10. ActiveOK(t, R, E, x)
  <2> SUFFICES ASSUME t.api_dcb_chain # None
               PROVE  ActiveOK(t, R, E, x)
    BY DEF ActiveOK
  <2>1. a # None /\ (Passed(t, R) <=> Passed(s, R))
    BY <1>3 DEF Filled, Passed
  <2>2. \A n \in 1 .. Len(t.api_dcb_list) :
            R[t.api_dcb_list[n]].chain = ChainOf(t, R) => Passed(t, R)
    BY <1>3, <1>5, <2>1 DEF Filled, L
  <2>3. /\ \A i \in Idx : Cur(s, R) <= i /\ i < s.dma.idx => D[s.dma.chain][i] = "filled"
        /\ \A i \in Idx : s.dma.idx <= i => D[s.dma.chain][i] = "new"
    BY <1>3, <2>1 DEF ChanInv, ActiveOK
  <2>4. CASE s.dma.idx = DCB_CNT
    <3>1. t.dma.st = "idle"
      BY <1>2, <2>4 DEF Filled
    <3>2. \A i \in Idx : Cur(t, R) <= i => E[s.dma.chain][i] = "filled"
      BY <1>3, <1>7, <1>8, <2>1, <2>3, <2>4 DEF Idx
    <3>. QED  BY <1>3, <2>1, <2>2, <3>1, <3>2 DEF ChanInv, ActiveOK, Filled
  <2>5. CASE s.dma.idx # DCB_CNT
    <3>1. t.dma.st = "rx" /\ t.dma.chain = s.dma.chain /\ t.dma.idx = s.dma.idx + 1
      BY <2>5 DEF Filled
    <3>2. Cur(t, R) <= t.dma.idx
      BY <1>2, <1>3, <2>1, <3>1 DEF Idx
    <3>3. \A i \in Idx :
            /\ Cur(t, R) <= i /\ i < t.dma.idx => E[s.dma.chain][i] = "filled"
            /\ t.dma.idx <= i => E[s.dma.chain][i] = "new"
      BY <1>2, <1>3, <1>7, <1>8, <2>1, <2>3, <3>1 DEF Idx
    <3>. QED  BY <1>3, <2>1, <2>2, <3>1, <3>2, <3>3 DEF ChanInv, ActiveOK, Filled
  <2>. QED  BY <2>4, <2>5
<1>11. AtEnd(s) => AtEnd(t)
  BY <1>2 DEF AtEnd, Filled
<1>12. HwOK(t, R, E)
  <2>1. ASSUME NEW b \in Chains, NEW i \in Idx, E[b][i] = "filled", ~s.warm
        PROVE  a # None /\ ChainOf(s, R) = b /\ Cur(s, R) <= i
    <3>1. a # None
      BY <1>4, <2>1
    <3>2. CASE b = s.dma.chain /\ i = s.dma.idx
      BY <1>3, <3>1, <3>2
    <3>3. CASE ~(b = s.dma.chain /\ i = s.dma.idx)
      <4>1. D[b][i] = "filled"
        BY <1>7, <1>9, <2>1, <3>3
      <4>. QED  BY <2>1, <4>1 DEF ChanInv, HwOK
    <3>. QED  BY <3>2, <3>3
  <2>2. /\ t.dma.st # "clash" /\ (t.dma.st = "idle" => t.dma = Stopped)
        /\ t.api_dcb_chain # None /\ t.chain_done => AtEnd(t)
    <3>1. t.dma.st # "clash" /\ (t.dma.st = "idle" => t.dma = Stopped)
      BY <1>2 DEF Filled
    <3>2. ASSUME t.api_dcb_chain # None, t.chain_done  PROVE AtEnd(t)
      <4>1. CASE s.dma.idx = DCB_CNT
        BY <4>1 DEF AtEnd, Filled
      <4>2. CASE s.dma.idx # DCB_CNT
        BY <1>3, <1>11, <3>2, <4>2 DEF ChanInv, HwOK, Filled
      <4>. QED  BY <4>1, <4>2
    <3>. QED  BY <3>1, <3>2
  <2>. QED  BY <1>2, <1>3, <1>4, <2>1, <2>2 DEF ChanInv, HwOK, Filled
<1>13. HandlerOK(t, R, E, x)
  <2>1. x.pc = "deliver" => E[ChainOf(s, R)][Cur(s, R)] = "filled"
    <3> SUFFICES ASSUME x.pc = "deliver"
                 PROVE  E[ChainOf(s, R)][Cur(s, R)] = "filled"
      OBVIOUS
    <3>1. a # None /\ Cur(s, R) <= DCB_CNT /\ D[ChainOf(s, R)][Cur(s, R)] = "filled"
      BY DEF ChanInv, HandlerOK
    <3>2. Cur(s, R) \in Idx
      BY <1>0, <1>2, <3>1, RecFields DEF Cur, Idx
    <3>. QED  BY <1>3, <1>7, <1>8, <3>1, <3>2
  <2>. QED  BY <1>2, <1>3, <1>11, <2>1 DEF ChanInv, HandlerOK, Filled, Passed
<1>. QED  BY <1>0, <1>6, <1>10, <1>12, <1>13 DEF ChanInv

LEMMA FillDcb ==
    ASSUME NEW s \in ApiType, NEW D \in DcbType
    PROVE  LET E == [D EXCEPT ![s.dma.chain][s.dma.idx] = "filled"]
           IN  E \in DcbType /\ FilledDcb(s, D, E)
<1>1. s.dma.chain \in Chains /\ s.dma.idx \in Idx
  BY ApiFields
<1>. QED  BY <1>1 DEF DcbType, DcbStates, FilledDcb

(* Where DCB writes are late, the status comes first.                      *)
LEMMA LateInv ==
    ASSUME NEW s, NEW t \in ApiType, NEW R, NEW D, NEW x,
           ChanInv(s, R, D, x), s.dma.st = "rx", s.posted, ~s.late,
           Like([s EXCEPT !.late = TRUE], t),
           t.chain_done => s.chain_done \/ s.dma.idx = DCB_CNT
    PROVE  ChanInv(t, R, D, x)
<1>0. s \in ApiType
  BY DEF ChanInv
<1>1. /\ t.use_rx_skb <=> s.use_rx_skb
      /\ t.posted <=> s.posted
      /\ t.api_dcb_list = s.api_dcb_list
      /\ t.api_dcb_chain = s.api_dcb_chain
      /\ t.api_active <=> s.api_active
      /\ t.chain_complete <=> s.chain_complete
      /\ t.late
      /\ t.warm <=> s.warm
      /\ t.dma = s.dma
  BY <1>0 DEF Like, ApiType
<1>2. s.dma # Stopped /\ ~AtEnd(s)
  BY StoppedFields DEF AtEnd
<1>3. ListOK(t, R, D)
  BY <1>1 DEF ChanInv, ListOK
<1>4. ActiveOK(t, R, D, x)
  BY <1>1 DEF ChanInv, ActiveOK, Cur, ChainOf, Passed
<1>5. HwOK(t, R, D)
  BY <1>1, <1>2 DEF ChanInv, HwOK, Cur, ChainOf, AtEnd
<1>6. HandlerOK(t, R, D, x)
  BY <1>1, <1>2 DEF ChanInv, HandlerOK, Cur, ChainOf, Passed, AtEnd
<1>. QED  BY <1>3, <1>4, <1>5, <1>6 DEF ChanInv

LEMMA HwRxDoneStep == ASSUME ApiInv, HwRxDone PROVE ApiInv'
<1> DEFINE i == api.dma.idx
           s1 == [api EXCEPT !.desc_done = TRUE, !.late = api.posted,
                             !.chain_done = @ \/ i = DCB_CNT]
           s2 == [s1 EXCEPT !.dma = IF i = DCB_CNT THEN Stopped ELSE [@ EXCEPT !.idx = i + 1]]
<1>0. /\ api \in ApiType /\ rec \in RecType /\ dcb \in DcbType /\ ChanInv(api, rec, dcb, h)
      /\ api.dma.st = "rx" /\ ~api.late /\ rec' = rec /\ h' = h
  BY DEF ApiInv, ChanInv, HwRxDone
<1>1. /\ api.dma \in [st : {"idle", "rx", "clash"}, chain : Chains, idx : Idx]
      /\ i \in Idx /\ api.posted \in BOOLEAN
  BY <1>0, ApiFields
<1>2. s1 \in ApiType
  BY <1>0, <1>1 DEF ApiType
<1>3. CASE api.posted
  <2>1. api' = s1 /\ dcb' = dcb
    BY <1>3, Zenon DEF HwRxDone
  <2>2. /\ Like([api EXCEPT !.late = TRUE], s1)
        /\ s1.chain_done => api.chain_done \/ api.dma.idx = DCB_CNT
    BY <1>0, <1>3 DEF ApiType, Like
  <2>. HIDE DEF s1
  <2>3. ChanInv(s1, rec, dcb, h)
    BY <1>0, <1>2, <1>3, <2>2, LateInv
  <2>. QED  BY <1>0, <2>1, <2>3, Zenon DEF ApiInv
<1>4. CASE ~api.posted
  <2>1. api' = s2 /\ dcb' = [dcb EXCEPT ![api.dma.chain][i] = "filled"]
    BY <1>4, Zenon DEF HwRxDone
  <2>2. (IF i = DCB_CNT THEN Stopped ELSE [s1.dma EXCEPT !.idx = i + 1])
            \in [st : {"idle", "rx", "clash"}, chain : Chains, idx : Idx]
    <3>1. s1.dma = api.dma
      BY <1>0 DEF ApiType
    <3>2. i # DCB_CNT => i + 1 \in Idx
      BY <1>1 DEF Idx
    <3>. QED  BY <1>1, <3>1, <3>2, StoppedFields
  <2>3. s2 \in ApiType
    <3>. HIDE DEF s1, i
    <3>. QED  BY <1>2, <2>2 DEF ApiType
  <2>4. Filled(api, s2)
    BY <1>0, <1>1, <1>4 DEF ApiType, Filled
  <2>. HIDE DEF s2
  <2>5. dcb' \in DcbType /\ FilledDcb(api, dcb, dcb')
    BY <1>0, <2>1, FillDcb, Zenon
  <2>6. ChanInv(s2, rec, dcb', h)
    BY <1>0, <2>3, <2>4, <2>5, FillInv
  <2>. QED  BY <1>0, <2>1, <2>6, Zenon DEF ApiInv
<1>. QED  BY <1>3, <1>4

LEMMA HwWriteBackStep == ASSUME ApiInv, HwWriteBack PROVE ApiInv'
<1> DEFINE i == api.dma.idx
           d == IF api.dma.idx = DCB_CNT THEN Stopped ELSE [api.dma EXCEPT !.idx = @ + 1]
           t == [api EXCEPT !.late = FALSE, !.dma = d]
<1>0. /\ api \in ApiType /\ rec \in RecType /\ dcb \in DcbType /\ ChanInv(api, rec, dcb, h)
      /\ api.late /\ rec' = rec /\ h' = h
      /\ dcb' = [dcb EXCEPT ![api.dma.chain][i] = "filled"] /\ api' = t
  BY Zenon DEF ApiInv, ChanInv, HwWriteBack
<1>1. /\ api.dma \in [st : {"idle", "rx", "clash"}, chain : Chains, idx : Idx]
      /\ i \in Idx /\ api.dma.st = "rx"
  <2>1. HwOK(api, rec, dcb)
    BY <1>0, Zenon DEF ChanInv
  <2>. QED  BY <1>0, <2>1, ApiFields DEF HwOK
<1>2. /\ d \in [st : {"idle", "rx", "clash"}, chain : Chains, idx : Idx]
      /\ i = DCB_CNT => d = Stopped
      /\ i # DCB_CNT => d.st = "rx" /\ d.chain = api.dma.chain /\ d.idx = i + 1
  <2>1. i # DCB_CNT => i + 1 \in Idx
    BY <1>1 DEF Idx
  <2>. QED  BY <1>1, <2>1, StoppedFields
<1>. HIDE DEF d
<1>3. t \in ApiType
  BY <1>0, <1>2 DEF ApiType
<1>4. Filled(api, t)
  BY <1>0, <1>1, <1>2 DEF ApiType, Filled
<1>. HIDE DEF t
<1>5. dcb' \in DcbType /\ FilledDcb(api, dcb, dcb')
  BY <1>0, FillDcb, Zenon
<1>6. ChanInv(t, rec, dcb', h)
  BY <1>0, <1>1, <1>3, <1>4, <1>5, FillInv
<1>. QED  BY <1>0, <1>6, Zenon DEF ApiInv

-----------------------------------------------------------------------------
(* The handler of the channel. *)
LEMMA HandlerStep ==
    ASSUME NEW s, NEW R, NEW D, NEW x, NEW y \in HandlerType,
           ChanInv(s, R, D, x), x.pc # "deliver", HandlerOK(s, R, D, y)
    PROVE  ChanInv(s, R, D, y)
BY DEF ChanInv, ActiveOK

LEMMA BeginDmaStep ==
    ASSUME NEW by \in {"isr", "open"}, ApiInv, h.pc = "idle", ~api.use_rx_skb,
           BeginDma(by), UNCHANGED <<dcb, rec>>
    PROVE  ApiInv'
<1>0. /\ api \in ApiType /\ ChanInv(api, rec, dcb, h) /\ dcb' = dcb /\ rec' = rec
      /\ HwOK(api, rec, dcb)
  BY DEF ApiInv, ChanInv
<1>1. PICK polled \in BOOLEAN :
        /\ api' = [api EXCEPT !.desc_done = FALSE]
        /\ h' = [HandlerIdle EXCEPT !.pc = IF polled THEN "rx" ELSE "chain", !.by = by,
                                    !.stat = api.chain_done,
                                    !.rec = IF polled THEN api.api_dcb_chain ELSE None]
  BY Zenon DEF BeginDma
<1> DEFINE t == [api EXCEPT !.desc_done = FALSE]
<1>2. t \in ApiType /\ Like(api, t) /\ (t.chain_done <=> api.chain_done)
  <2>1. t \in ApiType
    BY <1>0 DEF ApiType
  <2>2. Like(api, t)
    BY <1>0 DEF ApiType, Like
  <2>3. t.chain_done <=> api.chain_done
    BY <1>0 DEF ApiType
  <2>. QED  BY <2>1, <2>2, <2>3
<1>. HIDE DEF t
<1>3. ChanInv(t, rec, dcb, h)
  BY <1>0, <1>2, LikeInv
<1>4. /\ h'.pc \in {"rx", "chain"} /\ h'.retry = 0 /\ (h'.stat <=> api.chain_done)
      /\ h'.pc = "rx" => h'.rec = api.api_dcb_chain
      /\ h' \in HandlerType
  <2>1. api.chain_done \in BOOLEAN /\ api.api_dcb_chain \in Recs \cup {None}
    BY <1>0, ApiFields
  <2>2. HandlerIdle \in HandlerType /\ HandlerIdle.retry = 0
    BY DEF HandlerIdle, HandlerType, Recs, None
  <2>3. CASE polled
    BY <1>1, <2>1, <2>2, <2>3 DEF HandlerType
  <2>4. CASE ~polled
    BY <1>1, <2>1, <2>2, <2>4 DEF HandlerType, None
  <2>. QED  BY <2>3, <2>4
<1>5. HandlerOK(t, rec, dcb, h')
  <2>1. t.api_dcb_chain # None /\ t.chain_done => AtEnd(t)
    BY <1>3 DEF ChanInv, HwOK
  <2>2. t.api_dcb_chain = api.api_dcb_chain /\ ~t.use_rx_skb
    BY <1>2 DEF Like
  <2>. QED  BY <1>2, <1>4, <2>1, <2>2 DEF HandlerOK
<1>6. ChanInv(t, rec, dcb, h')
  BY <1>3, <1>4, <1>5, HandlerStep
<1>7. api' = t
  BY <1>1, Zenon DEF t
<1>. QED  BY <1>0, <1>6, <1>7, Zenon DEF ApiInv

LEMMA DoDmaStep == ASSUME ApiInv, DoDma PROVE ApiInv'
BY BeginDmaStep DEF DoDma

(* The driver passes a DCB that the hardware has filled.                   *)
PassedOne(s, t, R, Q, D, E) ==
    /\ t.use_rx_skb <=> s.use_rx_skb
    /\ t.posted <=> s.posted
    /\ t.api_dcb_list = s.api_dcb_list
    /\ t.api_dcb_chain = s.api_dcb_chain
    /\ t.api_active <=> s.api_active
    /\ t.chain_complete <=> s.chain_complete \/ Cur(s, R) = DCB_CNT
    /\ t.chain_done <=> s.chain_done
    /\ t.late <=> s.late
    /\ t.warm <=> s.warm
    /\ t.dma = s.dma
    /\ \A r \in Recs : /\ Q[r].used <=> R[r].used
                       /\ Q[r].chain = R[r].chain
                       /\ r # s.api_dcb_chain => Q[r].cur = R[r].cur
    /\ Q[s.api_dcb_chain].cur = Cur(s, R) + 1
    /\ \A b \in Chains : b # ChainOf(s, R) => E[b] = D[b]
    /\ \A i \in Idx : i # Cur(s, R) => E[ChainOf(s, R)][i] = D[ChainOf(s, R)][i]
    /\ E[ChainOf(s, R)][Cur(s, R)] = "done"

(* What it does with the queue is nothing, as no other record has the      *)
(* chain unless all of it was passed.                                      *)
LEMMA PassList ==
    ASSUME NEW s, NEW t \in ApiType, NEW R, NEW D, NEW x, ChanInv(s, R, D, x),
           NEW Q \in RecType, NEW E \in DcbType,
           s.api_dcb_chain # None, ~Passed(s, R), PassedOne(s, t, R, Q, D, E)
    PROVE  ListOK(t, Q, E) /\ \A n \in 1 .. Len(t.api_dcb_list) :
                                 Q[t.api_dcb_list[n]].chain # ChainOf(t, Q)
<1> DEFINE L == Len(s.api_dcb_list)
           a == s.api_dcb_chain
<1>0. s \in ApiType /\ R \in RecType /\ D \in DcbType /\ a \in Recs
  BY ApiFields DEF ChanInv
<1>1. L \in Nat /\ \A n \in 1 .. L : s.api_dcb_list[n] \in Recs
  BY <1>0, ListFields
<1>2. ASSUME NEW n \in 1 .. L
      PROVE  /\ Q[s.api_dcb_list[n]].used /\ Q[s.api_dcb_list[n]].cur = 1
             /\ Q[s.api_dcb_list[n]].chain = R[s.api_dcb_list[n]].chain
             /\ R[s.api_dcb_list[n]].chain \in Chains
             /\ R[s.api_dcb_list[n]].chain # ChainOf(s, R)
             /\ \A i \in Idx : E[R[s.api_dcb_list[n]].chain][i] = "new"
  <2>1. R[s.api_dcb_list[n]].chain \in Chains /\ s.api_dcb_list[n] \in Recs
    BY <1>0, <1>1, RecFields
  <2>2. R[s.api_dcb_list[n]].chain # ChainOf(s, R)
    BY DEF ChanInv, ActiveOK
  <2>3. /\ R[s.api_dcb_list[n]].used /\ R[s.api_dcb_list[n]].cur = 1
        /\ s.api_dcb_list[n] # a
        /\ \A i \in Idx : D[R[s.api_dcb_list[n]].chain][i] = "new"
    BY DEF ChanInv, ListOK
  <2>4. E[R[s.api_dcb_list[n]].chain] = D[R[s.api_dcb_list[n]].chain]
    BY <2>1, <2>2 DEF PassedOne
  <2>. QED  BY <2>1, <2>2, <2>3, <2>4 DEF PassedOne
<1>3. ListOK(t, Q, E)
  <2>1. t.api_dcb_list = s.api_dcb_list /\ t.api_dcb_chain = a /\ (t.api_active <=> s.api_active)
    BY DEF PassedOne
  <2>2. \A r \in Recs : Q[r].used <=> R[r].used
    BY DEF PassedOne
  <2>3. \A m, n \in 1 .. L : m # n =>
            Q[s.api_dcb_list[m]].chain # Q[s.api_dcb_list[n]].chain
    BY <1>2 DEF ChanInv, ListOK
  <2>4. \A n \in 1 .. L : \A i \in Idx : E[Q[s.api_dcb_list[n]].chain][i] = "new"
    BY <1>2
  <2>. QED  BY <1>0, <1>2, <2>1, <2>2, <2>3, <2>4 DEF ChanInv, ListOK
<1>4. ChainOf(t, Q) = ChainOf(s, R)
  BY <1>0 DEF PassedOne, ChainOf
<1>. QED  BY <1>2, <1>3, <1>4 DEF PassedOne

LEMMA PassInv ==
    ASSUME NEW s, NEW t \in ApiType, NEW R, NEW D, NEW x, ChanInv(s, R, D, x),
           NEW Q \in RecType, NEW E \in DcbType, NEW y \in HandlerType,
           s.api_dcb_chain # None, ~s.use_rx_skb, Cur(s, R) <= DCB_CNT,
           D[ChainOf(s, R)][Cur(s, R)] = "filled",
           PassedOne(s, t, R, Q, D, E), x.pc # "idle", y.pc = "rx",
           y.rec = s.api_dcb_chain, y.stat => x.stat, y.retry = x.retry
    PROVE  ChanInv(t, Q, E, y)
<1> DEFINE a == s.api_dcb_chain
<1>0. s \in ApiType /\ R \in RecType /\ D \in DcbType /\ a \in Recs /\ x \in HandlerType
  BY ApiFields DEF ChanInv
<1>1. Cur(s, R) \in Idx /\ ChainOf(s, R) \in Chains /\ ~Passed(s, R)
      /\ s.dma.idx \in Idx /\ s.dma.st \in {"idle", "rx", "clash"}
  BY <1>0, RecFields, ApiFields DEF Cur, ChainOf, Passed, Idx
<1>2. /\ t.api_dcb_chain = a /\ Cur(t, Q) = Cur(s, R) + 1 /\ ChainOf(t, Q) = ChainOf(s, R)
      /\ Passed(t, Q) <=> Cur(s, R) = DCB_CNT
  BY <1>0, <1>1 DEF PassedOne, Cur, ChainOf, Passed, Idx
<1>3. /\ \A i \in Idx : i # Cur(s, R) => E[ChainOf(s, R)][i] = D[ChainOf(s, R)][i]
      /\ \A b \in Chains : b # ChainOf(s, R) => E[b] = D[b]
      /\ E[ChainOf(s, R)][Cur(s, R)] = "done"
  BY DEF PassedOne
<1>4. /\ s.dma.st = "rx" =>
           /\ s.dma.chain = ChainOf(s, R) /\ Cur(s, R) <= s.dma.idx
           /\ \A i \in Idx :
                 /\ Cur(s, R) <= i /\ i < s.dma.idx => D[ChainOf(s, R)][i] = "filled"
                 /\ s.dma.idx <= i => D[ChainOf(s, R)][i] = "new"
      /\ s.dma.st = "idle" => \A i \in Idx : Cur(s, R) <= i => D[ChainOf(s, R)][i] = "filled"
      /\ s.chain_complete => Cur(s, R) = DCB_CNT
  BY <1>1 DEF ChanInv, ActiveOK
<1>5. s.dma.st = "rx" => Cur(s, R) + 1 <= s.dma.idx
  BY <1>1, <1>4 DEF Idx
<1>6. /\ s.dma.st = "rx" =>
           /\ s.dma.chain = ChainOf(s, R) /\ Cur(s, R) + 1 <= s.dma.idx
           /\ \A i \in Idx :
                 /\ Cur(s, R) + 1 <= i /\ i < s.dma.idx => E[ChainOf(s, R)][i] = "filled"
                 /\ s.dma.idx <= i => E[ChainOf(s, R)][i] = "new"
      /\ s.dma.st = "idle" => \A i \in Idx : Cur(s, R) + 1 <= i => E[ChainOf(s, R)][i] = "filled"
  BY <1>1, <1>3, <1>4, <1>5 DEF Idx
<1>7. ListOK(t, Q, E) /\ \A n \in 1 .. Len(t.api_dcb_list) :
                            Q[t.api_dcb_list[n]].chain # ChainOf(t, Q)
  BY <1>0, <1>1, PassList
<1>8. ActiveOK(t, Q, E, y)
  <2>1. /\ ~t.use_rx_skb /\ t.dma = s.dma
        /\ t.chain_complete <=> Cur(s, R) = DCB_CNT
    BY <1>4 DEF PassedOne
  <2>. QED  BY <1>2, <1>6, <1>7, <2>1 DEF ActiveOK
<1>9. HwOK(t, Q, E)
  <2>1. ASSUME NEW b \in Chains, NEW i \in Idx, E[b][i] = "filled", ~s.warm
        PROVE  ChainOf(s, R) = b /\ Cur(s, R) + 1 <= i
    <3>1. D[b][i] = "filled" /\ ~(b = ChainOf(s, R) /\ i = Cur(s, R))
      BY <1>3, <2>1
    <3>2. ChainOf(s, R) = b /\ Cur(s, R) <= i
      BY <2>1, <3>1 DEF ChanInv, HwOK
    <3>. QED  BY <1>1, <3>1, <3>2 DEF Idx
  <2>. QED  BY <1>2, <2>1 DEF ChanInv, HwOK, PassedOne, AtEnd
<1>10. HandlerOK(t, Q, E, y)
  <2>1. y.stat => AtEnd(s) /\ (y.retry > 0 => s.dma = Stopped)
    BY DEF ChanInv, HandlerOK
  <2>. QED  BY <1>2, <2>1 DEF HandlerOK, PassedOne, AtEnd
<1>. QED  BY <1>7, <1>8, <1>9, <1>10 DEF ChanInv

(* SetNext and the step of "cur".                                          *)
PassedDcb(a, R, Q, D, E) ==
    /\ \A r \in Recs : /\ Q[r].used <=> R[r].used
                       /\ Q[r].chain = R[r].chain
                       /\ r # a => Q[r].cur = R[r].cur
    /\ Q[a].cur = R[a].cur + 1
    /\ \A b \in Chains : b # R[a].chain => E[b] = D[b]
    /\ \A i \in Idx : i # R[a].cur => E[R[a].chain][i] = D[R[a].chain][i]
    /\ E[R[a].chain][R[a].cur] = "done"

LEMMA DoneDcb ==
    ASSUME NEW R \in RecType, NEW D \in DcbType, NEW a \in Recs, R[a].cur <= DCB_CNT
    PROVE  LET E == [D EXCEPT ![R[a].chain][R[a].cur] = "done"]
           IN  /\ E \in DcbType
               /\ \A b \in Chains : b # R[a].chain => E[b] = D[b]
               /\ \A i \in Idx : i # R[a].cur => E[R[a].chain][i] = D[R[a].chain][i]
               /\ E[R[a].chain][R[a].cur] = "done"
<1>1. R[a].chain \in Chains /\ R[a].cur \in Idx
  BY RecFields DEF Idx
<1>. QED  BY <1>1 DEF DcbType, DcbStates

LEMMA PassDcb ==
    ASSUME NEW R \in RecType, NEW D \in DcbType, NEW a \in Recs, R[a].cur <= DCB_CNT
    PROVE  LET Q == [R EXCEPT ![a].cur = @ + 1]
               E == [D EXCEPT ![R[a].chain][R[a].cur] = "done"]
           IN  Q \in RecType /\ E \in DcbType /\ PassedDcb(a, R, Q, D, E)
<1> DEFINE Q == [R EXCEPT ![a].cur = @ + 1]
           E == [D EXCEPT ![R[a].chain][R[a].cur] = "done"]
<1>1. R[a].chain \in Chains /\ R[a].cur \in Idx /\ R[a].cur + 1 \in 1 .. DCB_CNT + 1
  BY RecFields DEF Idx
<1>2. Q \in RecType /\ Q[a].cur = R[a].cur + 1
      /\ \A r \in Recs : /\ Q[r].used <=> R[r].used
                         /\ Q[r].chain = R[r].chain
                         /\ r # a => Q[r].cur = R[r].cur
  BY <1>1 DEF RecType
<1>3. /\ E \in DcbType
      /\ \A b \in Chains : b # R[a].chain => E[b] = D[b]
      /\ \A i \in Idx : i # R[a].cur => E[R[a].chain][i] = D[R[a].chain][i]
      /\ E[R[a].chain][R[a].cur] = "done"
  BY DoneDcb
<1>. HIDE DEF Q, E
<1>4. PassedDcb(a, R, Q, D, E)
  BY <1>2, <1>3 DEF PassedDcb
<1>. QED  BY <1>2, <1>3, <1>4 DEF Q, E

LEMMA PassActive ==
    ASSUME NEW s, NEW t, NEW R, NEW Q, NEW D, NEW E,
           PassedDcb(s.api_dcb_chain, R, Q, D, E),
           Like([s EXCEPT !.chain_complete = s.chain_complete \/ Cur(s, R) = DCB_CNT], t),
           t.chain_done <=> s.chain_done, s \in ApiType
    PROVE  PassedOne(s, t, R, Q, D, E)
<1> DEFINE u == [s EXCEPT !.chain_complete = s.chain_complete \/ Cur(s, R) = DCB_CNT]
<1>1. /\ u.use_rx_skb = s.use_rx_skb /\ u.posted = s.posted
      /\ u.api_dcb_list = s.api_dcb_list /\ u.api_dcb_chain = s.api_dcb_chain
      /\ u.api_active = s.api_active
      /\ u.chain_complete <=> s.chain_complete \/ Cur(s, R) = DCB_CNT
      /\ u.late = s.late /\ u.warm = s.warm /\ u.dma = s.dma
  BY DEF ApiType
<1>. HIDE DEF u
<1>2. Like(u, t)
  BY DEF u
<1>. QED  BY <1>1, <1>2 DEF Like, PassedDcb, PassedOne, Cur, ChainOf

(* What MoreDcbs says of the record that the handler holds.                *)
LEMMA MoreFacts ==
    ASSUME ApiInv, h.pc = "rx", MoreDcbs
    PROVE  /\ api.api_dcb_chain # None /\ ~api.use_rx_skb /\ h.rec = api.api_dcb_chain
           /\ api.api_dcb_chain \in Recs /\ rec[api.api_dcb_chain].cur <= DCB_CNT
           /\ Cur(api, rec) <= DCB_CNT /\ dcb[ChainOf(api, rec)][Cur(api, rec)] = "filled"
BY ApiFields DEF ApiInv, ChanInv, HandlerOK, MoreDcbs, NextDcb, Cur, ChainOf

LEMMA ApiDcbStep == ASSUME ApiInv, ApiDcb PROVE ApiInv'
<1> DEFINE a == api.api_dcb_chain
           t == [api EXCEPT !.chain_complete = @ \/ rec[h.rec].cur = DCB_CNT]
<1>0. /\ api \in ApiType /\ rec \in RecType /\ dcb \in DcbType /\ h \in HandlerType
      /\ ChanInv(api, rec, dcb, h) /\ h.pc = "rx" /\ MoreDcbs
  BY DEF ApiInv, ChanInv, ApiDcb
<1>1. /\ a # None /\ ~api.use_rx_skb /\ h.rec = a /\ a \in Recs
      /\ rec[a].cur <= DCB_CNT /\ Cur(api, rec) <= DCB_CNT
      /\ dcb[ChainOf(api, rec)][Cur(api, rec)] = "filled" /\ rec[a].cur = Cur(api, rec)
  BY <1>0, MoreFacts DEF Cur
<1>2. /\ t \in ApiType /\ (t.chain_done <=> api.chain_done)
      /\ Like([api EXCEPT !.chain_complete = api.chain_complete \/ Cur(api, rec) = DCB_CNT], t)
  <2>1. t \in ApiType /\ (t.chain_done <=> api.chain_done)
    BY <1>0 DEF ApiType
  <2>2. Like([api EXCEPT !.chain_complete = api.chain_complete \/ Cur(api, rec) = DCB_CNT], t)
    BY <1>0, <1>1 DEF ApiType, Like
  <2>. QED  BY <2>1, <2>2
<1>3. api' = t
  BY Zenon DEF ApiDcb
<1>. HIDE DEF t
<1>4. CASE /\ dcb' = SetNext(h.rec, "done")
           /\ rec' = [rec EXCEPT ![h.rec].cur = @ + 1]
           /\ h' = [h EXCEPT !.took = TRUE]
  <2>1. dcb' = [dcb EXCEPT ![rec[a].chain][rec[a].cur] = "done"]
        /\ rec' = [rec EXCEPT ![a].cur = @ + 1]
    BY <1>1, <1>4, Zenon DEF SetNext
  <2>2. rec' \in RecType /\ dcb' \in DcbType /\ PassedDcb(a, rec, rec', dcb, dcb')
    BY <1>0, <1>1, <2>1, PassDcb, Zenon
  <2>3. PassedOne(api, t, rec, rec', dcb, dcb')
    BY <1>0, <1>2, <2>2, PassActive, Zenon
  <2>4. h' \in HandlerType /\ h'.pc = "rx" /\ h'.rec = a /\ (h'.stat <=> h.stat)
        /\ h'.retry = h.retry
    BY <1>0, <1>1, <1>4 DEF HandlerType
  <2>5. ChanInv(t, rec', dcb', h')
    BY <1>0, <1>1, <1>2, <2>2, <2>3, <2>4, PassInv
  <2>. QED  BY <1>3, <2>5, Zenon DEF ApiInv
<1>5. CASE h' = [h EXCEPT !.pc = "deliver"] /\ UNCHANGED <<dcb, rec>>
  <2>1. h' \in HandlerType /\ h'.pc = "deliver" /\ h'.rec = a /\ (h'.stat <=> h.stat)
        /\ h'.retry = h.retry
    BY <1>0, <1>1, <1>5 DEF HandlerType
  <2>2. /\ t.use_rx_skb <=> api.use_rx_skb
        /\ t.posted <=> api.posted
        /\ t.api_dcb_list = api.api_dcb_list
        /\ t.api_dcb_chain = api.api_dcb_chain
        /\ t.api_active <=> api.api_active
        /\ t.chain_complete <=> api.chain_complete \/ Cur(api, rec) = DCB_CNT
        /\ t.late <=> api.late
        /\ t.warm <=> api.warm
        /\ t.dma = api.dma
        /\ t.chain_done <=> api.chain_done
    BY <1>0, <1>1 DEF ApiType, t
  <2>3. ListOK(t, rec, dcb)
    BY <1>0, <2>2 DEF ChanInv, ListOK
  <2>4. ActiveOK(t, rec, dcb, h')
    BY <1>0, <1>1, <2>1, <2>2 DEF ChanInv, ActiveOK, Cur, ChainOf, Passed
  <2>5. HwOK(t, rec, dcb)
    BY <1>0, <2>2 DEF ChanInv, HwOK, Cur, ChainOf, AtEnd
  <2>6. HandlerOK(t, rec, dcb, h')
    BY <1>0, <1>1, <2>1, <2>2 DEF ChanInv, HandlerOK, Cur, ChainOf, Passed, AtEnd
  <2>7. ChanInv(t, rec, dcb, h')
    BY <1>0, <1>2, <2>1, <2>3, <2>4, <2>5, <2>6 DEF ChanInv
  <2>. QED  BY <1>3, <1>5, <2>7, Zenon DEF ApiInv
<1>. QED  BY <1>4, <1>5, Zenon DEF ApiDcb

LEMMA DeliveredStep == ASSUME ApiInv, Delivered PROVE ApiInv'
<1> DEFINE a == api.api_dcb_chain
<1>0. /\ api \in ApiType /\ rec \in RecType /\ dcb \in DcbType /\ h \in HandlerType
      /\ ChanInv(api, rec, dcb, h) /\ h.pc = "deliver"
  BY DEF ApiInv, ChanInv, Delivered
<1>1. /\ a # None /\ ~api.use_rx_skb /\ h.rec = a /\ Cur(api, rec) <= DCB_CNT
      /\ dcb[ChainOf(api, rec)][Cur(api, rec)] = "filled"
      /\ Cur(api, rec) = DCB_CNT => api.chain_complete
  BY <1>0 DEF ChanInv, HandlerOK
<1>2. a \in Recs /\ rec[a].cur <= DCB_CNT
  BY <1>0, <1>1, ApiFields DEF Cur
<1>3. /\ dcb' = [dcb EXCEPT ![rec[a].chain][rec[a].cur] = "done"]
      /\ rec' = [rec EXCEPT ![a].cur = @ + 1]
      /\ h' = [h EXCEPT !.pc = "rx", !.took = TRUE] /\ api' = api
  BY <1>1, Zenon DEF Delivered, SetNext
<1>4. rec' \in RecType /\ dcb' \in DcbType /\ PassedDcb(a, rec, rec', dcb, dcb')
  BY <1>0, <1>2, <1>3, PassDcb, Zenon
<1>5. Like([api EXCEPT !.chain_complete = api.chain_complete \/ Cur(api, rec) = DCB_CNT], api)
  BY <1>0, <1>1 DEF ApiType, Like
<1>6. PassedOne(api, api, rec, rec', dcb, dcb')
  BY <1>0, <1>4, <1>5, PassActive, Zenon
<1>7. h' \in HandlerType /\ h'.pc = "rx" /\ h'.rec = a /\ (h'.stat <=> h.stat)
      /\ h'.retry = h.retry
  BY <1>0, <1>1, <1>3 DEF HandlerType
<1>8. ChanInv(api, rec', dcb', h')
  BY <1>0, <1>1, <1>4, <1>6, <1>7, PassInv
<1>. QED  BY <1>3, <1>8, Zenon DEF ApiInv

LEMMA ApiRxEndStep == ASSUME ApiInv, ApiRxEnd PROVE ApiInv'
<1> DEFINE a == api.api_dcb_chain
<1>0. /\ api \in ApiType /\ rec \in RecType /\ dcb \in DcbType /\ h \in HandlerType
      /\ ChanInv(api, rec, dcb, h) /\ h.pc = "rx" /\ ~MoreDcbs
      /\ api' = api /\ rec' = rec /\ dcb' = dcb
      /\ HandlerOK(api, rec, dcb, h) /\ ActiveOK(api, rec, dcb, h)
  BY DEF ApiInv, ChanInv, ApiRxEnd
<1>1. h' \in HandlerType /\ h'.pc = "chain" /\ (h'.stat <=> h.stat) /\ h'.retry = h.retry
  <2>1. h' = [h EXCEPT !.pc = "chain"]
    BY Zenon DEF ApiRxEnd
  <2>. QED  BY <1>0, <2>1 DEF HandlerType
<1>2. ASSUME h.stat, a # None, h.retry > 0
      PROVE  Passed(api, rec)
  <2>1. api.dma = Stopped /\ h.rec = a /\ ~api.use_rx_skb
    BY <1>0, <1>2 DEF HandlerOK
  <2>2. \A i \in Idx : Cur(api, rec) <= i => dcb[ChainOf(api, rec)][i] = "filled"
    BY <1>0, <1>2, <2>1, StoppedFields DEF ActiveOK
  <2>3. Cur(api, rec) \in 1 .. DCB_CNT + 1
    BY <1>0, <1>2, ApiFields, RecFields DEF Cur
  <2>4. ~(Cur(api, rec) <= DCB_CNT)
    <3> SUFFICES ASSUME Cur(api, rec) <= DCB_CNT
                 PROVE  FALSE
      OBVIOUS
    <3>1. dcb[ChainOf(api, rec)][Cur(api, rec)] = "filled"
      BY <2>2, <2>3 DEF Idx
    <3>. QED  BY <1>0, <1>2, <2>1, <3>1 DEF MoreDcbs, NextDcb, Cur, ChainOf
  <2>. QED  BY <2>3, <2>4 DEF Passed
<1>3. HandlerOK(api, rec, dcb, h')
  BY <1>0, <1>1, <1>2 DEF HandlerOK
<1>4. ChanInv(api, rec, dcb, h')
  BY <1>0, <1>1, <1>3, HandlerStep
<1>. QED  BY <1>0, <1>4, Zenon DEF ApiInv

LEMMA ApiSyncStep == ASSUME ApiInv, ApiSync PROVE ApiInv'
<1> DEFINE a == api.api_dcb_chain
           t == [api EXCEPT !.chain_done = @ /\ h.sync]
<1>0. /\ api \in ApiType /\ h \in HandlerType /\ ChanInv(api, rec, dcb, h)
      /\ h.pc = "chain" /\ h.stat /\ ~SyncOver
      /\ api' = t /\ rec' = rec /\ dcb' = dcb
      /\ h' = [h EXCEPT !.pc = "rx", !.sync = TRUE, !.took = FALSE, !.rec = api.api_dcb_chain,
                        !.retry = IF api.late THEN @ ELSE @ + 1]
  BY Zenon DEF ApiInv, ChanInv, ApiSync
<1>1. t \in ApiType /\ Like(api, t) /\ (t.chain_done => api.chain_done)
  BY <1>0 DEF ApiType, HandlerType, Like
<1>. HIDE DEF t
<1>2. ChanInv(t, rec, dcb, h)
  BY <1>0, <1>1, LikeInv
<1>3. /\ h' \in HandlerType /\ h'.pc = "rx" /\ h'.rec = a /\ (h'.stat <=> h.stat)
      /\ api.late => h'.retry = h.retry
  <2>1. a \in Recs \cup {None} /\ h.retry \in 0 .. rx_sync_retry + 1
    BY <1>0, ApiFields DEF HandlerType
  <2>2. ~api.late => h.retry + 1 \in 0 .. rx_sync_retry + 1
    BY <1>0, <2>1 DEF SyncOver
  <2>3. CASE api.late
    BY <1>0, <2>1, <2>3 DEF HandlerType
  <2>4. CASE ~api.late
    <3>1. h' = [h EXCEPT !.pc = "rx", !.sync = TRUE, !.took = FALSE, !.rec = a,
                         !.retry = @ + 1]
      BY <1>0, <2>4, Zenon
    <3>. QED  BY <1>0, <2>1, <2>2, <2>4, <3>1 DEF HandlerType
  <2>. QED  BY <2>3, <2>4
<1>4. HandlerOK(t, rec, dcb, h')
  <2>1. HandlerOK(t, rec, dcb, h)
    BY <1>2 DEF ChanInv
  <2>2. t.api_dcb_chain = a /\ (t.late <=> api.late)
    BY <1>1 DEF Like
  <2>. QED  BY <1>0, <1>3, <2>1, <2>2 DEF HandlerOK, AtEnd
<1>5. ChanInv(t, rec, dcb, h')
  BY <1>0, <1>2, <1>3, <1>4, HandlerStep
<1>. QED  BY <1>0, <1>5, Zenon DEF ApiInv

(* bkn_resume_rx, with the records as they were before the active one was  *)
(* freed.                                                                  *)
Unsuspended(s) == [s EXCEPT !.basedev_suspended = FALSE]

LEMMA UnsuspendedInv ==
    ASSUME NEW s, NEW R, NEW D, NEW x, ChanInv(s, R, D, x)
    PROVE  ChanInv(Unsuspended(s), R, D, x)
<1>1. s \in ApiType
  BY DEF ChanInv
<1>2. Unsuspended(s) \in ApiType
  BY <1>1 DEF Unsuspended, ApiType
<1>3. Like(s, Unsuspended(s))
  BY <1>1 DEF Unsuspended, ApiType, Like
<1>4. Unsuspended(s).chain_done => s.chain_done
  BY <1>1 DEF Unsuspended, ApiType
<1>. QED  BY <1>2, <1>3, <1>4, LikeInv

LEMMA ResumeInv ==
    ASSUME NEW s, NEW R, NEW D, NEW x, ChanInv(s, R, D, x), x.pc = "idle"
    PROVE  ChanInv(bkn_api_rx_restart(Unsuspended(s), R), R, D, x)
BY UnsuspendedInv, RestartInv

LEMMA EndDmaInv ==
    ASSUME NEW w, NEW R, NEW D, ChanInv(w, R, D, HandlerIdle),
           bkn_api_rx_restart(Unsuspended(w), rec) = bkn_api_rx_restart(Unsuspended(w), R),
           EndDma(w)
    PROVE  ChanInv(api', R, D, h')
<1>1. HandlerIdle.pc = "idle"
  BY DEF HandlerIdle
<1>2. ChanInv(bkn_api_rx_restart(Unsuspended(w), R), R, D, HandlerIdle)
  BY <1>1, ResumeInv
<1>3. h' = HandlerIdle
  BY Zenon DEF EndDma
<1>4. api' = w \/ api' = bkn_api_rx_restart(Unsuspended(w), rec)
  BY Zenon DEF EndDma, Resume, Unsuspended
<1>. QED  BY <1>2, <1>3, <1>4, Zenon

LEMMA NoChainDoneStep == ASSUME ApiInv, NoChainDone PROVE ApiInv'
<1>1. ChanInv(api, rec, dcb, h) /\ h.pc # "deliver" /\ EndDma(api) /\ rec' = rec /\ dcb' = dcb
  BY DEF ApiInv, NoChainDone
<1>2. ChanInv(api, rec, dcb, HandlerIdle)
  BY <1>1, IdleInv
<1>3. ChanInv(api', rec, dcb, h')
  BY <1>1, <1>2, EndDmaInv
<1>. QED  BY <1>1, <1>3, Zenon DEF ApiInv

(* bkn_api_rx_chain_done, with what came before it in the same step.       *)
ChainDoneOf(s) == [s EXCEPT !.api_active = FALSE, !.api_dcb_chain = None]

LEMMA ChainDoneInv ==
    ASSUME NEW s \in ApiType, NEW R \in RecType, NEW D \in DcbType, NEW t \in ApiType,
           ListOK(s, R, D), HwOK(s, R, D), Like(s, [t EXCEPT !.chain_complete = s.chain_complete]),
           s.api_dcb_chain # None => s.dma = Stopped,
           ~s.warm => \A c \in Chains, i \in Idx : D[c][i] # "filled"
    PROVE  /\ bkn_api_rx_restart(ChainDoneOf(t), R)
                  = bkn_api_rx_restart(ChainDoneOf(t), Freed(s, R))
           /\ ChanInv(bkn_api_rx_restart(ChainDoneOf(t), R), Freed(s, R), D, HandlerIdle)
<1>1. ChainDoneOf(t) \in ApiType
  BY DEF ApiType, ChainDoneOf
<1>2. Dropped(s, ChainDoneOf(t))
  BY DEF ApiType, ChainDoneOf, Dropped, Like
<1>3. ChanInv(ChainDoneOf(t), Freed(s, R), D, HandlerIdle)
  BY <1>1, <1>2, DropInv
<1>4. s.api_dcb_chain # None => ~Freed(s, R)[s.api_dcb_chain].used
  BY FreedType DEF NoRec
<1>5. bkn_api_rx_restart(ChainDoneOf(t), R) = bkn_api_rx_restart(ChainDoneOf(t), Freed(s, R))
  BY <1>3, <1>4, FreedRestart
<1>6. HandlerIdle.pc = "idle"
  BY DEF HandlerIdle
<1>7. ChanInv(bkn_api_rx_restart(ChainDoneOf(t), Freed(s, R)), Freed(s, R), D, HandlerIdle)
  BY <1>3, <1>6, RestartInv
<1>. QED  BY <1>5, <1>7

LEMMA RxChainDoneStep == ASSUME ApiInv, bkn_rx_chain_done PROVE ApiInv'
<1> DEFINE a == api.api_dcb_chain
           t == [api EXCEPT !.chain_complete = TRUE, !.chain_done = @ /\ h.sync]
           w == bkn_api_rx_restart(ChainDoneOf(t), rec)
           Q == Freed(api, rec)
<1>0. /\ api \in ApiType /\ rec \in RecType /\ dcb \in DcbType /\ h \in HandlerType
      /\ ListOK(api, rec, dcb) /\ ActiveOK(api, rec, dcb, h) /\ HwOK(api, rec, dcb)
      /\ HandlerOK(api, rec, dcb, h)
      /\ h.pc = "chain" /\ h.stat /\ SyncOver /\ dcb' = dcb
  BY DEF ApiInv, ChanInv, bkn_rx_chain_done
<1>1. EndDma(w) /\ rec' = Q
  BY Zenon DEF bkn_rx_chain_done, bkn_api_rx_chain_done, ChainDoneOf, FreeActive, Freed
<1>2. ASSUME a # None
      PROVE  Passed(api, rec) /\ api.dma = Stopped
  <2>1. ~api.use_rx_skb /\ AtEnd(api)
    BY <1>0, <1>2 DEF HandlerOK
  <2>2. Passed(api, rec)
    <3>1. CASE api.chain_complete
      BY <1>0, <1>2, <2>1, <3>1 DEF ActiveOK
    <3>2. CASE h.retry > rx_sync_retry
      <4>1. h.retry > 0
        BY <1>0, <3>2 DEF HandlerType
      <4>. QED  BY <1>0, <1>2, <4>1 DEF HandlerOK
    <3>. QED  BY <1>0, <3>1, <3>2 DEF SyncOver
  <2>3. api.dma.st # "rx"
    BY <1>0, <1>2, <2>1, <2>2, ApiFields DEF ActiveOK, Passed, Idx
  <2>. QED  BY <1>0, <2>2, <2>3, ApiFields DEF HwOK
<1>3. ASSUME ~api.warm
      PROVE  \A c \in Chains, i \in Idx : dcb[c][i] # "filled"
  BY <1>0, <1>2, <1>3 DEF HwOK, Passed, Idx
<1>4. t \in ApiType /\ Like(api, [t EXCEPT !.chain_complete = api.chain_complete])
  <2>1. t \in ApiType
    <3> DEFINE b == api.chain_done /\ h.sync
    <3>1. b \in BOOLEAN
      OBVIOUS
    <3>. HIDE DEF b
    <3>2. [api EXCEPT !.chain_complete = TRUE, !.chain_done = b] \in ApiType
      BY <1>0, <3>1 DEF ApiType
    <3>. QED  BY <3>2, Zenon DEF b
  <2>2. Like(api, [t EXCEPT !.chain_complete = api.chain_complete])
    BY <1>0 DEF ApiType, Like
  <2>. QED  BY <2>1, <2>2
<1>. HIDE DEF t
<1>5. ChanInv(w, Q, dcb, HandlerIdle)
  BY <1>0, <1>2, <1>3, <1>4, ChainDoneInv
<1>. HIDE DEF w
<1>6. ChanInv(Unsuspended(w), Q, dcb, HandlerIdle)
  BY <1>5, UnsuspendedInv
<1>7. a # None => ~Q[a].used
  BY <1>0, FreedType DEF NoRec
<1>8. bkn_api_rx_restart(Unsuspended(w), rec) = bkn_api_rx_restart(Unsuspended(w), Q)
  BY <1>0, <1>6, <1>7, FreedRestart
<1>. HIDE DEF Q
<1>9. ChanInv(api', Q, dcb, h')
  BY <1>1, <1>5, <1>8, EndDmaInv
<1>. QED  BY <1>0, <1>1, <1>9, Zenon DEF ApiInv

(* The handler of the Linux channel copies a packet.                       *)
LEMMA CopyInv ==
    ASSUME NEW s, NEW R, NEW D, NEW x, ChanInv(s, R, D, x),
           NEW Q \in RecType, NEW E \in DcbType,
           s.api_dcb_chain # None, s.use_rx_skb, Cur(s, R) < DCB_CNT,
           PassedDcb(s.api_dcb_chain, R, Q, D, E)
    PROVE  ChanInv(s, Q, E, x)
<1> DEFINE a == s.api_dcb_chain
<1>0. s \in ApiType /\ R \in RecType /\ D \in DcbType /\ a \in Recs /\ x \in HandlerType
  BY ApiFields DEF ChanInv
<1>1. Cur(s, R) \in Idx /\ ChainOf(s, R) \in Chains /\ ~Passed(s, R)
  BY <1>0, RecFields DEF Cur, ChainOf, Passed, Idx
<1>2. /\ Cur(s, Q) = Cur(s, R) + 1 /\ ChainOf(s, Q) = ChainOf(s, R) /\ ~Passed(s, Q)
  BY <1>0, <1>1 DEF PassedDcb, Cur, ChainOf, Passed, Idx
<1>3. s.dma = Stopped /\ x.pc = "idle"
  BY DEF ChanInv, HwOK, HandlerOK
<1>4. /\ \A n \in 1 .. Len(s.api_dcb_list) : R[s.api_dcb_list[n]].chain # ChainOf(s, R)
      /\ \A i \in Idx : Cur(s, R) <= i => D[ChainOf(s, R)][i] = "new"
  BY <1>1 DEF ChanInv, ActiveOK
<1>5. /\ \A i \in Idx : i # Cur(s, R) => E[ChainOf(s, R)][i] = D[ChainOf(s, R)][i]
      /\ \A b \in Chains : b # ChainOf(s, R) => E[b] = D[b]
      /\ E[ChainOf(s, R)][Cur(s, R)] = "done"
  BY DEF PassedDcb, Cur, ChainOf
<1>6. \A n \in 1 .. Len(s.api_dcb_list) : s.api_dcb_list[n] \in Recs
  BY <1>0, ListFields
<1>7. ASSUME NEW n \in 1 .. Len(s.api_dcb_list)
      PROVE  /\ Q[s.api_dcb_list[n]].used /\ Q[s.api_dcb_list[n]].cur = 1
             /\ Q[s.api_dcb_list[n]].chain = R[s.api_dcb_list[n]].chain
             /\ \A i \in Idx : E[R[s.api_dcb_list[n]].chain][i] = "new"
  <2>1. R[s.api_dcb_list[n]].chain \in Chains /\ s.api_dcb_list[n] \in Recs
    BY <1>0, <1>6, RecFields
  <2>2. /\ R[s.api_dcb_list[n]].used /\ R[s.api_dcb_list[n]].cur = 1
        /\ s.api_dcb_list[n] # a
        /\ \A i \in Idx : D[R[s.api_dcb_list[n]].chain][i] = "new"
    BY DEF ChanInv, ListOK
  <2>3. E[R[s.api_dcb_list[n]].chain] = D[R[s.api_dcb_list[n]].chain]
    BY <1>4, <1>5, <2>1
  <2>. QED  BY <2>1, <2>2, <2>3 DEF PassedDcb
<1>8. ListOK(s, Q, E)
  <2>1. \A r \in Recs : Q[r].used <=> R[r].used
    BY DEF PassedDcb
  <2>2. \A m, n \in 1 .. Len(s.api_dcb_list) : m # n =>
            Q[s.api_dcb_list[m]].chain # Q[s.api_dcb_list[n]].chain
    BY <1>7 DEF ChanInv, ListOK
  <2>3. \A n \in 1 .. Len(s.api_dcb_list) :
            \A i \in Idx : E[Q[s.api_dcb_list[n]].chain][i] = "new"
    BY <1>7
  <2>. QED  BY <1>0, <1>7, <2>1, <2>2, <2>3 DEF ChanInv, ListOK
<1>9. ActiveOK(s, Q, E, x)
  <2>1. \A n \in 1 .. Len(s.api_dcb_list) : Q[s.api_dcb_list[n]].chain # ChainOf(s, Q)
    BY <1>2, <1>4, <1>7
  <2>2. \A i \in Idx : Cur(s, Q) <= i => E[ChainOf(s, Q)][i] = "new"
    BY <1>1, <1>2, <1>4, <1>5 DEF Idx
  <2>. QED  BY <1>2, <2>1, <2>2 DEF ActiveOK
<1>10. HwOK(s, Q, E)
  <2>1. ASSUME NEW b \in Chains, NEW i \in Idx, E[b][i] = "filled", ~s.warm
        PROVE  FALSE
    <3>1. D[b][i] = "filled" /\ ~(b = ChainOf(s, R) /\ i = Cur(s, R))
      BY <1>5, <2>1
    <3>2. ChainOf(s, R) = b /\ Cur(s, R) <= i
      BY <2>1, <3>1 DEF ChanInv, HwOK
    <3>. QED  BY <1>4, <3>1, <3>2
  <2>. QED  BY <2>1 DEF ChanInv, HwOK
<1>11. HandlerOK(s, Q, E, x)
  BY <1>3 DEF ChanInv, HandlerOK
<1>. QED  BY <1>0, <1>8, <1>9, <1>10, <1>11 DEF ChanInv

LEMMA CopyStep == ASSUME ApiInv, bkn_api_rx_copy_from_skb PROVE ApiInv'
<1> DEFINE a == api.api_dcb_chain
<1>0. /\ api \in ApiType /\ rec \in RecType /\ dcb \in DcbType /\ h \in HandlerType
      /\ ChanInv(api, rec, dcb, h)
      /\ ListOK(api, rec, dcb) /\ ActiveOK(api, rec, dcb, h) /\ HwOK(api, rec, dcb)
      /\ HandlerOK(api, rec, dcb, h)
      /\ api.use_rx_skb /\ a # None /\ h' = h /\ h.pc = "idle"
  BY DEF ApiInv, ChanInv, HandlerOK, bkn_api_rx_copy_from_skb
<1>1. a \in Recs /\ ~Passed(api, rec) /\ rec[a].cur \in 1 .. DCB_CNT + 1
  BY <1>0, ApiFields, RecFields DEF ActiveOK
<1>2. rec[a].cur <= DCB_CNT
  BY <1>1 DEF Passed, Cur
<1>3. dcb' = [dcb EXCEPT ![rec[a].chain][rec[a].cur] = "done"]
  BY Zenon DEF bkn_api_rx_copy_from_skb, SetNext
<1>4. CASE rec[a].cur < DCB_CNT /\ rec' = [rec EXCEPT ![a].cur = @ + 1] /\ api' = api
  <2>1. rec' \in RecType /\ dcb' \in DcbType /\ PassedDcb(a, rec, rec', dcb, dcb')
    BY <1>0, <1>1, <1>2, <1>3, <1>4, PassDcb, Zenon
  <2>2. ChanInv(api, rec', dcb', h)
    BY <1>0, <1>4, <2>1, CopyInv DEF Cur
  <2>. QED  BY <1>0, <1>4, <2>2, Zenon DEF ApiInv
<1>5. CASE rec' = FreeActive /\ api' = bkn_api_rx_chain_done(api)
  <2>1. /\ dcb' \in DcbType
        /\ \A b \in Chains : b # rec[a].chain => dcb'[b] = dcb[b]
        /\ \A i \in Idx : i # rec[a].cur => dcb'[rec[a].chain][i] = dcb[rec[a].chain][i]
        /\ dcb'[rec[a].chain][rec[a].cur] = "done"
    <3> DEFINE E == [dcb EXCEPT ![rec[a].chain][rec[a].cur] = "done"]
    <3>1. /\ E \in DcbType
          /\ \A b \in Chains : b # rec[a].chain => E[b] = dcb[b]
          /\ \A i \in Idx : i # rec[a].cur => E[rec[a].chain][i] = dcb[rec[a].chain][i]
          /\ E[rec[a].chain][rec[a].cur] = "done"
      BY <1>0, <1>1, <1>2, DoneDcb
    <3>2. dcb' = E
      BY <1>3
    <3>. HIDE DEF E
    <3>. QED  BY <3>1, <3>2
  <2>2. /\ \A n \in 1 .. Len(api.api_dcb_list) : rec[api.api_dcb_list[n]].chain # ChainOf(api, rec)
        /\ \A i \in Idx : Cur(api, rec) <= i => dcb[ChainOf(api, rec)][i] = "new"
    BY <1>0, <1>1 DEF ActiveOK
  <2>3. \A n \in 1 .. Len(api.api_dcb_list) :
            dcb'[rec[api.api_dcb_list[n]].chain] = dcb[rec[api.api_dcb_list[n]].chain]
    <3>1. \A n \in 1 .. Len(api.api_dcb_list) : rec[api.api_dcb_list[n]].chain \in Chains
      BY <1>0, ListFields, RecFields
    <3>. QED  BY <2>1, <2>2, <3>1 DEF ChainOf
  <2>4. ListOK(api, rec, dcb')
    <3>1. \A n \in 1 .. Len(api.api_dcb_list) :
              \A i \in Idx : dcb'[rec[api.api_dcb_list[n]].chain][i] = "new"
      BY <1>0, <2>3 DEF ListOK
    <3>. QED  BY <1>0, <3>1 DEF ListOK
  <2>5. ~api.warm /\ api.dma = Stopped
    BY <1>0 DEF HwOK
  <2>6. ASSUME NEW b \in Chains, NEW i \in Idx, dcb'[b][i] = "filled"
        PROVE  FALSE
    <3>1. dcb[b][i] = "filled"
      BY <2>1, <2>6
    <3>2. ChainOf(api, rec) = b /\ Cur(api, rec) <= i
      BY <1>0, <2>5, <3>1 DEF HwOK
    <3>. QED  BY <2>2, <3>1, <3>2
  <2>7. HwOK(api, rec, dcb')
    BY <1>0, <2>6 DEF HwOK
  <2>8. Like(api, [api EXCEPT !.chain_complete = api.chain_complete])
    BY <1>0 DEF ApiType, Like
  <2>9. ChanInv(bkn_api_rx_restart(ChainDoneOf(api), rec), Freed(api, rec), dcb', HandlerIdle)
    BY <1>0, <2>1, <2>4, <2>5, <2>6, <2>7, <2>8, ChainDoneInv
  <2>10. api' = bkn_api_rx_restart(ChainDoneOf(api), rec) /\ rec' = Freed(api, rec)
    BY <1>5, Zenon DEF bkn_api_rx_chain_done, ChainDoneOf, FreeActive, Freed
  <2>11. ChanInv(api', rec', dcb', HandlerIdle)
    BY <2>9, <2>10, Zenon
  <2>12. ActiveOK(api', rec', dcb', h) /\ HandlerOK(api', rec', dcb', h)
    <3>1. HandlerIdle.pc = "idle"
      BY DEF HandlerIdle
    <3>2. ActiveOK(api', rec', dcb', h)
      BY <1>0, <2>11, <3>1 DEF ChanInv, ActiveOK
    <3>3. HandlerOK(api', rec', dcb', h)
      BY <1>0, <2>11, <3>1 DEF ChanInv, HandlerOK
    <3>. QED  BY <3>2, <3>3
  <2>13. ChanInv(api', rec', dcb', h)
    BY <1>0, <2>11, <2>12 DEF ChanInv
  <2>. QED  BY <1>0, <2>13, Zenon DEF ApiInv
<1>. QED  BY <1>4, <1>5, Zenon DEF bkn_api_rx_copy_from_skb

-----------------------------------------------------------------------------
(* Resets, and the end of a process.                                       *)
LEMMA NoRecs ==
    LET Q == [r \in Recs |-> NoRec]
    IN  Q \in RecType /\ \A r \in Recs : ~Q[r].used
<1>1. NoRec \in [used : BOOLEAN, chain : Chains, cur : 1 .. DCB_CNT + 1] /\ ~NoRec.used
  BY StoppedFields DEF NoRec
<1>. QED  BY <1>1 DEF RecType

(* Nothing is given to KNET.                                               *)
LEMMA NoneInv ==
    ASSUME NEW s \in ApiType, NEW R \in RecType, NEW D \in DcbType, NEW x \in HandlerType,
           s.api_dcb_chain = None, s.api_dcb_list = <<>>, ~s.api_active,
           \A r \in Recs : ~R[r].used, x.pc = "idle", HwOK(s, R, D)
    PROVE  ChanInv(s, R, D, x)
<1>1. Len(s.api_dcb_list) = 0
  OBVIOUS
<1>2. ListOK(s, R, D)
  BY <1>1 DEF ListOK
<1>3. ActiveOK(s, R, D, x)
  BY DEF ActiveOK
<1>4. HandlerOK(s, R, D, x)
  BY DEF HandlerOK
<1>. QED  BY <1>2, <1>3, <1>4 DEF ChanInv

LEMMA HwResetStep ==
    ASSUME NEW stale \in BOOLEAN, ApiInv, bkn_knet_hw_reset(stale)
    PROVE  ApiInv'
<1> DEFINE cd == stale /\ api.chain_done /\ api.dma = Stopped
           dd == stale /\ api.desc_done /\ api.dma = Stopped
           t == [api EXCEPT !.irq = FALSE, !.dma = Stopped, !.late = FALSE,
                            !.api_dcb_chain = None, !.api_dcb_list = <<>>,
                            !.api_active = FALSE, !.warm = FALSE,
                            !.chain_done = cd, !.desc_done = dd]
<1>0. /\ api \in ApiType /\ h \in HandlerType /\ h' = h /\ h.pc = "idle"
      /\ rec' = [r \in Recs |-> NoRec]
      /\ dcb' = [c \in Chains |-> [i \in Idx |-> "own"]]
  BY DEF ApiInv, ChanInv, bkn_knet_hw_reset, Abort, MayReset
<1>1. api' = t
  BY Zenon DEF bkn_knet_hw_reset, Abort
<1>2. t \in ApiType
  <2>1. <<>> \in Seq(Recs)
    OBVIOUS
  <2>2. cd \in BOOLEAN /\ dd \in BOOLEAN
    OBVIOUS
  <2>. HIDE DEF cd, dd
  <2>. QED  BY <1>0, <2>1, <2>2, StoppedFields DEF ApiType
<1>3. /\ t.api_dcb_chain = None /\ t.api_dcb_list = <<>> /\ ~t.api_active
      /\ t.dma = Stopped /\ ~t.late /\ ~t.warm
  BY <1>0 DEF ApiType
<1>. HIDE DEF t
<1>4. rec' \in RecType /\ \A r \in Recs : ~rec'[r].used
  BY <1>0, NoRecs
<1>5. dcb' \in DcbType /\ \A c \in Chains, i \in Idx : dcb'[c][i] # "filled"
  BY <1>0 DEF DcbType, DcbStates
<1>6. HwOK(t, rec', dcb')
  BY <1>3, <1>5, StoppedFields DEF HwOK
<1>7. ChanInv(t, rec', dcb', h)
  BY <1>0, <1>2, <1>3, <1>4, <1>5, <1>6, NoneInv
<1>. QED  BY <1>0, <1>1, <1>7, Zenon DEF ApiInv

LEMMA WbCleanupStep == ASSUME ApiInv, bkn_knet_wb_cleanup PROVE ApiInv'
<1> DEFINE t == [api EXCEPT !.api_dcb_chain = None, !.api_dcb_list = <<>>,
                          !.api_active = FALSE, !.warm = TRUE]
<1>0. /\ api \in ApiType /\ dcb \in DcbType /\ h \in HandlerType /\ h' = h /\ h.pc = "idle"
      /\ rec' = [r \in Recs |-> NoRec] /\ dcb' = dcb /\ HwOK(api, rec, dcb) /\ ~api.posted
  BY DEF ApiInv, ChanInv, bkn_knet_wb_cleanup, MayReset
<1>1. api' = t
  BY Zenon DEF bkn_knet_wb_cleanup
<1>2. t \in ApiType
  <2>1. <<>> \in Seq(Recs)
    OBVIOUS
  <2>. QED  BY <1>0, <2>1 DEF ApiType
<1>3. /\ t.api_dcb_chain = None /\ t.api_dcb_list = <<>> /\ ~t.api_active
      /\ t.dma = api.dma /\ (t.late <=> api.late) /\ t.warm /\ ~t.posted
      /\ t.use_rx_skb <=> api.use_rx_skb
  BY <1>0 DEF ApiType
<1>. HIDE DEF t
<1>4. rec' \in RecType /\ \A r \in Recs : ~rec'[r].used
  BY <1>0, NoRecs
<1>5. HwOK(t, rec', dcb)
  BY <1>0, <1>3 DEF HwOK
<1>6. ChanInv(t, rec', dcb, h)
  BY <1>0, <1>2, <1>3, <1>4, <1>5, NoneInv
<1>. QED  BY <1>0, <1>1, <1>6, Zenon DEF ApiInv

LEMMA OpenBaseStep == ASSUME ApiInv, OpenBase PROVE ApiInv'
<1>0. ChanInv(api, rec, dcb, h) /\ rec' = rec /\ dcb' = dcb /\ h.pc = "idle"
  BY DEF ApiInv, OpenBase
<1>1. CASE UNCHANGED <<api, h>>
  BY <1>0, <1>1, Zenon DEF ApiInv
<1>2. CASE ~api.use_rx_skb /\ BeginDma("open")
  BY <1>0, <1>2, BeginDmaStep
<1>3. CASE api' = Resume(api) /\ h' = h
  <2>1. api' = bkn_api_rx_restart(Unsuspended(api), rec)
    BY <1>3, Zenon DEF Resume, Unsuspended
  <2>2. ChanInv(bkn_api_rx_restart(Unsuspended(api), rec), rec, dcb, h)
    BY <1>0, ResumeInv
  <2>. QED  BY <1>0, <1>3, <2>1, <2>2, Zenon DEF ApiInv
<1>. QED  BY <1>1, <1>2, <1>3, Zenon DEF OpenBase

LEMMA StopBaseStep == ASSUME ApiInv, StopBase PROVE ApiInv'
<1> DEFINE t == [api EXCEPT !.basedev_suspended = @ \/ basedev_suspend]
<1>0. api \in ApiType /\ ChanInv(api, rec, dcb, h) /\ rec' = rec /\ dcb' = dcb /\ h' = h
  BY DEF ApiInv, ChanInv, StopBase
<1>1. api' = t
  BY Zenon DEF StopBase
<1>2. t \in ApiType /\ Like(api, t) /\ (t.chain_done => api.chain_done)
  BY <1>0 DEF ApiType, Like
<1>. HIDE DEF t
<1>3. ChanInv(t, rec, dcb, h)
  BY <1>0, <1>2, LikeInv
<1>. QED  BY <1>0, <1>1, <1>3, Zenon DEF ApiInv

(* The process takes back what the driver has done with.                   *)
LEMMA TakeInv ==
    ASSUME NEW s, NEW R, NEW D, NEW x, ChanInv(s, R, D, x), NEW E \in DcbType,
           \A c \in Chains, i \in Idx :
               E[c][i] = IF D[c][i] = "done" THEN "own" ELSE D[c][i]
    PROVE  ChanInv(s, R, E, x)
<1>0. s \in ApiType /\ R \in RecType /\ D \in DcbType /\ x \in HandlerType
  BY DEF ChanInv
<1>1. \A c \in Chains, i \in Idx : /\ E[c][i] = "new" <=> D[c][i] = "new"
                                   /\ E[c][i] = "filled" <=> D[c][i] = "filled"
  OBVIOUS
<1>2. \A n \in 1 .. Len(s.api_dcb_list) : R[s.api_dcb_list[n]].chain \in Chains
  BY <1>0, ListFields, RecFields
<1>3. s.api_dcb_chain # None => ChainOf(s, R) \in Chains /\ Cur(s, R) \in Nat \ {0}
  BY <1>0, ApiFields, RecFields DEF ChainOf, Cur
<1>4. ListOK(s, R, E)
  BY <1>1, <1>2 DEF ChanInv, ListOK
<1>5. ActiveOK(s, R, E, x)
  BY <1>1, <1>3 DEF ChanInv, ActiveOK
<1>6. HwOK(s, R, E)
  BY <1>1 DEF ChanInv, HwOK
<1>7. HandlerOK(s, R, E, x)
  BY <1>1, <1>3 DEF ChanInv, HandlerOK, Idx
<1>. QED  BY <1>0, <1>4, <1>5, <1>6, <1>7 DEF ChanInv

LEMMA TakeEventsStep == ASSUME NEW p \in Units, ApiInv, TakeEvents(p) PROVE ApiInv'
<1> DEFINE E == [c \in Chains |-> [i \in Idx |-> IF dcb[c][i] = "done" THEN "own"
                                                 ELSE dcb[c][i]]]
<1>0. ChanInv(api, rec, dcb, h) /\ dcb \in DcbType /\ rec' = rec /\ api' = api /\ h' = h
  BY DEF ApiInv, ChanInv, TakeEvents
<1>1. dcb' = dcb \/ dcb' = E
  BY Zenon DEF TakeEvents
<1>2. CASE dcb' = dcb
  BY <1>0, <1>2, Zenon DEF ApiInv
<1>3. CASE dcb' = E
  <2>1. /\ E \in DcbType
        /\ \A c \in Chains, i \in Idx :
               E[c][i] = IF dcb[c][i] = "done" THEN "own" ELSE dcb[c][i]
    BY <1>0 DEF DcbType, DcbStates
  <2>. HIDE DEF E
  <2>2. ChanInv(api, rec, E, h)
    BY <1>0, <2>1, TakeInv
  <2>. QED  BY <1>0, <1>3, <2>2, Zenon DEF ApiInv
<1>. QED  BY <1>1, <1>2, <1>3

LEMMA UnchangedStep == ASSUME ApiInv, UNCHANGED apivars PROVE ApiInv'
BY Zenon DEF ApiInv, apivars

-----------------------------------------------------------------------------
LEMMA ApiInitInv == ASSUME ApiInit PROVE ApiInv
<1>0. rec = [r \in Recs |-> NoRec] /\ dcb = [c \in Chains |-> [i \in Idx |-> "own"]]
      /\ h = HandlerIdle
  BY DEF ApiInit
<1>1. PICK on, skb, posted \in BOOLEAN :
           api = [on |-> on, use_rx_skb |-> skb, posted |-> posted,
                  api_dcb_list |-> <<>>, api_dcb_chain |-> None,
                  api_active |-> FALSE, chain_complete |-> FALSE,
                  basedev_suspended |-> basedev_suspend /\ ~base_up,
                  irq |-> FALSE, desc_done |-> FALSE, chain_done |-> FALSE,
                  late |-> FALSE, warm |-> FALSE, dma |-> Stopped]
  BY Zenon DEF ApiInit
<1>2. api \in ApiType
  <2>1. <<>> \in Seq(Recs)
    OBVIOUS
  <2>. QED  BY <1>1, <2>1, StoppedFields DEF ApiType
<1>3. /\ api.api_dcb_chain = None /\ api.api_dcb_list = <<>> /\ ~api.api_active
      /\ api.dma = Stopped /\ ~api.late /\ ~api.warm
  BY <1>1
<1>4. rec \in RecType /\ \A r \in Recs : ~rec[r].used
  BY <1>0, NoRecs
<1>5. dcb \in DcbType /\ \A c \in Chains, i \in Idx : dcb[c][i] # "filled"
  BY <1>0 DEF DcbType, DcbStates
<1>6. HandlerIdle \in HandlerType /\ HandlerIdle.pc = "idle"
  BY DEF HandlerIdle, HandlerType, Recs, None
<1>7. HwOK(api, rec, dcb)
  BY <1>3, <1>5, StoppedFields DEF HwOK
<1>8. ChanInv(api, rec, dcb, HandlerIdle)
  BY <1>2, <1>3, <1>4, <1>5, <1>6, <1>7, NoneInv
<1>. QED  BY <1>0, <1>8, Zenon DEF ApiInv

LEMMA ApiNextInv == ASSUME ApiInv, [ApiNext]_allvars PROVE ApiInv'
<1>1. CASE UNCHANGED allvars
  BY <1>1, UnchangedStep DEF allvars
<1>2. ASSUME NEW c \in Chains, bkn_knet_dma_info(c) PROVE ApiInv'
  BY <1>2, DmaInfoStep
<1>3. CASE HwRxDone
  BY <1>3, HwRxDoneStep
<1>4. CASE HwWriteBack
  BY <1>4, HwWriteBackStep
<1>5. CASE DoDma
  BY <1>5, DoDmaStep
<1>6. CASE ApiDcb
  BY <1>6, ApiDcbStep
<1>7. CASE Delivered
  BY <1>7, DeliveredStep
<1>8. CASE ApiRxEnd
  BY <1>8, ApiRxEndStep
<1>9. CASE NoChainDone
  BY <1>9, NoChainDoneStep
<1>10. CASE ApiSync
  BY <1>10, ApiSyncStep
<1>11. CASE bkn_rx_chain_done
  BY <1>11, RxChainDoneStep
<1>12. CASE bkn_api_rx_copy_from_skb
  BY <1>12, CopyStep
<1>13. ASSUME NEW stale \in BOOLEAN, bkn_knet_hw_reset(stale) PROVE ApiInv'
  BY <1>13, HwResetStep
<1>14. CASE bkn_knet_wb_cleanup
  BY <1>14, WbCleanupStep
<1>15. CASE OpenBase
  BY <1>15, OpenBaseStep
<1>16. CASE StopBase
  BY <1>16, StopBaseStep
<1>17. ASSUME NEW p \in Units, TakeEvents(p) PROVE ApiInv'
  BY <1>17, TakeEventsStep
<1>18. CASE OtherEvents
  BY <1>18, UnchangedStep DEF OtherEvents
<1>. QED
  BY <1>1, <1>2, <1>3, <1>4, <1>5, <1>6, <1>7, <1>8, <1>9, <1>10, <1>11, <1>12, <1>13,
     <1>14, <1>15, <1>16, <1>17, <1>18, Zenon DEF ApiNext, Handler

LEMMA ApiInvariant == ApiSpec => []ApiInv
<1>1. ApiInit => ApiInv
  BY ApiInitInv
<1>2. ApiInv /\ [ApiNext]_allvars => ApiInv'
  BY ApiNextInv
<1>. QED  BY <1>1, <1>2, PTL DEF ApiSpec

(* The hardware works on the active chain only, on a DCB which the driver  *)
(* has not passed and which is still KNET's, and it is started only when   *)
(* it is idle (bkn_api_rx_restart, bkn_api_rx_chain_done).                 *)
THEOREM ApiHwOnActiveChain == ApiSpec => []HwOnActiveChain
<1>1. ApiInv => HwOnActiveChain
  <2> SUFFICES ASSUME ApiInv, ~api.warm
               PROVE  /\ api.dma.st # "clash"
                      /\ api.dma.st = "rx" =>
                            /\ api.api_dcb_chain # None
                            /\ rec[api.api_dcb_chain].chain = api.dma.chain
                            /\ rec[api.api_dcb_chain].cur <= api.dma.idx
                            /\ dcb[api.dma.chain][api.dma.idx] = "new"
    BY DEF HwOnActiveChain
  <2>1. api.dma.st # "clash"
    BY DEF ApiInv, ChanInv, HwOK
  <2>2. ASSUME api.dma.st = "rx"
        PROVE  api.api_dcb_chain # None /\ ~api.use_rx_skb /\ api.dma.idx \in Idx
    BY <2>2, StoppedFields, ApiFields DEF ApiInv, ChanInv, HwOK
  <2>. QED  BY <2>1, <2>2 DEF ApiInv, ChanInv, ActiveOK, ChainOf, Cur, Idx
<1>. QED  BY <1>1, ApiInvariant, PTL

(* A DCB that the hardware has filled is never dropped with its chain: it  *)
(* is one that the driver comes to later on (bkn_rx_chain_done waits for   *)
(* the writes of DCBs that arrive after the interrupt).                    *)
THEOREM ApiNoDcbLost == ApiSpec => []NoDcbLost
<1>1. ApiInv => NoDcbLost
  BY DEF ApiInv, ChanInv, HwOK, NoDcbLost, ChainOf, Cur
<1>. QED  BY <1>1, ApiInvariant, PTL

(* Every record that is in use is in the list or is the active one, once.  *)
LEMMA UsedKept ==
    ASSUME ApiInv
    PROVE  LET S == {r \in Recs : rec[r].used}
           IN  /\ Queued \cup Active = S
               /\ Len(api.api_dcb_list) + Cardinality(Active) = Cardinality(S)
               /\ h.pc = "deliver" => h.rec = api.api_dcb_chain
<1> DEFINE q == api.api_dcb_list
           a == api.api_dcb_chain
           S == {r \in Recs : rec[r].used}
           M == {q[n] : n \in 1 .. Len(q)}
<1>0. api \in ApiType /\ rec \in RecType /\ ListOK(api, rec, dcb) /\ HandlerOK(api, rec, dcb, h)
  BY DEF ApiInv, ChanInv
<1>1. /\ Len(q) \in Nat /\ DOMAIN q = 1 .. Len(q)
      /\ \A n \in 1 .. Len(q) : q[n] \in Recs /\ q[n] # None
      /\ a \in Recs \cup {None}
  BY <1>0, ListFields, ApiFields
<1>2. Queued = M
  BY <1>1 DEF Range, Queued
<1>3. M \cup Active = S
  <2>1. \A r \in M : r \in S
    BY <1>0, <1>1 DEF ListOK
  <2>2. \A r \in Active : r \in S
    BY <1>0, <1>1 DEF ListOK, Active
  <2>3. \A r \in S : r \in M \cup Active
    BY <1>0, <1>1 DEF ListOK, Active, Recs, None
  <2>. QED  BY <2>1, <2>2, <2>3
<1>4. IsFiniteSet(M) /\ Cardinality(M) = Len(q)
  <2> DEFINE f == [n \in 1 .. Len(q) |-> q[n]]
  <2>1. f \in Bijection(1 .. Len(q), M)
    <3>1. f \in [1 .. Len(q) -> M]
      OBVIOUS
    <3>2. \A m, n \in 1 .. Len(q) : f[m] = f[n] => m = n
      BY <1>0 DEF ListOK
    <3>3. \A r \in M : \E n \in 1 .. Len(q) : f[n] = r
      OBVIOUS
    <3>. QED  BY <3>1, <3>2, <3>3 DEF Bijection, Injection, Surjection, IsInjective
  <2>2. IsFiniteSet(1 .. Len(q)) /\ Cardinality(1 .. Len(q)) = Len(q)
    BY <1>1, FS_Interval
  <2>3. ExistsBijection(1 .. Len(q), M)
    <3>. HIDE DEF f, M
    <3>. QED  BY <2>1, Zenon DEF ExistsBijection
  <2>. HIDE DEF M
  <2>. QED  BY <2>2, <2>3, FS_Bijection
<1>5. Len(q) + Cardinality(Active) = Cardinality(S)
  <2>1. CASE a = None
    <3>1. Active = {} /\ S = M
      BY <1>3, <2>1 DEF Active
    <3>2. Cardinality(Active) = 0
      BY <3>1, FS_EmptySet
    <3>. HIDE DEF M, S
    <3>. QED  BY <1>1, <1>4, <3>1, <3>2
  <2>2. CASE a # None
    <3>1. Active = {a} /\ S = M \cup {a} /\ a \notin M
      BY <1>0, <1>3, <2>2 DEF Active, ListOK
    <3>. HIDE DEF M, S
    <3>2. Cardinality(Active) = 1
      BY <3>1, FS_Singleton
    <3>3. Cardinality(M \cup {a}) = Cardinality(M) + 1
      BY <1>4, <3>1, FS_AddElement
    <3>. QED  BY <1>1, <1>4, <3>1, <3>2, <3>3
  <2>. QED  BY <2>1, <2>2
<1>. QED  BY <1>0, <1>2, <1>3, <1>5 DEF HandlerOK

(* Nothing but QueueChain puts a record in use, and it takes one that      *)
(* kmalloc has given.                                                      *)
RefusedOK == refused \subseteq {r \in Recs : ~rec[r].used}

LEMMA UsedStep ==
    ASSUME ApiInv, NEW r \in Recs, rec'[r].used, ~rec[r].used, [ApiNext]_allvars
    PROVE  \E q \in Recs, c \in Chains : kmalloc(q) /\ QueueChain(q, c) /\ r = q
<1>0. rec \in RecType /\ ~NoRec.used
  BY DEF ApiInv, ChanInv, NoRec
<1>1. rec' # rec
  OBVIOUS
<1>2. ~(ApiDcb \/ Delivered)
  <2>1. ApiDcb \/ Delivered => rec' = rec \/ rec' = [rec EXCEPT ![h.rec].cur = @ + 1]
    BY Zenon DEF ApiDcb, Delivered
  <2>2. rec' # [rec EXCEPT ![h.rec].cur = @ + 1]
    BY <1>0 DEF RecType
  <2>. QED  BY <1>1, <2>1, <2>2
<1>3. rec' # FreeActive
  BY <1>0 DEF FreeActive, RecType
<1>4. ~(bkn_rx_chain_done \/ bkn_api_rx_copy_from_skb)
  <2>1. bkn_rx_chain_done => rec' = FreeActive
    BY Zenon DEF bkn_rx_chain_done
  <2>2. bkn_api_rx_copy_from_skb =>
            rec' = FreeActive \/ rec' = [rec EXCEPT ![api.api_dcb_chain].cur = @ + 1]
    BY Zenon DEF bkn_api_rx_copy_from_skb
  <2>3. rec' # [rec EXCEPT ![api.api_dcb_chain].cur = @ + 1]
    BY <1>0 DEF RecType
  <2>. QED  BY <1>3, <2>1, <2>2, <2>3
<1>5. ~(bkn_knet_wb_cleanup \/ \E stale \in BOOLEAN : bkn_knet_hw_reset(stale))
  <2>1. bkn_knet_wb_cleanup \/ (\E stale \in BOOLEAN : bkn_knet_hw_reset(stale))
            => rec' = [q \in Recs |-> NoRec]
    BY Zenon DEF bkn_knet_wb_cleanup, bkn_knet_hw_reset, Abort
  <2>. QED  BY <1>0, <2>1
<1>6. /\ HwRxDone \/ HwWriteBack \/ DoDma \/ ApiRxEnd => rec' = rec
      /\ NoChainDone \/ ApiSync \/ OpenBase \/ StopBase => rec' = rec
      /\ (\E p \in Units : TakeEvents(p)) \/ OtherEvents \/ UNCHANGED allvars => rec' = rec
  BY Zenon DEF HwRxDone, HwWriteBack, DoDma, ApiRxEnd, NoChainDone, ApiSync, OpenBase, StopBase,
       TakeEvents, OtherEvents, apivars, allvars
<1>7. \E c \in Chains : bkn_knet_dma_info(c)
  BY <1>1, <1>2, <1>4, <1>5, <1>6, Zenon DEF ApiNext, Handler
<1>8. PICK c \in Chains, q \in Recs : kmalloc(q) /\ QueueChain(q, c)
  BY <1>1, <1>7, Zenon DEF bkn_knet_dma_info, RefuseChain
<1>9. rec' = [rec EXCEPT ![q] = [used |-> TRUE, chain |-> c, cur |-> 1]]
  BY <1>8, Zenon DEF QueueChain
<1>10. r = q
  BY <1>0, <1>9 DEF RecType
<1>. QED  BY <1>8, <1>10

LEMMA RefusedStep ==
    ASSUME ApiInv, RefusedOK, [ApiNext]_allvars
    PROVE  RefusedOK'
<1>1. \/ refused' = refused
      \/ \E r \in Recs : kmalloc(r) /\ RefuseChain(r)
  BY Zenon DEF ApiNext, Handler, bkn_knet_dma_info, QueueChain, HwRxDone, HwWriteBack, DoDma,
       ApiDcb, Delivered, ApiRxEnd, NoChainDone, ApiSync, bkn_rx_chain_done,
       bkn_api_rx_copy_from_skb, bkn_knet_hw_reset, bkn_knet_wb_cleanup, OpenBase, StopBase,
       TakeEvents, OtherEvents, allvars, apivars
<1>2. CASE refused' = refused
  <2>1. ASSUME NEW r \in refused, rec'[r].used
        PROVE  FALSE
    <3>1. r \in Recs /\ ~rec[r].used
      BY <2>1 DEF RefusedOK
    <3>2. kmalloc(r)
      BY <2>1, <3>1, UsedStep, Zenon
    <3>. QED  BY <2>1, <3>2, Zenon DEF kmalloc
  <2>. QED  BY <1>2, <2>1 DEF RefusedOK
<1>3. ASSUME NEW r \in Recs, kmalloc(r), RefuseChain(r)
      PROVE  RefusedOK'
  <2>1. refused' = refused \cup {r} /\ rec' = rec
    BY <1>3, Zenon DEF RefuseChain
  <2>2. ~rec[r].used
    BY <1>3, Zenon DEF kmalloc
  <2>. QED  BY <2>1, <2>2 DEF RefusedOK
<1>. QED  BY <1>1, <1>2, <1>3

LEMMA RefusedInvariant == ApiSpec => []RefusedOK
<1>1. ApiInit => RefusedOK
  <2>1. ApiInit => refused = {}
    BY Zenon DEF ApiInit
  <2>. QED  BY <2>1 DEF RefusedOK
<1>2. ApiInv /\ RefusedOK /\ [ApiNext]_allvars => RefusedOK'
  BY RefusedStep
<1>. QED  BY <1>1, <1>2, ApiInvariant, PTL DEF ApiSpec

(* Every bkn_dcb_chain_t that is allocated is in the list or is the active *)
(* one, once, or is one of those that bkn_knet_dma_info refused and left   *)
(* behind (6925); the one that the handler holds while a packet is with    *)
(* the stack stays active.                                                 *)
THEOREM ApiChainsKept == ApiSpec => []ChainsKept
<1>1. ApiInv /\ RefusedOK => ChainsKept
  <2> SUFFICES ASSUME ApiInv, RefusedOK PROVE ChainsKept
    OBVIOUS
  <2>1. Allocated \ refused = {r \in Recs : rec[r].used}
    BY DEF Allocated, RefusedOK
  <2>. QED  BY <2>1, UsedKept, Zenon DEF ChainsKept
<1>. QED  BY <1>1, ApiInvariant, RefusedInvariant, PTL

-----------------------------------------------------------------------------
(* The events.  The queues are used from the first on, each by one         *)
(* instance; every device of an instance that has one has that queue.      *)
DevType == [dma_events : SUBSET EventFlags, evt_idx : {-1} \cup Slots, inst_id : SUBSET Units]
EvtType == [ahead : -MAX_AHEAD .. MAX_AHEAD, inst_id : SUBSET Units]
ThrType == [pc : {"user", "scan", "wait", "done"}, dev_no : Units,
            queue : {-1} \cup Slots, signal : BOOLEAN, unit : Units, flags : SUBSET EventFlags]

QueueTypes ==
    /\ inst \in Configs /\ multi_inst \in BOOLEAN
    /\ dev \in [Units -> DevType]
    /\ evt \in [Slots -> EvtType]
    /\ late \in [Units -> NoPut .. MAX_AHEAD - 1]

ThreadTypes == lost \in BOOLEAN /\ last_dev_no \in Units /\ thr \in [Units -> ThrType]

SlotsOK ==
    /\ ~multi_inst => \A k \in Slots : evt[k].inst_id = {}
    /\ \A j, k \in Slots : k < j /\ evt[j].inst_id # {} => evt[k].inst_id # {}
    /\ \A k \in Slots : evt[k].inst_id # {} => \E u \in Units : evt[k].inst_id = inst[u]
    /\ \A j, k \in Slots : j # k /\ evt[k].inst_id # {} => evt[j].inst_id # evt[k].inst_id

QueuesOK ==
    /\ \A u, v \in Units : inst[u] = inst[v] => dev[u].evt_idx = dev[v].evt_idx
    /\ \A u \in Units : dev[u].evt_idx # -1 =>
          /\ inst[u] = {} => dev[u].evt_idx = 0
          /\ inst[u] # {} => evt[dev[u].evt_idx].inst_id = inst[u]

(* The handlers that count a queue up at the same time have read values    *)
(* close to each other, and not far from where the queue is.               *)
LateOK ==
    \A u \in Units : late[u] # NoPut =>
        /\ Started(u)
        /\ late[u] - evt[dev[u].evt_idx].ahead \in -MAX_AHEAD .. MAX_AHEAD - 1
        /\ \A v \in Units : late[v] # NoPut /\ dev[v].evt_idx = dev[u].evt_idx =>
               late[u] - late[v] < MAX_AHEAD

QueueInv == QueueTypes /\ SlotsOK /\ QueuesOK /\ LateOK
EvInv == QueueInv /\ ThreadTypes

LEMMA UnitFacts ==
    /\ 0 \in Units /\ Units \subseteq Nat /\ Slots = Units
    /\ \A n \in Units : NextUnit(n) \in Units
    /\ MAX_AHEAD \in Nat /\ MAX_AHEAD >= 1 /\ NoPut = -MAX_AHEAD - 1 /\ -1 \notin Slots
BY UnitAssumption, AheadAssumption DEF Units, Slots, NextUnit, NoPut

LEMMA InstFacts ==
    ASSUME inst \in Configs, NEW u \in Units
    PROVE  /\ inst[u] \in SUBSET Units
           /\ inst[u] = {} => \A v \in Units : inst[v] = {}
           /\ inst[u] # {} => /\ u \in inst[u]
                              /\ \A v \in Units : v \in inst[u] <=> inst[v] = inst[u]
BY ConfigAssumption

LEMMA DevFields ==
    ASSUME QueueTypes, NEW u \in Units
    PROVE  /\ dev[u] \in DevType /\ dev[u].dma_events \in SUBSET EventFlags
           /\ dev[u].evt_idx \in {-1} \cup Slots /\ dev[u].inst_id \in SUBSET Units
           /\ late[u] \in NoPut .. MAX_AHEAD - 1
BY DEF QueueTypes, DevType

LEMMA EvtFields ==
    ASSUME QueueTypes, NEW k \in Slots
    PROVE  /\ evt[k] \in EvtType /\ evt[k].ahead \in -MAX_AHEAD .. MAX_AHEAD
           /\ evt[k].inst_id \in SUBSET Units
BY DEF QueueTypes, EvtType

(* bkn_create_inst always finds a queue: there are as many as devices.     *)
IsFree(k, id) == evt[k].inst_id = id \/ ~multi_inst \/ evt[k].inst_id = {}

LEMMA FreeSlot ==
    ASSUME QueueTypes, SlotsOK, NEW u \in Units
    PROVE  \E k \in Slots : IsFree(k, inst[u])
<1> SUFFICES ASSUME \A k \in Slots : ~IsFree(k, inst[u])
             PROVE  FALSE
  OBVIOUS
<1> DEFINE owner == [k \in Slots |-> CHOOSE w \in Units : evt[k].inst_id = inst[w]]
           T == Units \ {u}
<1>1. \A k \in Slots : owner[k] \in Units /\ evt[k].inst_id = inst[owner[k]]
  BY DEF IsFree, SlotsOK
<1>2. \A k \in Slots : owner[k] \in T
  BY <1>1 DEF IsFree
<1>3. \A j, k \in Slots : owner[j] = owner[k] => j = k
  BY <1>1 DEF IsFree, SlotsOK
<1>4. IsFiniteSet(Units) /\ Cardinality(Units) = UNITS
  <2>1. /\ IsFiniteSet(0 .. UNITS - 1)
        /\ Cardinality(0 .. UNITS - 1) = IF 0 > UNITS - 1 THEN 0 ELSE (UNITS - 1) - 0 + 1
    BY UnitAssumption, FS_Interval
  <2>. QED  BY <2>1, UnitAssumption DEF Units
<1>5. IsFiniteSet(T) /\ Cardinality(T) = UNITS - 1
  BY <1>4, FS_RemoveElement
<1>6. IsFiniteSet(Slots) /\ Cardinality(T) < Cardinality(Slots)
  BY <1>4, <1>5, UnitAssumption DEF Slots
<1>7. owner \in [Slots -> T]
  BY <1>2
<1>. HIDE DEF owner, T
<1>8. \E j, k \in Slots : j # k /\ owner[j] = owner[k]
  BY <1>5, <1>6, <1>7, FS_PigeonHole
<1>. QED  BY <1>3, <1>8

LEMMA SlotFacts ==
    ASSUME QueueTypes, SlotsOK, NEW u \in Units, inst[u] # {}
    PROVE  LET k == SlotFor(inst[u])
           IN  /\ k \in Slots /\ evt[k].inst_id \in {inst[u], {}}
               /\ \A j \in Slots : evt[j].inst_id = inst[u] => j = k
               /\ \A j \in Slots : j < k => evt[j].inst_id # {}
<1> DEFINE k == SlotFor(inst[u])
           F == {j \in Slots : IsFree(j, inst[u])}
<1>1. \E j \in F : \A i \in F : ~(i < j)
  <2>1. F \subseteq Nat /\ F # {}
    BY FreeSlot, UnitFacts
  <2>2. \E j \in F : \A i \in F : ~(<<i, j>> \in OpToRel(<, Nat))
    <3>. HIDE DEF F
    <3>. QED  BY <2>1, NatLessThanWellFounded, WFMin
  <2>. QED  BY <2>1, <2>2 DEF OpToRel
<1>2. \E j \in Slots : IsFree(j, inst[u]) /\ \A i \in Slots : IsFree(i, inst[u]) => j <= i
  BY <1>1, UnitFacts
<1>3. k = CHOOSE j \in Slots :
              IsFree(j, inst[u]) /\ \A i \in Slots : IsFree(i, inst[u]) => j <= i
  BY Zenon DEF SlotFor, IsFree
<1>4. k \in Slots /\ IsFree(k, inst[u]) /\ \A i \in Slots : IsFree(i, inst[u]) => k <= i
  <2>. HIDE DEF k
  <2>. QED  BY <1>2, <1>3
<1>. HIDE DEF k
<1>5. evt[k].inst_id \in {inst[u], {}}
  BY <1>4 DEF IsFree, SlotsOK
<1>6. ASSUME NEW j \in Slots, j < k
      PROVE  evt[j].inst_id # {}
  <2>1. j \in Nat /\ k \in Nat
    BY <1>4, UnitFacts
  <2>2. ~IsFree(j, inst[u])
    BY <1>4, <1>6, <2>1
  <2>. QED  BY <2>2 DEF IsFree
<1>7. ASSUME NEW j \in Slots, evt[j].inst_id = inst[u]
      PROVE  j = k
  <2>1. k <= j
    BY <1>4, <1>7 DEF IsFree
  <2>2. k < j => evt[k].inst_id # {}
    BY <1>4, <1>7 DEF SlotsOK
  <2>. QED  BY <1>4, <1>5, <1>7, <2>1, <2>2, UnitFacts DEF SlotsOK
<1>. QED  BY <1>4, <1>5, <1>6, <1>7 DEF k

(* Steps that leave the devices of a queue where they are.                 *)
LEMMA QueueFrame ==
    ASSUME QueueInv, UNCHANGED <<inst, multi_inst, late>>,
           dev' \in [Units -> DevType], evt' \in [Slots -> EvtType],
           \A u \in Units : dev'[u].evt_idx = dev[u].evt_idx /\ dev'[u].inst_id = dev[u].inst_id,
           \A k \in Slots : evt'[k].inst_id = evt[k].inst_id,
           \A u \in Units : late[u] # NoPut =>
               late[u] - evt'[dev[u].evt_idx].ahead \in -MAX_AHEAD .. MAX_AHEAD - 1
    PROVE  QueueInv'
<1>1. QueueTypes'
  BY DEF QueueInv, QueueTypes
<1>2. SlotsOK'
  BY DEF QueueInv, SlotsOK
<1>3. QueuesOK'
  <2>1. \A u \in Units : dev[u].evt_idx # -1 => dev[u].evt_idx \in Slots
    BY DevFields DEF QueueInv
  <2>. QED  BY <2>1 DEF QueueInv, QueuesOK
<1>4. LateOK'
  BY DEF QueueInv, LateOK, Started
<1>. QED  BY <1>1, <1>2, <1>3, <1>4 DEF QueueInv

(* KCOM_M_REPROBE. *)
LEMMA InstSetStep ==
    ASSUME QueueInv, NEW u \in Units, bkn_knet_dev_inst_set(u)
    PROVE  QueueInv'
<1>0. /\ QueueTypes /\ SlotsOK /\ QueuesOK /\ LateOK /\ ~Started(u)
      /\ inst' = inst /\ late' = late /\ inst \in Configs
  BY DEF QueueInv, QueueTypes, bkn_knet_dev_inst_set
<1>1. CASE inst[u] # {}
  <2> DEFINE k == SlotFor(inst[u])
  <2>1. /\ k \in Slots /\ evt[k].inst_id \in {inst[u], {}}
        /\ \A j \in Slots : evt[j].inst_id = inst[u] => j = k
        /\ \A j \in Slots : j < k => evt[j].inst_id # {}
    BY <1>0, <1>1, SlotFacts
  <2>2. /\ multi_inst' = TRUE
        /\ evt' = [evt EXCEPT ![k].inst_id = inst[u]]
        /\ dev' = [v \in Units |->
                      LET d == [dev[v] EXCEPT !.evt_idx = IF v \in inst[u] THEN k ELSE @]
                      IN  IF v = u THEN [d EXCEPT !.inst_id = inst[u]] ELSE d]
    BY <1>1, Zenon DEF bkn_knet_dev_inst_set, bkn_create_inst
  <2>. HIDE DEF k
  <2>3. inst[u] \in SUBSET Units /\ \A v \in Units : v \in inst[u] <=> inst[v] = inst[u]
    BY <1>0, <1>1, InstFacts
  <2>4. /\ evt' \in [Slots -> EvtType]
        /\ \A j \in Slots : evt'[j].ahead = evt[j].ahead
        /\ \A j \in Slots : j # k => evt'[j].inst_id = evt[j].inst_id
        /\ evt'[k].inst_id = inst[u]
    BY <1>0, <2>1, <2>2, <2>3 DEF QueueTypes, EvtType
  <2>5. ASSUME NEW v \in Units
        PROVE  /\ dev'[v] \in DevType
               /\ v \in inst[u] => dev'[v].evt_idx = k
               /\ v \notin inst[u] => dev'[v].evt_idx = dev[v].evt_idx
               /\ v # u => dev'[v].inst_id = dev[v].inst_id
               /\ v = u => dev'[v].inst_id = inst[u]
    <3> DEFINE e == IF v \in inst[u] THEN k ELSE dev[v].evt_idx
               d == [dev[v] EXCEPT !.evt_idx = e]
    <3>1. dev'[v] = IF v = u THEN [d EXCEPT !.inst_id = inst[u]] ELSE d
      BY <2>2, Zenon
    <3>2. e \in {-1} \cup Slots /\ dev[v] \in DevType
      BY <1>0, <2>1, DevFields
    <3>. HIDE DEF e
    <3>3. d \in DevType /\ d.evt_idx = e /\ d.inst_id = dev[v].inst_id
      BY <3>2 DEF DevType
    <3>. HIDE DEF d
    <3>4. /\ [d EXCEPT !.inst_id = inst[u]] \in DevType
          /\ [d EXCEPT !.inst_id = inst[u]].evt_idx = e
          /\ [d EXCEPT !.inst_id = inst[u]].inst_id = inst[u]
      BY <2>3, <3>3 DEF DevType
    <3>. QED  BY <3>1, <3>3, <3>4 DEF e
  <2>6. QueueTypes'
    <3>1. dev' \in [Units -> DevType]
      BY <2>2, <2>5
    <3>. QED  BY <1>0, <2>2, <2>4, <3>1 DEF QueueTypes
  <2>7. SlotsOK'
    <3>1. ~multi_inst' => \A j \in Slots : evt'[j].inst_id = {}
      BY <2>2
    <3>2. ASSUME NEW j \in Slots, NEW i \in Slots, i < j, evt'[j].inst_id # {}
          PROVE  evt'[i].inst_id # {}
      <4>1. CASE j = k
        BY <1>1, <2>1, <2>4, <3>2, <4>1
      <4>2. CASE j # k
        BY <1>0, <1>1, <2>1, <2>4, <3>2, <4>2 DEF SlotsOK
      <4>. QED  BY <4>1, <4>2
    <3>3. \A j \in Slots : evt'[j].inst_id # {} => \E v \in Units : evt'[j].inst_id = inst[v]
      BY <1>0, <2>4 DEF SlotsOK
    <3>4. \A j, i \in Slots : j # i /\ evt'[i].inst_id # {} => evt'[j].inst_id # evt'[i].inst_id
      BY <1>0, <2>1, <2>4 DEF SlotsOK
    <3>. QED  BY <1>0, <3>1, <3>2, <3>3, <3>4 DEF SlotsOK
  <2>8. QueuesOK'
    <3>1. ASSUME NEW v \in Units, NEW w \in Units, inst[v] = inst[w]
          PROVE  dev'[v].evt_idx = dev'[w].evt_idx
      BY <1>0, <2>3, <2>5, <3>1 DEF QueuesOK
    <3>2. ASSUME NEW v \in Units, dev'[v].evt_idx # -1
          PROVE  /\ inst[v] = {} => dev'[v].evt_idx = 0
                 /\ inst[v] # {} => evt'[dev'[v].evt_idx].inst_id = inst[v]
      <4>1. inst[v] # {}
        BY <1>0, <1>1, InstFacts
      <4>2. CASE v \in inst[u]
        BY <2>3, <2>4, <2>5, <4>1, <4>2
      <4>3. CASE v \notin inst[u]
        <5>1. dev'[v].evt_idx = dev[v].evt_idx /\ dev[v].evt_idx \in Slots
          BY <1>0, <2>5, <3>2, <4>3, DevFields
        <5>2. evt[dev[v].evt_idx].inst_id = inst[v] /\ inst[v] # inst[u]
          BY <1>0, <2>3, <3>2, <4>1, <4>3, <5>1 DEF QueuesOK
        <5>3. dev[v].evt_idx # k
          BY <2>1, <4>1, <5>2
        <5>. QED  BY <2>4, <4>1, <5>1, <5>2, <5>3
      <4>. QED  BY <4>2, <4>3
    <3>. QED  BY <1>0, <3>1, <3>2 DEF QueuesOK
  <2>9. LateOK'
    <3>1. ASSUME NEW v \in Units, late[v] # NoPut
          PROVE  dev'[v].evt_idx = dev[v].evt_idx /\ Started(v)' /\ dev[v].evt_idx \in Slots
      <4>1. Started(v) /\ dev[v].evt_idx \in Slots
        BY <1>0, <3>1, DevFields DEF LateOK, Started
      <4>2. v # u
        BY <1>0, <4>1
      <4>3. v \in inst[u] => dev[v].evt_idx = k
        BY <1>0, <1>1, <2>1, <2>3, <4>1, DevFields DEF QueuesOK, Started
      <4>4. dev'[v].evt_idx = dev[v].evt_idx
        BY <2>5, <4>3
      <4>. QED  BY <1>0, <2>5, <4>1, <4>2, <4>4 DEF Started
    <3>. QED  BY <1>0, <2>4, <3>1 DEF LateOK
  <2>. QED  BY <2>6, <2>7, <2>8, <2>9 DEF QueueInv
<1>2. CASE inst[u] = {}
  <2>1. /\ dev' = [v \in Units |-> [dev[v] EXCEPT !.evt_idx = 0, !.inst_id = {}]]
        /\ evt' = evt /\ multi_inst' = multi_inst
    BY <1>2, Zenon DEF bkn_knet_dev_inst_set
  <2>2. ASSUME NEW v \in Units
        PROVE  dev'[v] \in DevType /\ dev'[v].evt_idx = 0 /\ dev'[v].inst_id = {}
    <3>1. dev'[v] = [dev[v] EXCEPT !.evt_idx = 0, !.inst_id = {}] /\ dev[v] \in DevType
      BY <1>0, <2>1, DevFields, Zenon
    <3>. QED  BY <3>1, UnitFacts DEF DevType
  <2>3. \A v \in Units : inst[v] = {}
    BY <1>0, <1>2, InstFacts
  <2>4. QueueTypes'
    <3>1. dev' \in [Units -> DevType]
      BY <2>1, <2>2
    <3>. QED  BY <1>0, <2>1, <3>1 DEF QueueTypes
  <2>5. SlotsOK'
    BY <1>0, <2>1 DEF SlotsOK
  <2>6. QueuesOK'
    BY <1>0, <2>2, <2>3 DEF QueuesOK
  <2>7. LateOK'
    <3>1. ASSUME NEW v \in Units, late[v] # NoPut
          PROVE  dev[v].evt_idx = 0 /\ dev'[v].evt_idx = 0 /\ Started(v)'
      BY <1>0, <2>2, <2>3, <3>1 DEF LateOK, QueuesOK, Started
    <3>. QED  BY <1>0, <2>1, <3>1 DEF LateOK
  <2>. QED  BY <2>4, <2>5, <2>6, <2>7 DEF QueueInv
<1>. QED  BY <1>1, <1>2

(* Counting a queue up: no one whose value would be left behind is about   *)
(* to write.                                                               *)
LEMMA PostStep ==
    ASSUME QueueInv, NEW u \in Units, NEW flags \in SUBSET EventFlags, Post(u, flags),
           UNCHANGED <<inst, multi_inst, late>>,
           \A v \in Units : dev[v].evt_idx = dev[u].evt_idx =>
               late[v] \in 0 .. MAX_AHEAD \cup {NoPut}
    PROVE  QueueInv'
<1> DEFINE q == dev[u].evt_idx
<1>0. /\ QueueTypes /\ LateOK
      /\ dev' = [dev EXCEPT ![u].dma_events = @ \cup flags]
      /\ evt' = [evt EXCEPT ![q].ahead = Capped(@ + 1)]
  BY Zenon DEF QueueInv, Post
<1>1. /\ dev' \in [Units -> DevType]
      /\ \A v \in Units : dev'[v].evt_idx = dev[v].evt_idx /\ dev'[v].inst_id = dev[v].inst_id
  BY <1>0 DEF QueueTypes, DevType
<1>2. q \in {-1} \cup Slots /\ -1 \notin Slots
  BY <1>0, DevFields, UnitFacts
<1>3. /\ evt' \in [Slots -> EvtType]
      /\ \A k \in Slots : evt'[k].inst_id = evt[k].inst_id
      /\ \A k \in Slots \ {q} : evt'[k].ahead = evt[k].ahead
      /\ q \in Slots => /\ evt'[q].ahead \in Int
                        /\ evt[q].ahead <= evt'[q].ahead /\ evt'[q].ahead <= MAX_AHEAD
  <2>1. CASE q \in Slots
    <3>1. evt[q].ahead \in -MAX_AHEAD .. MAX_AHEAD
      BY <1>0, <2>1, EvtFields
    <3>2. /\ Capped(evt[q].ahead + 1) \in -MAX_AHEAD .. MAX_AHEAD
          /\ evt[q].ahead <= Capped(evt[q].ahead + 1)
      BY <3>1, UnitFacts DEF Capped
    <3>3. evt' = [evt EXCEPT ![q].ahead = Capped(evt[q].ahead + 1)]
      BY <1>0, <2>1, Zenon DEF QueueTypes
    <3> DEFINE n == Capped(evt[q].ahead + 1)
    <3>. HIDE DEF n, q
    <3>. QED  BY <1>0, <2>1, <3>1, <3>2, <3>3, UnitFacts DEF QueueTypes, EvtType, n
  <2>2. CASE q = -1
    <3>1. evt' = evt
      BY <1>0, <1>2, <2>2 DEF QueueTypes
    <3>. QED  BY <1>0, <1>2, <2>2, <3>1 DEF QueueTypes
  <2>. QED  BY <1>2, <2>1, <2>2
<1>4. ASSUME NEW v \in Units, late[v] # NoPut
      PROVE  late[v] - evt'[dev[v].evt_idx].ahead \in -MAX_AHEAD .. MAX_AHEAD - 1
  <2> DEFINE k == dev[v].evt_idx
  <2>1. k \in Slots /\ late[v] - evt[k].ahead \in -MAX_AHEAD .. MAX_AHEAD - 1
        /\ late[v] \in NoPut .. MAX_AHEAD - 1 /\ evt[k].ahead \in -MAX_AHEAD .. MAX_AHEAD
    <3>1. k \in Slots
      BY <1>0, <1>4, DevFields DEF LateOK, Started
    <3>. QED  BY <1>0, <1>4, <3>1, DevFields, EvtFields DEF LateOK
  <2>2. CASE k # q
    BY <1>3, <2>1, <2>2
  <2>3. CASE k = q
    <3>1. late[v] \in 0 .. MAX_AHEAD
      BY <1>4, <2>3
    <3>2. /\ evt'[k].ahead \in Int
          /\ evt[k].ahead <= evt'[k].ahead /\ evt'[k].ahead <= MAX_AHEAD
      BY <1>3, <2>1, <2>3
    <3>. HIDE DEF k
    <3>3. late[v] - evt'[k].ahead \in -MAX_AHEAD .. MAX_AHEAD - 1
      BY <2>1, <3>1, <3>2, UnitFacts
    <3>. QED  BY <3>3 DEF k
  <2>. QED  BY <2>2, <2>3
<1>. QED  BY <1>1, <1>3, <1>4, QueueFrame

LEMMA BeginStep ==
    ASSUME QueueInv, NEW u \in Units, NEW flags \in SUBSET EventFlags, DmaEventBegin(u, flags)
    PROVE  QueueInv'
<1>0. /\ QueueTypes /\ SlotsOK /\ QueuesOK /\ LateOK /\ Started(u)
      /\ inst' = inst /\ evt' = evt /\ multi_inst' = multi_inst
      /\ dev' = [dev EXCEPT ![u].dma_events = @ \cup flags]
      /\ late' = [late EXCEPT ![u] = evt[dev[u].evt_idx].ahead]
      /\ evt[dev[u].evt_idx].ahead \in 0 .. MAX_AHEAD - 1
      /\ \A v \in Units : v # u /\ dev[v].evt_idx = dev[u].evt_idx =>
             late[v] \in 0 .. MAX_AHEAD \cup {NoPut}
  BY Zenon DEF QueueInv, DmaEventBegin, Settled, Sharers
<1>1. /\ dev' \in [Units -> DevType]
      /\ \A v \in Units : dev'[v].evt_idx = dev[v].evt_idx /\ dev'[v].inst_id = dev[v].inst_id
  BY <1>0 DEF QueueTypes, DevType
<1>2. /\ late' \in [Units -> NoPut .. MAX_AHEAD - 1]
      /\ late'[u] = evt[dev[u].evt_idx].ahead
      /\ \A v \in Units \ {u} : late'[v] = late[v]
  <2>1. evt[dev[u].evt_idx].ahead \in NoPut .. MAX_AHEAD - 1
    BY <1>0, UnitFacts
  <2>. QED  BY <1>0, <2>1 DEF QueueTypes
<1>3. QueueTypes'
  BY <1>0, <1>1, <1>2 DEF QueueTypes
<1>4. SlotsOK'
  BY <1>0 DEF SlotsOK
<1>5. QueuesOK'
  BY <1>0, <1>1 DEF QueuesOK
<1>6. ASSUME NEW v \in Units, late'[v] # NoPut
      PROVE  /\ Started(v)'
             /\ late'[v] - evt'[dev'[v].evt_idx].ahead \in -MAX_AHEAD .. MAX_AHEAD - 1
  <2>1. CASE v = u
    <3>1. late'[v] - evt[dev[v].evt_idx].ahead = 0
      BY <1>0, <1>2, <2>1
    <3>. QED  BY <1>0, <1>1, <2>1, <3>1, UnitFacts DEF Started
  <2>2. CASE v # u
    BY <1>0, <1>1, <1>2, <1>6, <2>2 DEF LateOK, Started
  <2>. QED  BY <2>1, <2>2
<1>7. ASSUME NEW v \in Units, NEW w \in Units, late'[v] # NoPut, late'[w] # NoPut,
             dev'[w].evt_idx = dev'[v].evt_idx
      PROVE  late'[v] - late'[w] < MAX_AHEAD
  <2>1. ASSUME NEW x \in Units, late'[x] # NoPut, dev[x].evt_idx = dev[u].evt_idx
        PROVE  late'[x] \in 0 .. MAX_AHEAD - 1
    <3>1. late'[x] \in NoPut .. MAX_AHEAD - 1
      BY <1>2
    <3>2. CASE x = u
      BY <1>0, <1>2, <3>2
    <3>3. CASE x # u
      BY <1>0, <1>2, <2>1, <3>1, <3>3, UnitFacts
    <3>. QED  BY <3>2, <3>3
  <2>2. CASE dev[v].evt_idx = dev[u].evt_idx
    <3>1. late'[v] \in 0 .. MAX_AHEAD - 1 /\ late'[w] \in 0 .. MAX_AHEAD - 1
      BY <1>1, <1>7, <2>1, <2>2
    <3>. QED  BY <3>1, UnitFacts
  <2>3. CASE dev[v].evt_idx # dev[u].evt_idx
    <3>1. v # u /\ w # u /\ dev[w].evt_idx = dev[v].evt_idx
      BY <1>1, <1>7, <2>3
    <3>. QED  BY <1>0, <1>2, <1>7, <3>1 DEF LateOK
  <2>. QED  BY <2>2, <2>3
<1>8. LateOK'
  BY <1>6, <1>7 DEF LateOK
<1>. QED  BY <1>3, <1>4, <1>5, <1>8 DEF QueueInv

LEMMA EndStep ==
    ASSUME QueueInv, NEW u \in Units, DmaEventEnd(u)
    PROVE  QueueInv'
<1> DEFINE q == dev[u].evt_idx
           n == late[u] + 1
<1>0. /\ QueueTypes /\ SlotsOK /\ QueuesOK /\ LateOK /\ late[u] # NoPut
      /\ inst' = inst /\ dev' = dev /\ multi_inst' = multi_inst
      /\ evt' = [evt EXCEPT ![q].ahead = n]
      /\ late' = [late EXCEPT ![u] = NoPut]
  BY Zenon DEF QueueInv, DmaEventEnd
<1>1. q \in Slots
  BY <1>0, DevFields DEF LateOK, Started
<1>2. late[u] \in NoPut .. MAX_AHEAD - 1 /\ n \in -MAX_AHEAD .. MAX_AHEAD
  <2>1. late[u] \in NoPut .. MAX_AHEAD - 1
    BY <1>0, DevFields
  <2>. QED  BY <1>0, <2>1, UnitFacts
<1>3. /\ evt' \in [Slots -> EvtType]
      /\ \A k \in Slots : evt'[k].inst_id = evt[k].inst_id
      /\ \A k \in Slots \ {q} : evt'[k].ahead = evt[k].ahead
      /\ evt'[q].ahead = n
  <2>. HIDE DEF n, q
  <2>. QED  BY <1>0, <1>1, <1>2 DEF QueueTypes, EvtType
<1>4. /\ late' \in [Units -> NoPut .. MAX_AHEAD - 1] /\ late'[u] = NoPut
      /\ \A v \in Units \ {u} : late'[v] = late[v]
  <2>1. NoPut \in NoPut .. MAX_AHEAD - 1
    BY UnitFacts
  <2>. QED  BY <1>0, <2>1 DEF QueueTypes
<1>5. QueueTypes'
  BY <1>0, <1>3, <1>4 DEF QueueTypes
<1>6. SlotsOK'
  BY <1>0, <1>3 DEF SlotsOK
<1>7. QueuesOK'
  <2>1. \A v \in Units : dev[v].evt_idx # -1 => dev[v].evt_idx \in Slots
    BY <1>0, DevFields
  <2>. QED  BY <1>0, <1>3, <2>1 DEF QueuesOK
<1>8. ASSUME NEW v \in Units, late'[v] # NoPut
      PROVE  late[v] - evt'[dev[v].evt_idx].ahead \in -MAX_AHEAD .. MAX_AHEAD - 1
  <2>1. v # u /\ late[v] # NoPut
    BY <1>4, <1>8
  <2>2. dev[v].evt_idx \in Slots
        /\ late[v] - evt[dev[v].evt_idx].ahead \in -MAX_AHEAD .. MAX_AHEAD - 1
    BY <1>0, <2>1, DevFields DEF LateOK, Started
  <2>3. CASE dev[v].evt_idx # q
    BY <1>3, <2>2, <2>3
  <2>4. CASE dev[v].evt_idx = q
    <3>1. late[v] - late[u] < MAX_AHEAD /\ late[u] - late[v] < MAX_AHEAD
      BY <1>0, <2>1, <2>4 DEF LateOK
    <3>2. late[v] \in NoPut .. MAX_AHEAD - 1
      BY <1>0, DevFields
    <3>3. late[v] - n \in -MAX_AHEAD .. MAX_AHEAD - 1
      BY <1>2, <3>1, <3>2, UnitFacts
    <3>. QED  BY <1>3, <2>4, <3>3
  <2>. QED  BY <2>3, <2>4
<1>9. LateOK'
  BY <1>0, <1>4, <1>8 DEF LateOK, Started
<1>. QED  BY <1>5, <1>6, <1>7, <1>9 DEF QueueInv

LEMMA WakeUpStep ==
    ASSUME EvInv, NEW p \in Units, WakeUp(p)
    PROVE  QueueInv'
<1> DEFINE q == thr[p].queue
           n == evt[q].ahead
<1>0. /\ QueueTypes /\ SlotsOK /\ QueuesOK /\ LateOK /\ q # -1
      /\ inst' = inst /\ dev' = dev /\ multi_inst' = multi_inst
      /\ evt' = [evt EXCEPT ![q].ahead = 0]
      /\ late' = Shift(q, n)
  BY Zenon DEF EvInv, QueueInv, WakeUp
<1>1. q \in Slots
  BY <1>0 DEF EvInv, ThreadTypes, ThrType
<1>2. /\ evt' \in [Slots -> EvtType]
      /\ \A k \in Slots : evt'[k].inst_id = evt[k].inst_id
      /\ \A k \in Slots \ {q} : evt'[k].ahead = evt[k].ahead
      /\ evt'[q].ahead = 0
  <2>1. 0 \in -MAX_AHEAD .. MAX_AHEAD
    BY UnitFacts
  <2>. HIDE DEF q
  <2>. QED  BY <1>0, <1>1, <2>1 DEF QueueTypes, EvtType
<1>3. n \in -MAX_AHEAD .. MAX_AHEAD
  BY <1>0, <1>1, EvtFields
<1>4. ASSUME NEW v \in Units
      PROVE  /\ late[v] = NoPut => late'[v] = NoPut
             /\ late[v] # NoPut => /\ late'[v] # NoPut /\ late'[v] \in NoPut .. MAX_AHEAD - 1
                                   /\ dev[v].evt_idx = q => late'[v] = late[v] - n
                                   /\ dev[v].evt_idx # q => late'[v] = late[v]
  <2>1. late'[v] = IF late[v] # NoPut /\ dev[v].evt_idx = q THEN late[v] - n ELSE late[v]
    BY <1>0, Zenon DEF Shift
  <2>2. late[v] \in NoPut .. MAX_AHEAD - 1
    BY <1>0, DevFields
  <2>3. ASSUME late[v] # NoPut, dev[v].evt_idx = q
        PROVE  late[v] - n \in -MAX_AHEAD .. MAX_AHEAD - 1
    BY <1>0, <2>3 DEF LateOK
  <2>. HIDE DEF n
  <2>. QED  BY <2>1, <2>2, <2>3, UnitFacts
<1>5. late' \in [Units -> NoPut .. MAX_AHEAD - 1]
  <2>1. \A v \in Units : late'[v] \in NoPut .. MAX_AHEAD - 1
    BY <1>4, UnitFacts
  <2>2. late' = [v \in Units |-> late'[v]]
    BY <1>0 DEF Shift
  <2>. QED  BY <2>1, <2>2
<1>6. QueueTypes'
  BY <1>0, <1>2, <1>5 DEF QueueTypes
<1>7. SlotsOK'
  BY <1>0, <1>2 DEF SlotsOK
<1>8. QueuesOK'
  <2>1. \A v \in Units : dev[v].evt_idx # -1 => dev[v].evt_idx \in Slots
    BY <1>0, DevFields
  <2>. QED  BY <1>0, <1>2, <2>1 DEF QueuesOK
<1>9. ASSUME NEW v \in Units, late'[v] # NoPut
      PROVE  /\ late[v] # NoPut /\ Started(v)
             /\ late'[v] - evt'[dev[v].evt_idx].ahead \in -MAX_AHEAD .. MAX_AHEAD - 1
  <2>1. late[v] # NoPut
    BY <1>4, <1>9
  <2>2. Started(v) /\ dev[v].evt_idx \in Slots
        /\ late[v] - evt[dev[v].evt_idx].ahead \in -MAX_AHEAD .. MAX_AHEAD - 1
    BY <1>0, <2>1, DevFields DEF LateOK, Started
  <2>3. CASE dev[v].evt_idx # q
    BY <1>2, <1>4, <2>1, <2>2, <2>3
  <2>4. CASE dev[v].evt_idx = q
    <3>1. late'[v] = late[v] - n /\ evt'[dev[v].evt_idx].ahead = 0
      BY <1>2, <1>4, <2>1, <2>4
    <3>2. late[v] - n \in -MAX_AHEAD .. MAX_AHEAD - 1
      BY <2>2, <2>4
    <3>. HIDE DEF n
    <3>3. late'[v] - evt'[dev[v].evt_idx].ahead = late[v] - n
      BY <3>1, <3>2
    <3>. QED  BY <2>1, <2>2, <3>2, <3>3
  <2>. QED  BY <2>3, <2>4
<1>10. ASSUME NEW v \in Units, NEW w \in Units, late'[v] # NoPut, late'[w] # NoPut,
              dev[w].evt_idx = dev[v].evt_idx
       PROVE  late'[v] - late'[w] < MAX_AHEAD
  <2>1. late[v] # NoPut /\ late[w] # NoPut
    BY <1>4, <1>10
  <2>2. late[v] - late[w] < MAX_AHEAD
    BY <1>0, <1>10, <2>1 DEF LateOK
  <2>3. late[v] \in NoPut .. MAX_AHEAD - 1 /\ late[w] \in NoPut .. MAX_AHEAD - 1
    BY <1>0, DevFields
  <2>4. CASE dev[v].evt_idx = q
    <3>1. late'[v] = late[v] - n /\ late'[w] = late[w] - n
      BY <1>4, <1>10, <2>1, <2>4
    <3>. HIDE DEF n
    <3>. QED  BY <1>3, <2>2, <2>3, <3>1, UnitFacts
  <2>5. CASE dev[v].evt_idx # q
    <3>1. late'[v] = late[v] /\ late'[w] = late[w]
      BY <1>4, <1>10, <2>1, <2>5
    <3>. QED  BY <2>2, <3>1
  <2>. QED  BY <2>4, <2>5
<1>11. LateOK'
  BY <1>0, <1>9, <1>10 DEF LateOK, Started
<1>. QED  BY <1>6, <1>7, <1>8, <1>11 DEF QueueInv

-----------------------------------------------------------------------------
(* Whether there is an API channel, and how it gets its packets, never     *)
(* changes.  While there is one, its handler alone posts events.           *)
Kept(s, t) == (t.on <=> s.on) /\ (t.use_rx_skb <=> s.use_rx_skb)

ChannelOn ==
    /\ h.pc # "idle" => api.on
    /\ api.use_rx_skb => api.on
    /\ api.on => \A u \in Units : late[u] = NoPut

LEMMA RestartKept ==
    ASSUME NEW s \in ApiType, NEW R
    PROVE  Kept(s, bkn_api_rx_restart(s, R))
<1>1. CASE ~Takes(s)
  BY <1>1 DEF Takes, bkn_api_rx_restart, Kept
<1>2. CASE Takes(s)
  <2> DEFINE r == Head(s.api_dcb_list)
             t == [s EXCEPT !.api_dcb_chain = r, !.api_active = TRUE,
                            !.api_dcb_list = Tail(@)]
             u == [t EXCEPT !.chain_complete = FALSE]
             d == IF u.dma = Stopped THEN [st |-> "rx", chain |-> R[r].chain, idx |-> 1]
                  ELSE [u.dma EXCEPT !.st = "clash"]
             v == [u EXCEPT !.irq = TRUE, !.desc_done = FALSE, !.chain_done = FALSE, !.dma = d]
  <2>1. Kept(s, t)
    BY DEF ApiType, Kept
  <2>2. Kept(s, v)
    <3>. HIDE DEF d
    <3>. QED  BY DEF ApiType, Kept
  <2>3. bkn_api_rx_restart(s, R) \in {t, v}
    BY <1>2, Zenon DEF bkn_api_rx_restart, Takes, StartDma
  <2>. HIDE DEF t, v
  <2>. QED  BY <2>1, <2>2, <2>3
<1>. QED  BY <1>1, <1>2

LEMMA ResumeKept ==
    ASSUME NEW s \in ApiType
    PROVE  Kept(s, Resume(s))
<1>1. Unsuspended(s) \in ApiType /\ Kept(s, Unsuspended(s))
  BY DEF ApiType, Unsuspended, Kept
<1>2. Kept(Unsuspended(s), Resume(s))
  BY <1>1, RestartKept, Zenon DEF Resume, Unsuspended
<1>. QED  BY <1>1, <1>2 DEF Kept

LEMMA ChainDoneKept ==
    ASSUME NEW s \in ApiType, rec \in RecType
    PROVE  bkn_api_rx_chain_done(s) \in ApiType /\ Kept(s, bkn_api_rx_chain_done(s))
<1>1. ChainDoneOf(s) \in ApiType /\ Kept(s, ChainDoneOf(s))
  BY DEF ApiType, ChainDoneOf, Kept, None
<1>2. bkn_api_rx_chain_done(s) = bkn_api_rx_restart(ChainDoneOf(s), rec)
  BY Zenon DEF bkn_api_rx_chain_done, ChainDoneOf
<1>3. Kept(ChainDoneOf(s), bkn_api_rx_chain_done(s)) /\ bkn_api_rx_chain_done(s) \in ApiType
  BY <1>1, <1>2, RestartKept, RestartType
<1>. QED  BY <1>1, <1>3 DEF Kept

LEMMA EndDmaKept ==
    ASSUME NEW s \in ApiType, EndDma(s)
    PROVE  Kept(s, api') /\ h'.pc = "idle"
<1>1. api' = s \/ api' = Resume(s)
  BY Zenon DEF EndDma
<1>2. Kept(s, s) /\ Kept(s, Resume(s))
  BY ResumeKept DEF Kept
<1>3. h'.pc = "idle"
  BY Zenon DEF EndDma, HandlerIdle
<1>. QED  BY <1>1, <1>2, <1>3, Zenon

(* KCOM_M_DMA_INFO, and the base device is opened.                         *)
LEMMA DmaInfoKept ==
    ASSUME NEW c \in Chains, ApiInv, bkn_knet_dma_info(c)
    PROVE  Kept(api, api')
<1>0. CASE api' = api
  BY <1>0 DEF Kept
<1>1. CASE \E r \in Recs : QueueChain(r, c)
  <2>1. PICK r \in Recs :
           LET s == [api EXCEPT !.api_dcb_list = Append(@, r)]
           IN  api' = IF s.api_active THEN s ELSE bkn_api_rx_restart(s, rec')
    BY <1>1, Zenon DEF QueueChain
  <2> DEFINE s == [api EXCEPT !.api_dcb_list = Append(@, r)]
  <2>2. api \in ApiType
    BY DEF ApiInv, ChanInv
  <2>3. s \in ApiType /\ Kept(api, s)
    <3>1. Append(api.api_dcb_list, r) \in Seq(Recs)
      BY <2>2, ApiFields, AppendProperties
    <3>. QED  BY <2>2, <3>1 DEF ApiType, Kept
  <2>4. api' = s \/ api' = bkn_api_rx_restart(s, rec')
    BY <2>1, Zenon
  <2>. HIDE DEF s
  <2>5. Kept(s, s) /\ Kept(s, bkn_api_rx_restart(s, rec'))
    BY <2>3, RestartKept DEF Kept
  <2>6. Kept(s, api')
    BY <2>4, <2>5, Zenon
  <2>. QED  BY <2>3, <2>6 DEF Kept
<1>. QED  BY <1>0, <1>1, Zenon DEF bkn_knet_dma_info, RefuseChain

LEMMA BeginDmaKept ==
    ASSUME NEW by, api \in ApiType, BeginDma(by)
    PROVE  Kept(api, api')
<1> DEFINE t == [api EXCEPT !.desc_done = FALSE]
<1>1. api' = t
  BY Zenon DEF BeginDma
<1>2. Kept(api, t)
  BY DEF ApiType, Kept
<1>. QED  BY <1>1, <1>2, Zenon

LEMMA OpenBaseKept ==
    ASSUME ApiInv, OpenBase
    PROVE  Kept(api, api')
<1>1. api \in ApiType
  BY DEF ApiInv, ChanInv
<1>2. api' = api \/ api' = Resume(api) \/ BeginDma("open")
  BY Zenon DEF OpenBase
<1>3. Kept(api, api) /\ Kept(api, Resume(api))
  BY <1>1, ResumeKept DEF Kept
<1>. QED  BY <1>1, <1>2, <1>3, BeginDmaKept, Zenon

(* The end of a chain. *)
LEMMA RxChainDoneKept ==
    ASSUME ApiInv, bkn_rx_chain_done
    PROVE  Kept(api, api') /\ h'.pc = "idle"
<1> DEFINE t == [api EXCEPT !.chain_complete = TRUE, !.chain_done = @ /\ h.sync]
<1>1. api \in ApiType /\ rec \in RecType /\ h \in HandlerType
  BY DEF ApiInv, ChanInv
<1>2. t \in ApiType /\ Kept(api, t)
  BY <1>1 DEF ApiType, HandlerType, Kept
<1>3. EndDma(bkn_api_rx_chain_done(t))
  BY Zenon DEF bkn_rx_chain_done
<1>. HIDE DEF t
<1>4. bkn_api_rx_chain_done(t) \in ApiType /\ Kept(t, bkn_api_rx_chain_done(t))
  BY <1>1, <1>2, ChainDoneKept
<1>5. Kept(bkn_api_rx_chain_done(t), api') /\ h'.pc = "idle"
  BY <1>3, <1>4, EndDmaKept
<1>. QED  BY <1>2, <1>4, <1>5 DEF Kept

LEMMA CopyKept ==
    ASSUME ApiInv, bkn_api_rx_copy_from_skb
    PROVE  Kept(api, api')
<1>1. api \in ApiType /\ rec \in RecType
  BY DEF ApiInv, ChanInv
<1>2. api' = api \/ api' = bkn_api_rx_chain_done(api)
  BY Zenon DEF bkn_api_rx_copy_from_skb
<1>3. Kept(api, api) /\ Kept(api, bkn_api_rx_chain_done(api))
  BY <1>1, ChainDoneKept DEF Kept
<1>. QED  BY <1>2, <1>3, Zenon

(* The steps that change no more than flags of the channel.                *)
LEMMA FlagsKept ==
    ASSUME ApiInv,
           \/ HwRxDone \/ HwWriteBack \/ ApiDcb \/ ApiSync
           \/ \E stale \in BOOLEAN : bkn_knet_hw_reset(stale)
           \/ bkn_knet_wb_cleanup \/ StopBase
    PROVE  Kept(api, api')
<1>0. api \in ApiType /\ h \in HandlerType
  BY DEF ApiInv, ChanInv
<1>1. CASE HwRxDone
  <2> DEFINE i == api.dma.idx
             b == api.chain_done \/ i = DCB_CNT
             s1 == [api EXCEPT !.desc_done = TRUE, !.late = api.posted, !.chain_done = b]
             d == IF i = DCB_CNT THEN Stopped ELSE [s1.dma EXCEPT !.idx = i + 1]
             s2 == [s1 EXCEPT !.dma = d]
  <2>1. api' = s1 \/ api' = s2
    BY <1>1, Zenon DEF HwRxDone
  <2>2. Kept(api, s1) /\ Kept(api, s2)
    <3>. HIDE DEF d, b
    <3>. QED  BY <1>0 DEF ApiType, Kept
  <2>. QED  BY <2>1, <2>2, Zenon
<1>2. CASE HwWriteBack
  <2> DEFINE d == IF api.dma.idx = DCB_CNT THEN Stopped ELSE [api.dma EXCEPT !.idx = @ + 1]
             t == [api EXCEPT !.late = FALSE, !.dma = d]
  <2>1. api' = t
    BY <1>2, Zenon DEF HwWriteBack
  <2>2. Kept(api, t)
    <3>. HIDE DEF d
    <3>. QED  BY <1>0 DEF ApiType, Kept
  <2>. QED  BY <2>1, <2>2, Zenon
<1>3. CASE ApiDcb
  <2> DEFINE b == api.chain_complete \/ rec[h.rec].cur = DCB_CNT
             t == [api EXCEPT !.chain_complete = b]
  <2>1. api' = t
    BY <1>3, Zenon DEF ApiDcb
  <2>2. Kept(api, t)
    <3>. HIDE DEF b
    <3>. QED  BY <1>0 DEF ApiType, Kept
  <2>. QED  BY <2>1, <2>2, Zenon
<1>4. CASE ApiSync
  <2> DEFINE b == api.chain_done /\ h.sync
             t == [api EXCEPT !.chain_done = b]
  <2>1. api' = t
    BY <1>4, Zenon DEF ApiSync
  <2>2. Kept(api, t)
    <3>. HIDE DEF b
    <3>. QED  BY <1>0 DEF ApiType, Kept
  <2>. QED  BY <2>1, <2>2, Zenon
<1>5. CASE \E stale \in BOOLEAN : bkn_knet_hw_reset(stale)
  <2>0. PICK stale \in BOOLEAN : bkn_knet_hw_reset(stale)
    BY <1>5
  <2> DEFINE b == stale /\ api.chain_done /\ api.dma = Stopped
             e == stale /\ api.desc_done /\ api.dma = Stopped
             t == [api EXCEPT !.irq = FALSE, !.dma = Stopped, !.late = FALSE,
                              !.api_dcb_chain = None, !.api_dcb_list = <<>>,
                              !.api_active = FALSE, !.warm = FALSE,
                              !.chain_done = b, !.desc_done = e]
  <2>1. api' = t
    BY <2>0, Zenon DEF bkn_knet_hw_reset, Abort
  <2>2. Kept(api, t)
    <3>. HIDE DEF b, e
    <3>. QED  BY <1>0 DEF ApiType, Kept
  <2>. QED  BY <2>1, <2>2, Zenon
<1>6. CASE bkn_knet_wb_cleanup
  <2> DEFINE t == [api EXCEPT !.api_dcb_chain = None, !.api_dcb_list = <<>>,
                              !.api_active = FALSE, !.warm = TRUE]
  <2>1. api' = t
    BY <1>6, Zenon DEF bkn_knet_wb_cleanup
  <2>2. Kept(api, t)
    BY <1>0 DEF ApiType, Kept
  <2>. QED  BY <2>1, <2>2, Zenon
<1>7. CASE StopBase
  <2> DEFINE b == api.basedev_suspended \/ basedev_suspend
             t == [api EXCEPT !.basedev_suspended = b]
  <2>1. api' = t
    BY <1>7, Zenon DEF StopBase
  <2>2. Kept(api, t)
    <3>. HIDE DEF b
    <3>. QED  BY <1>0 DEF ApiType, Kept
  <2>. QED  BY <2>1, <2>2, Zenon
<1>. QED  BY <1>1, <1>2, <1>3, <1>4, <1>5, <1>6, <1>7, Zenon

LEMMA NextKept ==
    ASSUME ApiInv, ApiNext
    PROVE  Kept(api, api')
<1>0. Kept(api, api) /\ api \in ApiType
  BY DEF Kept, ApiInv, ChanInv
<1>1. CASE \E c \in Chains : bkn_knet_dma_info(c)
  BY <1>1, DmaInfoKept
<1>2. CASE \/ HwRxDone \/ HwWriteBack \/ ApiDcb \/ ApiSync
           \/ \E stale \in BOOLEAN : bkn_knet_hw_reset(stale)
           \/ bkn_knet_wb_cleanup \/ StopBase
  BY <1>2, FlagsKept
<1>3. CASE DoDma
  BY <1>0, <1>3, BeginDmaKept DEF DoDma
<1>4. CASE NoChainDone
  BY <1>0, <1>4, EndDmaKept DEF NoChainDone
<1>5. CASE bkn_rx_chain_done
  BY <1>5, RxChainDoneKept
<1>6. CASE bkn_api_rx_copy_from_skb
  BY <1>6, CopyKept
<1>7. CASE OpenBase
  BY <1>7, OpenBaseKept
<1>8. CASE api' = api
  BY <1>0, <1>8, Zenon
<1>9. Delivered \/ ApiRxEnd \/ (\E p \in Units : TakeEvents(p)) \/ OtherEvents => api' = api
  BY Zenon DEF Delivered, ApiRxEnd, TakeEvents, OtherEvents, apivars
<1>. QED
  BY <1>1, <1>2, <1>3, <1>4, <1>5, <1>6, <1>7, <1>8, <1>9, Zenon DEF ApiNext, Handler

(* The handler runs only where there is a channel for it.                  *)
LEMMA HandlerOn ==
    ASSUME ApiInv, ApiNext, h'.pc # "idle"
    PROVE  h.pc # "idle" \/ api.on
<1>1. CASE h' = h
  BY <1>1, Zenon
<1>2. CASE h.pc # "idle" \/ api.on
  BY <1>2
<1>3. DoDma \/ Handler \/ OpenBase => h.pc # "idle" \/ api.on
  <2>1. DoDma \/ OpenBase => api.on
    BY Zenon DEF DoDma, OpenBase
  <2>2. Handler => h.pc # "idle"
    BY DEF Handler, ApiDcb, Delivered, ApiRxEnd, NoChainDone, ApiSync, bkn_rx_chain_done
  <2>. QED  BY <2>1, <2>2
<1>4. /\ (\E c \in Chains : bkn_knet_dma_info(c)) => h' = h
      /\ HwRxDone \/ HwWriteBack \/ bkn_api_rx_copy_from_skb => h' = h
      /\ (\E stale \in BOOLEAN : bkn_knet_hw_reset(stale)) => h' = h
      /\ bkn_knet_wb_cleanup \/ StopBase => h' = h
      /\ (\E p \in Units : TakeEvents(p)) \/ OtherEvents => h' = h
  BY Zenon DEF bkn_knet_dma_info, HwRxDone, HwWriteBack, bkn_api_rx_copy_from_skb,
       bkn_knet_hw_reset, bkn_knet_wb_cleanup, StopBase, TakeEvents, OtherEvents, apivars
<1>. QED  BY <1>1, <1>2, <1>3, <1>4, Zenon DEF ApiNext

(* All steps but those of the events leave the events alone or post one.   *)
EventPosted == \/ UNCHANGED evvars
               \/ /\ api.on /\ Post(0, {"RX_DONE"})
                  /\ UNCHANGED <<inst, multi_inst, last_dev_no, late, lost, thr>>

LEMMA ApiPosts ==
    ASSUME ChannelOn, ApiNext
    PROVE  EventPosted \/ (\E p \in Units : EventHandled(p)) \/ OtherEvents
<1>1. /\ (\E c \in Chains : bkn_knet_dma_info(c)) => UNCHANGED evvars
      /\ HwRxDone \/ HwWriteBack \/ DoDma => UNCHANGED evvars
      /\ ApiDcb \/ Delivered \/ NoChainDone \/ ApiSync \/ bkn_rx_chain_done => UNCHANGED evvars
      /\ (\E stale \in BOOLEAN : bkn_knet_hw_reset(stale)) => UNCHANGED evvars
      /\ bkn_knet_wb_cleanup \/ OpenBase \/ StopBase => UNCHANGED evvars
  BY Zenon DEF bkn_knet_dma_info, HwRxDone, HwWriteBack, DoDma, ApiDcb, Delivered, NoChainDone,
       ApiSync, bkn_rx_chain_done, bkn_knet_hw_reset, bkn_knet_wb_cleanup, OpenBase, StopBase
<1>2. (\E p \in Units : TakeEvents(p)) => \E p \in Units : EventHandled(p)
  BY Zenon DEF TakeEvents
<1>3. bkn_api_rx_copy_from_skb => EventPosted
  BY Zenon DEF bkn_api_rx_copy_from_skb, EventPosted, ChannelOn
<1>4. ApiRxEnd => EventPosted
  <2>1. h.pc = "rx" => api.on
    BY DEF ChannelOn
  <2>. QED  BY <2>1, Zenon DEF ApiRxEnd, EventPosted, evvars
<1>. QED  BY <1>1, <1>2, <1>3, <1>4, Zenon DEF ApiNext, Handler, EventPosted

LEMMA ChannelOnStep ==
    ASSUME ApiInv, ChannelOn, [ApiNext]_allvars
    PROVE  ChannelOn'
<1>1. CASE UNCHANGED allvars
  BY <1>1, Zenon DEF allvars, apivars, evvars, ChannelOn
<1>2. CASE ApiNext
  <2>1. (api'.on <=> api.on) /\ (api'.use_rx_skb <=> api.use_rx_skb)
    BY <1>2, NextKept DEF Kept
  <2>2. h'.pc # "idle" => h.pc # "idle" \/ api.on
    BY <1>2, HandlerOn
  <2>3. ASSUME api.on, NEW u \in Units
        PROVE  late'[u] = NoPut
    <3>1. \A v \in Units : late[v] = NoPut
      BY <2>3 DEF ChannelOn
    <3>2. CASE late' = late
      BY <3>1, <3>2
    <3>3. CASE OtherEvents
      <4>1. /\ (\E v \in Units : bkn_knet_dev_inst_set(v)) => late' = late
            /\ \A p \in Units : GetNextDmaEvent(p) \/ ScanDevice(p) \/ Signal(p) \/ Interrupted(p)
                                    => late' = late
            /\ \A v \in Units : DmaEvent(v, {"TX_DONE"}) => late' = late
        BY Zenon DEF bkn_knet_dev_inst_set, GetNextDmaEvent, ScanDevice, Signal, Interrupted, DmaEvent
      <4>2. ASSUME NEW p \in Units, WakeUp(p)
            PROVE  late'[u] = NoPut
        <5>1. late' = Shift(thr[p].queue, evt[thr[p].queue].ahead)
          BY <4>2, Zenon DEF WakeUp
        <5>. QED  BY <3>1, <5>1, Zenon DEF Shift
      <4>3. ASSUME NEW v \in Units
            PROVE  ~DmaEventEnd(v)
        BY <3>1, Zenon DEF DmaEventEnd
      <4>. QED  BY <2>3, <3>2, <3>3, <4>1, <4>2, <4>3, Zenon DEF OtherEvents
    <3>4. EventPosted \/ (\E p \in Units : EventHandled(p)) => late' = late
      BY Zenon DEF EventPosted, evvars, EventHandled
    <3>. QED  BY <1>2, <3>2, <3>3, <3>4, ApiPosts, Zenon
  <2>. QED  BY <2>1, <2>2, <2>3, UnitFacts DEF ChannelOn, NoPut
<1>. QED  BY <1>1, <1>2

-----------------------------------------------------------------------------
(* The processes.  A device belongs to one, and the devices of a process   *)
(* are one instance.                                                       *)
LEMMA ProcessOf ==
    ASSUME inst \in Configs, NEW u \in Units
    PROVE  /\ inst[u] = {} => Process(u) = 0
           /\ inst[u] # {} => Process(u) \in inst[u]
<1>1. CASE inst[u] = {}
  BY <1>1, UnitFacts DEF Process
<1>2. CASE inst[u] # {}
  <2>0. inst[u] \subseteq Nat /\ inst[u] \subseteq Units
    BY InstFacts, UnitFacts
  <2> DEFINE S == inst[u]
  <2>1. \E j \in S : \A i \in S : ~(<<i, j>> \in OpToRel(<, Nat))
    <3>. HIDE DEF S
    <3>1. S \subseteq Nat /\ S # {}
      BY <1>2, <2>0 DEF S
    <3>. QED  BY <3>1, NatLessThanWellFounded, WFMin, Zenon
  <2>2. \E j \in S : \A i \in S : ~(i < j)
    BY <2>0, <2>1 DEF OpToRel
  <2>3. \E j \in Units : j \in inst[u] /\ \A i \in inst[u] : j <= i
    BY <2>0, <2>2
  <2>4. Process(u) = CHOOSE j \in Units : j \in inst[u] /\ \A i \in inst[u] : j <= i
    BY <1>2, Zenon DEF Process
  <2>. QED  BY <1>2, <2>3, <2>4
<1>. QED  BY <1>1, <1>2

LEMMA OwnProcess ==
    ASSUME inst \in Configs, NEW p \in Processes, NEW u \in Units, inst[u] = {} \/ p \in inst[u]
    PROVE  /\ Process(u) = p
           /\ \A v \in Units : Process(v) = p => inst[v] = inst[u]
<1>1. PICK w \in Units : p = Process(w)
  BY DEF Processes
<1>2. CASE inst[u] = {}
  <2>1. \A v \in Units : inst[v] = {}
    BY <1>2, InstFacts
  <2>. QED  BY <1>1, <2>1, ProcessOf
<1>3. CASE inst[u] # {}
  <2>1. p \in Units /\ inst[p] = inst[u]
    BY <1>3, InstFacts
  <2>2. ASSUME NEW v \in Units, Process(v) = p
        PROVE  inst[v] = inst[u]
    <3>1. inst[v] # {}
      BY <1>3, InstFacts
    <3>2. p \in inst[v]
      BY <2>2, <3>1, ProcessOf
    <3>. QED  BY <2>1, <3>1, <3>2, InstFacts
  <2>3. Process(w) = Process(u)
    BY <1>1, <2>2, Zenon DEF Process
  <2>. QED  BY <1>1, <2>2, <2>3
<1>. QED  BY <1>2, <1>3

(* What holds of the thread of a process, where threads enter the ioctl    *)
(* only when all devices are set up.                                       *)
ThreadOK(p) ==
    /\ thr[p].pc # "user" => p \in Processes /\ \A u \in Units : Started(u)
    /\ thr[p].pc = "done" => Process(thr[p].unit) = p
    /\ thr[p].pc = "wait" => \A u \in Units : Process(u) = p => thr[p].queue = dev[u].evt_idx

OwnerInv == SetUpFirst => \A p \in Units : ThreadOK(p)

LEMMA ThreadFrame ==
    ASSUME NEW p, ThreadOK(p), thr'[p] = thr[p], inst' = inst,
           \A u \in Units : dev'[u].evt_idx = dev[u].evt_idx /\ dev'[u].inst_id = dev[u].inst_id
    PROVE  ThreadOK(p)'
<1>1. Processes' = Processes /\ \A u : Process(u)' = Process(u)
  BY Zenon DEF Processes, Process
<1>2. (\A u \in Units : Started(u)) => (\A u \in Units : Started(u))'
  BY DEF Started
<1>3. Process(thr[p].unit)' = Process(thr'[p].unit)
  BY Zenon DEF Process
<1>4. thr'[p].pc # "user" => p \in Processes' /\ (\A u \in Units : Started(u))'
  BY <1>1, <1>2 DEF ThreadOK
<1>5. thr'[p].pc = "done" => Process(thr[p].unit)' = p
  <2>1. Process(thr[p].unit)' = Process(thr[p].unit)
    BY Zenon DEF Process
  <2>. QED  BY <2>1 DEF ThreadOK
<1>6. thr'[p].pc = "wait" =>
          \A u \in Units : Process(u)' = p => thr'[p].queue = dev'[u].evt_idx
  BY <1>1 DEF ThreadOK
<1>. QED  BY <1>4, <1>5, <1>6 DEF ThreadOK

-----------------------------------------------------------------------------
(* The inductive invariant of the events, step by step.                    *)
EventInv == EvInv /\ OwnerInv

(* Steps in which no thread does anything, and no device changes hands.    *)
LEMMA OwnerFrame ==
    ASSUME OwnerInv, thr' = thr, inst' = inst,
           \A u \in Units : dev'[u].evt_idx = dev[u].evt_idx /\ dev'[u].inst_id = dev[u].inst_id
    PROVE  OwnerInv'
<1> SUFFICES ASSUME SetUpFirst, NEW p \in Units  PROVE ThreadOK(p)'
  BY DEF OwnerInv
<1>1. ThreadOK(p)
  BY DEF OwnerInv
<1>. QED  BY <1>1, ThreadFrame

LEMMA EvUnchanged ==
    ASSUME EventInv, UNCHANGED evvars
    PROVE  EventInv'
<1>0. /\ inst' = inst /\ dev' = dev /\ evt' = evt /\ multi_inst' = multi_inst
      /\ last_dev_no' = last_dev_no /\ late' = late /\ lost' = lost /\ thr' = thr
  BY Zenon DEF evvars
<1>1. QueueTypes' /\ ThreadTypes'
  BY <1>0 DEF EventInv, EvInv, QueueInv, QueueTypes, ThreadTypes
<1>2. SlotsOK' /\ QueuesOK'
  BY <1>0 DEF EventInv, EvInv, QueueInv, SlotsOK, QueuesOK
<1>3. LateOK'
  BY <1>0 DEF EventInv, EvInv, QueueInv, LateOK, Started
<1>4. OwnerInv'
  BY <1>0, OwnerFrame DEF EventInv
<1>. QED  BY <1>1, <1>2, <1>3, <1>4 DEF EventInv, EvInv, QueueInv

LEMMA InstSetOwner ==
    ASSUME EventInv, NEW u \in Units, bkn_knet_dev_inst_set(u)
    PROVE  EventInv'
<1>0. /\ inst' = inst /\ last_dev_no' = last_dev_no /\ lost' = lost /\ thr' = thr /\ ~Started(u)
  BY Zenon DEF bkn_knet_dev_inst_set
<1>1. QueueInv'
  BY InstSetStep DEF EventInv, EvInv
<1>2. ThreadTypes'
  BY <1>0 DEF EventInv, EvInv, ThreadTypes
<1>3. OwnerInv'
  BY <1>0 DEF EventInv, OwnerInv, ThreadOK
<1>. QED  BY <1>1, <1>2, <1>3 DEF EventInv, EvInv

LEMMA PostOwner ==
    ASSUME EventInv, NEW u \in Units, NEW flags \in SUBSET EventFlags, Post(u, flags),
           UNCHANGED <<inst, multi_inst, last_dev_no, late, lost, thr>>,
           \A v \in Units : dev[v].evt_idx = dev[u].evt_idx =>
               late[v] \in 0 .. MAX_AHEAD \cup {NoPut}
    PROVE  EventInv'
<1>1. QueueInv'
  BY PostStep DEF EventInv, EvInv
<1>2. ThreadTypes'
  BY DEF EventInv, EvInv, ThreadTypes
<1>3. \A v \in Units : dev'[v].evt_idx = dev[v].evt_idx /\ dev'[v].inst_id = dev[v].inst_id
  <2>1. dev' = [dev EXCEPT ![u].dma_events = @ \cup flags]
    BY Zenon DEF Post
  <2>. QED  BY <2>1 DEF EventInv, EvInv, QueueInv, QueueTypes, DevType
<1>4. OwnerInv'
  BY <1>3, OwnerFrame DEF EventInv
<1>. QED  BY <1>1, <1>2, <1>4 DEF EventInv, EvInv

LEMMA BeginOwner ==
    ASSUME EventInv, NEW u \in Units, NEW flags \in SUBSET EventFlags, DmaEventBegin(u, flags)
    PROVE  EventInv'
<1>0. /\ inst' = inst /\ last_dev_no' = last_dev_no /\ lost' = lost /\ thr' = thr
      /\ dev' = [dev EXCEPT ![u].dma_events = @ \cup flags]
  BY Zenon DEF DmaEventBegin
<1>1. QueueInv'
  BY BeginStep DEF EventInv, EvInv
<1>2. ThreadTypes'
  BY <1>0 DEF EventInv, EvInv, ThreadTypes
<1>3. \A v \in Units : dev'[v].evt_idx = dev[v].evt_idx /\ dev'[v].inst_id = dev[v].inst_id
  BY <1>0 DEF EventInv, EvInv, QueueInv, QueueTypes, DevType
<1>4. OwnerInv'
  BY <1>0, <1>3, OwnerFrame DEF EventInv
<1>. QED  BY <1>1, <1>2, <1>4 DEF EventInv, EvInv

LEMMA EndOwner ==
    ASSUME EventInv, NEW u \in Units, DmaEventEnd(u)
    PROVE  EventInv'
<1>0. /\ inst' = inst /\ last_dev_no' = last_dev_no /\ thr' = thr /\ dev' = dev
      /\ lost' = (lost \/ evt[dev[u].evt_idx].ahead # late[u])
  BY Zenon DEF DmaEventEnd
<1>1. QueueInv'
  BY EndStep DEF EventInv, EvInv
<1>2. ThreadTypes'
  <2> DEFINE b == evt[dev[u].evt_idx].ahead # late[u]
  <2>1. b \in BOOLEAN
    OBVIOUS
  <2>. HIDE DEF b
  <2>. QED  BY <1>0, <2>1 DEF EventInv, EvInv, ThreadTypes, b
<1>3. OwnerInv'
  BY <1>0, OwnerFrame DEF EventInv
<1>. QED  BY <1>1, <1>2, <1>3 DEF EventInv, EvInv

(* One thread goes on.                                                     *)
LEMMA ThreadMoves ==
    ASSUME EventInv, NEW p \in Units, NEW t \in ThrType, thr' = [thr EXCEPT ![p] = t],
           QueueInv', inst' = inst, lost' \in BOOLEAN, last_dev_no' \in Units,
           \A u \in Units : dev'[u].evt_idx = dev[u].evt_idx /\ dev'[u].inst_id = dev[u].inst_id,
           SetUpFirst => ThreadOK(p)'
    PROVE  EventInv'
<1>1. thr' \in [Units -> ThrType] /\ \A q \in Units : q # p => thr'[q] = thr[q]
  BY DEF EventInv, EvInv, ThreadTypes
<1>2. ThreadTypes'
  BY <1>1 DEF ThreadTypes
<1>3. OwnerInv'
  <2> SUFFICES ASSUME SetUpFirst, NEW q \in Units, q # p  PROVE ThreadOK(q)'
    BY DEF OwnerInv
  <2>1. ThreadOK(q)
    BY DEF EventInv, OwnerInv
  <2>. QED  BY <1>1, <2>1, ThreadFrame
<1>. QED  BY <1>2, <1>3 DEF EventInv, EvInv

LEMMA ThreadFields ==
    ASSUME EventInv, NEW p \in Units
    PROVE  /\ thr[p] \in ThrType /\ thr[p].dev_no \in Units /\ last_dev_no \in Units
           /\ thr \in [Units -> ThrType] /\ lost \in BOOLEAN
BY DEF EventInv, EvInv, ThreadTypes, ThrType

(* Where the queues do not change at all.                                  *)
LEMMA QueueSame ==
    ASSUME QueueInv, UNCHANGED <<inst, dev, evt, multi_inst, late>>
    PROVE  QueueInv'
<1>1. QueueTypes' /\ SlotsOK' /\ QueuesOK'
  BY DEF QueueInv, QueueTypes, SlotsOK, QueuesOK
<1>2. LateOK'
  BY DEF QueueInv, LateOK, Started
<1>. QED  BY <1>1, <1>2 DEF QueueInv

(* bkn_get_next_dma_event: the thread enters, is interrupted, or goes back *)
(* to its process.                                                         *)
LEMMA GetNextOwner ==
    ASSUME EventInv, NEW p \in Units, GetNextDmaEvent(p)
    PROVE  EventInv'
<1> DEFINE t == [thr[p] EXCEPT !.pc = "scan", !.dev_no = last_dev_no, !.signal = FALSE]
<1>0. /\ inst' = inst /\ dev' = dev /\ evt' = evt /\ multi_inst' = multi_inst
      /\ last_dev_no' = last_dev_no /\ late' = late /\ lost' = lost
      /\ p \in Processes /\ (SetUpFirst => \A u \in Units : Started(u))
      /\ thr' = [thr EXCEPT ![p] = t]
  BY Zenon DEF GetNextDmaEvent
<1>1. t \in ThrType /\ t.pc = "scan"
  <2>1. thr[p] \in ThrType /\ last_dev_no \in Units
    BY ThreadFields
  <2>. QED  BY <2>1 DEF ThrType
<1>. HIDE DEF t
<1>2. thr'[p] = t
  BY <1>0, ThreadFields
<1>3. QueueInv'
  BY <1>0, QueueSame DEF EventInv, EvInv
<1>4. SetUpFirst => ThreadOK(p)'
  <2>1. Processes' = Processes
    BY <1>0, Zenon DEF Processes, Process
  <2>2. (\A u \in Units : Started(u)) => (\A u \in Units : Started(u))'
    BY <1>0 DEF Started
  <2>. QED  BY <1>0, <1>1, <1>2, <2>1, <2>2 DEF ThreadOK
<1>. QED  BY <1>0, <1>1, <1>3, <1>4, ThreadFields, ThreadMoves

(* Steps that leave the thread with its process, or take it back there.    *)
LEMMA ToUser ==
    ASSUME EventInv, NEW p \in Units, NEW t \in ThrType, thr' = [thr EXCEPT ![p] = t],
           t.pc = "user", UNCHANGED <<inst, dev, evt, multi_inst, last_dev_no, late, lost>>
    PROVE  EventInv'
<1>1. thr'[p] = t
  BY ThreadFields
<1>2. QueueInv'
  BY QueueSame DEF EventInv, EvInv
<1>3. ThreadOK(p)'
  BY <1>1 DEF ThreadOK
<1>. QED  BY <1>2, <1>3, ThreadFields, ThreadMoves

LEMMA InterruptedOwner ==
    ASSUME EventInv, NEW p \in Units, Interrupted(p)
    PROVE  EventInv'
<1> DEFINE t == [thr[p] EXCEPT !.pc = "user"]
<1>1. t \in ThrType /\ t.pc = "user"
  <2>1. thr[p] \in ThrType /\ last_dev_no \in Units
    BY ThreadFields
  <2>. QED  BY <2>1 DEF ThrType
<1>2. thr' = [thr EXCEPT ![p] = t] /\ UNCHANGED <<inst, dev, evt, multi_inst, last_dev_no, late, lost>>
  BY Zenon DEF Interrupted
<1>. HIDE DEF t
<1>. QED  BY <1>1, <1>2, ToUser

LEMMA HandledOwner ==
    ASSUME EventInv, NEW p \in Units, EventHandled(p)
    PROVE  EventInv'
<1> DEFINE t == [thr[p] EXCEPT !.pc = "user", !.flags = {}]
<1>1. t \in ThrType /\ t.pc = "user"
  <2>1. thr[p] \in ThrType /\ last_dev_no \in Units
    BY ThreadFields
  <2>. QED  BY <2>1 DEF ThrType
<1>2. thr' = [thr EXCEPT ![p] = t] /\ UNCHANGED <<inst, dev, evt, multi_inst, last_dev_no, late, lost>>
  BY Zenon DEF EventHandled
<1>. HIDE DEF t
<1>. QED  BY <1>1, <1>2, ToUser

LEMMA SignalOwner ==
    ASSUME EventInv, NEW p \in Units, Signal(p)
    PROVE  EventInv'
<1> DEFINE t == [thr[p] EXCEPT !.signal = TRUE]
<1>0. /\ inst' = inst /\ dev' = dev /\ evt' = evt /\ multi_inst' = multi_inst
      /\ last_dev_no' = last_dev_no /\ late' = late /\ lost' = lost
      /\ thr' = [thr EXCEPT ![p] = t]
  BY Zenon DEF Signal
<1>1. t \in ThrType /\ t.pc = thr[p].pc /\ t.unit = thr[p].unit /\ t.queue = thr[p].queue
  <2>1. thr[p] \in ThrType
    BY ThreadFields
  <2>. QED  BY <2>1 DEF ThrType
<1>. HIDE DEF t
<1>2. thr'[p] = t
  BY <1>0, ThreadFields
<1>3. QueueInv'
  BY <1>0, QueueSame DEF EventInv, EvInv
<1>4. SetUpFirst => ThreadOK(p)'
  <2>1. SetUpFirst => ThreadOK(p)
    BY DEF EventInv, OwnerInv
  <2>2. Processes' = Processes /\ \A u : Process(u)' = Process(u)
    BY <1>0, Zenon DEF Processes, Process
  <2>3. (\A u \in Units : Started(u)) => (\A u \in Units : Started(u))'
    BY <1>0 DEF Started
  <2>4. Process(thr[p].unit)' = Process(thr[p].unit)
    <3>1. thr'[p].unit = thr[p].unit
      BY <1>1, <1>2
    <3>. QED  BY <1>0, <3>1, Zenon DEF Process
  <2>. QED  BY <1>0, <1>1, <1>2, <2>1, <2>2, <2>3, <2>4 DEF ThreadOK
<1>. QED  BY <1>0, <1>1, <1>3, <1>4, ThreadFields, ThreadMoves

LEMMA WakeUpOwner ==
    ASSUME EventInv, NEW p \in Units, WakeUp(p)
    PROVE  EventInv'
<1> DEFINE t == [thr[p] EXCEPT !.pc = "scan"]
<1>0. /\ inst' = inst /\ dev' = dev /\ last_dev_no' = last_dev_no /\ lost' = lost
      /\ thr' = [thr EXCEPT ![p] = t] /\ thr[p].pc = "wait"
  BY Zenon DEF WakeUp
<1>1. t \in ThrType /\ t.pc = "scan"
  <2>1. thr[p] \in ThrType
    BY ThreadFields
  <2>. QED  BY <2>1 DEF ThrType
<1>. HIDE DEF t
<1>2. thr'[p] = t
  BY <1>0, ThreadFields
<1>3. QueueInv'
  BY WakeUpStep DEF EventInv
<1>4. SetUpFirst => ThreadOK(p)'
  <2>1. SetUpFirst => p \in Processes /\ \A u \in Units : Started(u)
    BY <1>0 DEF EventInv, OwnerInv, ThreadOK
  <2>2. Processes' = Processes
    BY <1>0, Zenon DEF Processes, Process
  <2>3. (\A u \in Units : Started(u)) => (\A u \in Units : Started(u))'
    BY <1>0 DEF Started
  <2>. QED  BY <1>1, <1>2, <2>1, <2>2, <2>3 DEF ThreadOK
<1>. QED  BY <1>0, <1>1, <1>3, <1>4, ThreadFields, ThreadMoves

(* The thread looks at a device.  It takes events only from a device that  *)
(* is not foreign, and if it waits then it is for that device's queue.     *)
LEMMA ScanOwner ==
    ASSUME EventInv, NEW p \in Units, ScanDevice(p)
    PROVE  EventInv'
<1> DEFINE u == NextUnit(thr[p].dev_no)
           d == dev[u]
           t1 == [thr[p] EXCEPT !.pc = "done", !.unit = u, !.flags = d.dma_events]
           t2 == [thr[p] EXCEPT !.dev_no = u]
           t3 == [thr[p] EXCEPT !.dev_no = u, !.pc = "wait", !.queue = d.evt_idx]
<1>0. /\ inst' = inst /\ evt' = evt /\ multi_inst' = multi_inst /\ late' = late /\ lost' = lost
      /\ thr[p].pc = "scan"
  BY Zenon DEF ScanDevice
<1>1. QueueInv /\ QueueTypes /\ inst \in Configs /\ dev \in [Units -> DevType]
  BY DEF EventInv, EvInv, QueueInv, QueueTypes
<1>2. u \in Units
  BY ThreadFields, UnitFacts
<1>3. thr[p] \in ThrType
  BY ThreadFields
<1>4. d \in DevType /\ d.dma_events \in SUBSET EventFlags /\ d.evt_idx \in {-1} \cup Slots
  BY <1>1, <1>2, DevFields
<1>5. \/ /\ ~Foreign(p, u) /\ thr' = [thr EXCEPT ![p] = t1] /\ last_dev_no' = u
         /\ dev' = [dev EXCEPT ![u].dma_events = {}]
      \/ thr' = [thr EXCEPT ![p] = t2] /\ UNCHANGED <<dev, last_dev_no>>
      \/ ~Foreign(p, u) /\ thr' = [thr EXCEPT ![p] = t3] /\ UNCHANGED <<dev, last_dev_no>>
  BY Zenon DEF ScanDevice
<1>. HIDE DEF u, d
<1>6. /\ t1 \in ThrType /\ t1.pc = "done" /\ t1.unit = u
      /\ t2 \in ThrType /\ t2.pc = "scan"
      /\ t3 \in ThrType /\ t3.pc = "wait" /\ t3.queue = d.evt_idx
  BY <1>0, <1>2, <1>3, <1>4 DEF ThrType
<1>. HIDE DEF t1, t2, t3
<1>7. /\ dev' \in [Units -> DevType]
      /\ \A v \in Units : dev'[v].evt_idx = dev[v].evt_idx /\ dev'[v].inst_id = dev[v].inst_id
  BY <1>1, <1>5 DEF DevType
<1>8. QueueInv'
  <2>1. \A v \in Units : late[v] # NoPut =>
            late[v] - evt[dev[v].evt_idx].ahead \in -MAX_AHEAD .. MAX_AHEAD - 1
    BY <1>1 DEF QueueInv, LateOK
  <2>2. evt \in [Slots -> EvtType]
    BY <1>1 DEF QueueTypes
  <2>. QED  BY <1>0, <1>1, <1>7, <2>1, <2>2, QueueFrame
<1>9. \E t \in {t1, t2, t3} : /\ thr' = [thr EXCEPT ![p] = t] /\ thr'[p] = t
                              /\ t # t2 => ~Foreign(p, u)
  <2>1. thr \in [Units -> ThrType]
    BY ThreadFields
  <2>. QED  BY <1>5, <2>1
<1>10. ASSUME SetUpFirst
       PROVE  ThreadOK(p)'
  <2>1. p \in Processes /\ \A v \in Units : Started(v)
    BY <1>0, <1>10 DEF EventInv, OwnerInv, ThreadOK
  <2>2. Processes' = Processes /\ \A v : Process(v)' = Process(v)
    BY <1>0, Zenon DEF Processes, Process
  <2>3. (\A v \in Units : Started(v))'
    BY <1>0, <1>7, <2>1 DEF Started
  <2>4. ASSUME ~Foreign(p, u)
        PROVE  /\ Process(u) = p
               /\ \A v \in Units : Process(v) = p => dev[v].evt_idx = d.evt_idx
    <3>1. inst[u] = {} \/ p \in inst[u]
      BY <1>2, <2>1, <2>4 DEF Foreign, Started
    <3>2. /\ Process(u) = p
          /\ \A v \in Units : Process(v) = p => inst[v] = inst[u]
      BY <1>1, <1>2, <2>1, <3>1, OwnProcess
    <3>. QED  BY <1>1, <1>2, <3>2 DEF QueueInv, QueuesOK, d
  <2>5. thr'[p].pc # "scan" => ~Foreign(p, u)
    BY <1>6, <1>9
  <2>6. thr'[p].pc = "done" => thr'[p].unit = u
    BY <1>6, <1>9
  <2>7. thr'[p].pc = "done" => Process(thr[p].unit)' = p
    <3>1. thr'[p].unit = u => Process(thr[p].unit)' = Process(u)
      BY <1>0, Zenon DEF Process
    <3>. QED  BY <2>4, <2>5, <2>6, <3>1
  <2>8. thr'[p].pc = "wait" =>
            \A v \in Units : Process(v)' = p => thr'[p].queue = dev'[v].evt_idx
    BY <1>6, <1>7, <1>9, <2>2, <2>4, <2>5
  <2>. QED  BY <2>1, <2>2, <2>3, <2>7, <2>8 DEF ThreadOK
<1>11. last_dev_no' \in Units
  BY <1>2, <1>5, ThreadFields
<1>. QED  BY <1>0, <1>6, <1>7, <1>8, <1>9, <1>10, <1>11, ThreadFields, ThreadMoves

LEMMA DmaEventOwner ==
    ASSUME EventInv, NEW u \in Units, NEW flags \in SUBSET EventFlags, DmaEvent(u, flags)
    PROVE  EventInv'
<1>1. /\ Post(u, flags) /\ UNCHANGED <<inst, multi_inst, last_dev_no, late, lost, thr>>
      /\ Settled(u)
  BY Zenon DEF DmaEvent
<1>2. ASSUME NEW v \in Units, dev[v].evt_idx = dev[u].evt_idx
      PROVE  late[v] \in 0 .. MAX_AHEAD \cup {NoPut}
  BY <1>1, <1>2 DEF Settled, Sharers
<1>. QED  BY <1>1, <1>2, PostOwner

LEMMA EventStep ==
    ASSUME EventInv, ApiInv, ChannelOn, [ApiNext]_allvars
    PROVE  EventInv'
<1>1. CASE UNCHANGED evvars
  BY <1>1, EvUnchanged
<1>2. CASE EventPosted
  <2>1. CASE /\ api.on /\ Post(0, {"RX_DONE"})
             /\ UNCHANGED <<inst, multi_inst, last_dev_no, late, lost, thr>>
    <3>1. 0 \in Units /\ {"RX_DONE"} \in SUBSET EventFlags
      BY UnitFacts DEF EventFlags
    <3>2. \A v \in Units : late[v] \in 0 .. MAX_AHEAD \cup {NoPut}
      BY <2>1 DEF ChannelOn
    <3>. QED  BY <2>1, <3>1, <3>2, PostOwner
  <2>. QED  BY <1>1, <1>2, <2>1 DEF EventPosted
<1>3. CASE \E p \in Units : EventHandled(p)
  BY <1>3, HandledOwner
<1>4. CASE OtherEvents
  <2>1. {"TX_DONE"} \in SUBSET EventFlags
    BY DEF EventFlags
  <2>2. /\ (\E u \in Units : bkn_knet_dev_inst_set(u)) => EventInv'
        /\ (\E u \in Units : DmaEvent(u, {"TX_DONE"})) => EventInv'
        /\ (\E u \in Units : DmaEventBegin(u, {"TX_DONE"})) => EventInv'
        /\ (\E u \in Units : DmaEventEnd(u)) => EventInv'
    BY <2>1, InstSetOwner, DmaEventOwner, BeginOwner, EndOwner
  <2>3. \A p \in Units : /\ GetNextDmaEvent(p) => EventInv'
                         /\ ScanDevice(p) => EventInv'
                         /\ WakeUp(p) => EventInv'
                         /\ Signal(p) => EventInv'
                         /\ Interrupted(p) => EventInv'
    BY GetNextOwner, ScanOwner, WakeUpOwner, SignalOwner, InterruptedOwner
  <2>. QED  BY <1>4, <2>2, <2>3, Zenon DEF OtherEvents
<1>5. UNCHANGED allvars => UNCHANGED evvars
  BY Zenon DEF allvars
<1>. QED  BY <1>1, <1>2, <1>3, <1>4, <1>5, ApiPosts, Zenon

LEMMA EventInit ==
    ASSUME ApiInit
    PROVE  EventInv /\ ChannelOn
<1>0. EvInit /\ h = HandlerIdle
  BY DEF ApiInit
<1>1. QueueTypes
  <2>1. /\ inst \in Configs /\ multi_inst = FALSE
        /\ dev = [u \in Units |-> [dma_events |-> {}, evt_idx |-> -1, inst_id |-> {}]]
        /\ evt = [q \in Slots |-> [ahead |-> 0, inst_id |-> {}]]
        /\ late = [u \in Units |-> NoPut]
    BY <1>0, Zenon DEF EvInit
  <2>2. dev \in [Units -> DevType]
    BY <2>1 DEF DevType
  <2>3. evt \in [Slots -> EvtType]
    BY <2>1, UnitFacts DEF EvtType
  <2>4. late \in [Units -> NoPut .. MAX_AHEAD - 1]
    BY <2>1, UnitFacts
  <2>. QED  BY <2>1, <2>2, <2>3, <2>4 DEF QueueTypes
<1>2. ThreadTypes
  BY <1>0, UnitFacts DEF EvInit, ThreadTypes, ThrType
<1>3. SlotsOK /\ QueuesOK /\ LateOK
  BY <1>0 DEF EvInit, SlotsOK, QueuesOK, LateOK
<1>4. OwnerInv
  BY <1>0 DEF EvInit, OwnerInv, ThreadOK
<1>5. ChannelOn
  <2>1. \A u \in Units : late[u] = NoPut
    BY <1>0 DEF EvInit
  <2>2. h.pc = "idle"
    BY <1>0 DEF HandlerIdle
  <2>3. api.use_rx_skb => api.on
    BY DEF ApiInit
  <2>. QED  BY <2>1, <2>2, <2>3 DEF ChannelOn
<1>. QED  BY <1>1, <1>2, <1>3, <1>4, <1>5 DEF EventInv, EvInv, QueueInv

LEMMA EventInvariant == ApiSpec => [](ApiInv /\ ChannelOn /\ EventInv)
<1>1. ApiInit => ApiInv /\ ChannelOn /\ EventInv
  BY ApiInitInv, EventInit
<1>2. (ApiInv /\ ChannelOn /\ EventInv) /\ [ApiNext]_allvars => (ApiInv /\ ChannelOn /\ EventInv)'
  BY ApiNextInv, ChannelOnStep, EventStep
<1>. QED  BY <1>1, <1>2, PTL DEF ApiSpec

(* The events of a device go to the process that has the device, and a     *)
(* thread waits only for the queue on which the devices of its own         *)
(* instance post (bkn_create_inst, bkn_get_next_dma_event).  The           *)
(* hypothesis is that threads enter the ioctl only when all devices are    *)
(* set up: a device without an instance is everybody's.                    *)
THEOREM ApiEventToOwner ==
    ASSUME SetUpFirst
    PROVE  ApiSpec => []EventToOwner
<1>1. EventInv => EventToOwner
  BY DEF EventInv, OwnerInv, ThreadOK, EventToOwner
<1>. QED  BY <1>1, EventInvariant, PTL

-----------------------------------------------------------------------------
(* Type correctness. *)
Bounds == base_up \in BOOLEAN /\ resets \in 0 .. MAX_RESETS

LEMMA BoundsStep ==
    ASSUME Bounds, [ApiNext]_allvars
    PROVE  Bounds'
<1>1. base_up' \in {base_up, TRUE, FALSE}
  BY Zenon DEF ApiNext, Handler, bkn_knet_dma_info, HwRxDone, HwWriteBack, DoDma, ApiDcb,
       Delivered, ApiRxEnd, NoChainDone, ApiSync, bkn_rx_chain_done, bkn_api_rx_copy_from_skb,
       bkn_knet_hw_reset, bkn_knet_wb_cleanup, OpenBase, StopBase, TakeEvents, OtherEvents,
       allvars, apivars
<1>2. resets' = resets \/ (resets < MAX_RESETS /\ resets' = resets + 1)
  BY Zenon DEF ApiNext, Handler, bkn_knet_dma_info, HwRxDone, HwWriteBack, DoDma, ApiDcb,
       Delivered, ApiRxEnd, NoChainDone, ApiSync, bkn_rx_chain_done, bkn_api_rx_copy_from_skb,
       bkn_knet_hw_reset, MayReset, bkn_knet_wb_cleanup, OpenBase, StopBase, TakeEvents,
       OtherEvents, allvars, apivars
<1>3. base_up' \in BOOLEAN
  BY <1>1, Zenon DEF Bounds
<1>4. resets' \in 0 .. MAX_RESETS
  BY <1>2 DEF Bounds
<1>. QED  BY <1>3, <1>4 DEF Bounds

(* Every variable has its type, those of the events and of the bounds too. *)
THEOREM ApiTypeCorrect == ApiSpec => []TypeOK
<1>1. ApiInit => Bounds
  BY DEF ApiInit, Bounds
<1>2. Bounds /\ [ApiNext]_allvars => Bounds'
  BY BoundsStep
<1>3. ApiInv /\ EventInv /\ RefusedOK /\ Bounds => TypeOK
  <2>1. EventInv => EvTypeOK
    BY DEF EventInv, EvInv, QueueInv, QueueTypes, ThreadTypes, DevType, EvtType, ThrType, EvTypeOK
  <2>2. ApiInv => /\ dcb \in [Chains -> [Idx -> DcbStates]] /\ api \in ApiType /\ h \in HandlerType
                  /\ rec \in [Recs -> [used : BOOLEAN, chain : Chains, cur : 1 .. DCB_CNT + 1]]
    BY DEF ApiInv, ChanInv, RecType, DcbType
  <2>3. RefusedOK => refused \subseteq Recs
    BY DEF RefusedOK
  <2>. QED  BY <2>1, <2>2, <2>3, Zenon DEF TypeOK, Bounds
<1>. QED  BY <1>1, <1>2, <1>3, EventInvariant, RefusedInvariant, PTL DEF ApiSpec
=============================================================================
