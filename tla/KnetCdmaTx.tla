----------------------------- MODULE KnetCdmaTx -----------------------------
(***************************************************************************)
(* The transmit channel of KNET in Continuous DMA mode (bcm-knet.c).  The  *)
(* channel is started once and never stops: it runs up to the DCB whose    *)
(* address is in its halt register, waits there, and goes on when the      *)
(* driver writes a new halt address (bkn_cdma_goto).                       *)
(*                                                                         *)
(* It runs round the ring of the kernel's packets; DCB MAX_TX_DCBS is a    *)
(* reload DCB that leads back to the first.  To send a chain of the BCM    *)
(* API the driver turns the current DCB of the ring into a reload DCB that *)
(* leads to the chain.  The last DCB of a chain is a reload DCB too: it    *)
(* leads to the next chain, or back into the ring.                         *)
(*                                                                         *)
(* The base device does not suspend traffic (basedev_suspend = 0, the      *)
(* default).  Packets are alike, there is one interface.                   *)
(***************************************************************************)
EXTENDS Integers, Sequences

CONSTANTS
    MAX_TX_DCBS,        \* descriptors in the ring, without the reload DCB (64)
    Chains,             \* the DCB chains of the BCM API, in DMA memory
    DCB_CNT,            \* DCBs of a chain with a packet; the reload DCB is one more
    DRAIN_LIMIT,        \* DCBs and chains one run of the handler takes (MAX_TX_DCBS)
    MAX_TX_RESETS       \* bound: hw_init commands

ASSUME CdmaTxAssumption ==
    /\ MAX_TX_DCBS \in Nat /\ MAX_TX_DCBS >= 2
    /\ DCB_CNT \in Nat \ {0} /\ DRAIN_LIMIT \in Nat /\ MAX_TX_RESETS \in Nat

VARIABLES
    tx,         \* sinfo->tx and its interrupt status
    chain,      \* the chains and their DCBs
    txhw,       \* the DMA channel: where it is, and its halt register
    txh,        \* the DMA handler; its field "behind" is history only (ChainsDone)
    skb,        \* does the stack call bkn_tx?
    tx_resets   \* hw_init commands so far

txvars == <<tx, chain, txhw, txh, skb, tx_resets>>

TxDcbs == 0 .. MAX_TX_DCBS - 1
Ring == "ring"
NoChain == "none"
At(where, i) == [at |-> where, i |-> i]
LastDcb(c) == At(c, DCB_CNT + 1)
NoLink == At(Ring, MAX_TX_DCBS)     \* the process leaves the address open

(* The chains are told apart from what else a DCB may hold.                *)
ASSUME ChainNamesAssumption == {"free", "skb", Ring, NoChain} \cap Chains = {}

Places == [at : {Ring}, i : 0 .. MAX_TX_DCBS] \cup [at : Chains, i : 1 .. DCB_CNT + 1]

(* A ring DCB holds a packet, leads to a chain, or is free. *)
TxType ==
    [dcb : [TxDcbs -> {"free", "skb"} \cup Chains], done : [TxDcbs -> BOOLEAN],
     free : 0 .. MAX_TX_DCBS, cur : TxDcbs, dirty : TxDcbs,
     api_active : BOOLEAN, api_dcb_list : Seq(Chains),
     api_dcb_chain : Chains \cup {NoChain}, api_dcb_chain_end : Chains \cup {NoChain},
     stopped : BOOLEAN, yield : BOOLEAN, irq : BOOLEAN]

ChainType == [api : BOOLEAN,            \* does KNET have the chain?
              done : 0 .. DCB_CNT + 1,  \* DCBs with their done bit set
              link : Places]            \* the address in the reload DCB

TxNext1(i) == IF i + 1 = MAX_TX_DCBS THEN 0 ELSE i + 1
TxInUse == {i \in TxDcbs : LET n == i - tx.dirty
                           IN  (IF n < 0 THEN n + MAX_TX_DCBS ELSE n)
                                  < MAX_TX_DCBS - tx.free}

(* bkn_init_dcbs: the halt address is that of the first DCB. *)
EmptyRing == [dcb |-> [i \in TxDcbs |-> "free"], done |-> [i \in TxDcbs |-> FALSE],
              free |-> MAX_TX_DCBS, cur |-> 0, dirty |-> 0,
              api_active |-> FALSE, api_dcb_list |-> <<>>,
              api_dcb_chain |-> NoChain, api_dcb_chain_end |-> NoChain,
              stopped |-> FALSE, yield |-> FALSE, irq |-> FALSE]
NoChains == [c \in Chains |-> [api |-> FALSE, done |-> 0, link |-> NoLink]]

CdmaTxInit ==
    /\ tx = EmptyRing
    /\ chain = NoChains
    /\ txhw = [pos |-> At(Ring, 0), halt |-> At(Ring, 0)]
    /\ txh = [pc |-> "idle", done |-> 0, behind |-> FALSE]
    /\ skb = FALSE
    /\ tx_resets = 0

TxLockFree == txh.pc \in {"idle", "latched"}

-----------------------------------------------------------------------------
(* Functions of the driver take and give a state of all they change: the   *)
(* Tx part of sinfo, the chains, the halt address.                         *)
State == [t |-> tx, c |-> chain, halt |-> txhw.halt]
Apply(s) == tx' = s.t /\ chain' = s.c /\ txhw' = [txhw EXCEPT !.halt = s.halt]

bkn_cdma_goto(s, place) == [s EXCEPT !.halt = place]

(* Use one more DCB of the ring. *)
UseDcb(s, what) ==
    [s EXCEPT !.t.dcb[s.t.cur] = what, !.t.done[s.t.cur] = FALSE,
              !.t.cur = TxNext1(@), !.t.free = @ - 1]

bkn_suspend_tx(s) == [s EXCEPT !.t.stopped = TRUE]
bkn_resume_tx(s) == [s EXCEPT !.t.stopped = @ /\ s.t.free <= 1]

bkn_tx_cdma_chain_switch(s) ==
    LET c == s.t.api_dcb_chain
        t == [s EXCEPT !.t.api_active = ~@]
    IN  IF ~s.t.api_active
        THEN bkn_cdma_goto(UseDcb(t, c), LastDcb(c))
        ELSE bkn_cdma_goto([t EXCEPT !.c[c].link = At(Ring, s.t.dirty)],
                           At(Ring, s.t.cur))

bkn_api_tx(s) ==
    IF s.t.api_dcb_list = <<>> THEN [s EXCEPT !.t.api_active = FALSE]
    ELSE LET t == [s EXCEPT !.t.api_dcb_chain = Head(s.t.api_dcb_list),
                            !.t.api_dcb_list = Tail(@)]
         IN  IF s.t.api_active THEN t ELSE bkn_tx_cdma_chain_switch(t)

-----------------------------------------------------------------------------
(* The stack calls bkn_tx while the queue is running; bkn_tx may get the   *)
(* lock when it has been stopped.                                          *)
StackXmit ==
    /\ ~skb /\ ~tx.stopped
    /\ skb' = TRUE
    /\ UNCHANGED <<tx, chain, txhw, txh, tx_resets>>

(* Mutant of SkbHalt: the halt address moves while the API is sending.     *)
SkbHaltAlways(s) == bkn_cdma_goto(s, At(Ring, s.t.cur))

SkbHalt(s) == IF s.t.api_active THEN s ELSE bkn_cdma_goto(s, At(Ring, s.t.cur))

bkn_tx ==
    /\ skb /\ TxLockFree
    /\ skb' = FALSE
    /\ LET s == SkbHalt(UseDcb(State, "skb"))
       IN  \/ tx.free > 1 /\ Apply(IF s.t.free <= 1 THEN bkn_suspend_tx(s) ELSE s)
           \/ tx.free <= 1 /\ Apply(bkn_suspend_tx(State))
    /\ UNCHANGED <<txh, tx_resets>>

(* KCOM_M_DMA_INFO.  The process (external) gives KNET a chain when it has *)
(* it back and the hardware has left it.  A chain that does not end in a   *)
(* reload DCB is not kept ("Not suitable API DCB chain"), and the queues   *)
(* stay stopped.                                                           *)
Stitch(s, c) ==
    IF s.t.api_dcb_chain_end = NoChain THEN s
    ELSE [s EXCEPT !.c[s.t.api_dcb_chain_end].link = At(c, 1)]

bkn_knet_dma_info_tx(c) ==
    /\ TxLockFree /\ ~chain[c].api /\ txhw.pos.at # c
    /\ LET s1 == [bkn_suspend_tx(State) EXCEPT
                     !.c[c] = [api |-> TRUE, done |-> 0, link |-> NoLink],
                     !.t.api_dcb_list = Append(@, c)]
           s2 == [Stitch(s1, c) EXCEPT !.t.api_dcb_chain_end = c]
       IN  \/ Apply(IF tx.api_active THEN bkn_cdma_goto(s2, LastDcb(c))
                    ELSE IF tx.free = MAX_TX_DCBS THEN bkn_api_tx(s2) ELSE s2)
           \/ Apply(bkn_suspend_tx(State))
    /\ UNCHANGED <<txh, skb, tx_resets>>

-----------------------------------------------------------------------------
(* do_dma: the status is read, the Rx channels are served with the lock    *)
(* given up, then the status is cleared and the Tx DCBs are looked at.     *)
(* A poll that comes again on request (napi_poll_again) looks at the Tx    *)
(* DCBs only if the status is set, too.                                    *)
DmaTxLatch ==
    /\ txh.pc = "idle" /\ tx.irq
    /\ txh' = [txh EXCEPT !.pc = "latched"]
    /\ UNCHANGED <<tx, chain, txhw, skb, tx_resets>>

(* bkn_do_tx: the DCBs that are done, from tx.dirty on, are free. *)
DonePrefix(n) ==
    /\ n <= MAX_TX_DCBS - tx.free
    /\ \A k \in 0 .. n - 1 : tx.done[(tx.dirty + k) % MAX_TX_DCBS]
    /\ n = MAX_TX_DCBS - tx.free \/ ~tx.done[(tx.dirty + n) % MAX_TX_DCBS]

bkn_do_tx ==
    /\ txh.pc = "latched"
    /\ \E n \in 0 .. MAX_TX_DCBS :
          LET freed == {(tx.dirty + k) % MAX_TX_DCBS : k \in 0 .. n - 1}
          IN  /\ DonePrefix(n)
              /\ tx' = [tx EXCEPT
                    !.irq = FALSE, !.free = @ + n, !.dirty = (@ + n) % MAX_TX_DCBS,
                    !.dcb = [i \in TxDcbs |-> IF i \in freed THEN "free" ELSE @[i]],
                    !.done = [i \in TxDcbs |-> @[i] /\ i \notin freed]]
              /\ txh' = [txh EXCEPT !.pc = "done", !.done = n]
    /\ UNCHANGED <<chain, txhw, skb, tx_resets>>

(* bkn_tx_cdma_chain_done.  The chains before the last one are drained one *)
(* by one, a bounded number at a time; then the handler ends, and says so  *)
(* (yield: tx_yield, or napi_poll_again, which the next poll takes back    *)
(* and nobody else in Tx looks at) ...                                     *)
Waiting == <<tx.api_dcb_chain>> \o tx.api_dcb_list
Return(s, c) == [s EXCEPT !.c[c].api = FALSE, !.t.api_dcb_chain = NoChain]

DrainMax == IF DRAIN_LIMIT - txh.done < 1 THEN 1 ELSE DRAIN_LIMIT - txh.done
Drained(n) ==
    /\ n < Len(Waiting) /\ n <= DrainMax
    /\ \A k \in 1 .. n : chain[Waiting[k]].done = DCB_CNT + 1
    /\ n + 1 = Len(Waiting) \/ n = DrainMax \/ chain[Waiting[n + 1]].done # DCB_CNT + 1
Drain(n) ==
    [State EXCEPT !.c = [c \in Chains |->
                            IF \E k \in 1 .. n : Waiting[k] = c
                            THEN [@[c] EXCEPT !.api = FALSE] ELSE @[c]],
                  !.t.api_dcb_chain = Waiting[n + 1],
                  !.t.api_dcb_list = SubSeq(Waiting, n + 2, Len(Waiting)),
                  !.t.yield = @ \/ n = DrainMax]

(* ... and the last one is done when its last packet is sent: the channel  *)
(* is parked at the ring.                                                  *)
ApiDone(s) ==
    LET c == s.t.api_dcb_chain
    IN  bkn_resume_tx([Return(bkn_tx_cdma_chain_switch(s), c)
                          EXCEPT !.t.api_dcb_chain_end = NoChain, !.t.yield = FALSE])

(* The history "behind" records that the ring DCB at tx.dirty was done by  *)
(* then, but not yet freed: the channel went on after bkn_do_tx, and its   *)
(* way back from the chain leads to a DCB it has been at.                  *)
ChainsDone(s, behind) == Apply(s) /\ txh' = [pc |-> "idle", done |-> 0, behind |-> behind]

ApiChainsDone ==
    \E n \in 0 .. Len(tx.api_dcb_list) :
        /\ Drained(n)
        /\ LET s == Drain(n)
           IN  IF /\ n < DrainMax /\ s.t.api_dcb_chain = s.t.api_dcb_chain_end
                  /\ chain[s.t.api_dcb_chain].done >= DCB_CNT
               THEN ChainsDone(ApiDone(s), txh.behind \/ tx.done[tx.dirty])
               ELSE ChainsDone(s, txh.behind)

(* Mutant of SkbsDone: waiting chains are not started. *)
SkbsDoneNoApi == ChainsDone(bkn_resume_tx(State), txh.behind)

SkbsDone ==
    LET s == IF tx.free = MAX_TX_DCBS THEN bkn_api_tx(State) ELSE State
    IN  ChainsDone(IF s.t.api_active THEN s ELSE bkn_resume_tx(s), txh.behind)

bkn_tx_cdma_chain_done ==
    /\ txh.pc = "done"
    /\ \/ tx.api_active /\ ApiChainsDone
       \/ ~tx.api_active /\ SkbsDone
    /\ UNCHANGED <<skb, tx_resets>>

-----------------------------------------------------------------------------
(* The channel (external) handles one DCB: it sends the packet or follows  *)
(* the reload DCB, and sets the done bit.  The driver's DCBs ask for an    *)
(* interrupt (the controlled interrupt bit), and so does at least the last *)
(* packet of a chain.                                                      *)
HwTxRing ==
    LET i == txhw.pos.i
    IN  /\ txhw.pos.at = Ring
        /\ \/ /\ i = MAX_TX_DCBS
              /\ txhw' = [txhw EXCEPT !.pos = At(Ring, 0)]
              /\ tx' = [tx EXCEPT !.irq = TRUE]
           \/ /\ i \in TxDcbs
              /\ txhw' = [txhw EXCEPT !.pos = IF tx.dcb[i] \in Chains THEN At(tx.dcb[i], 1)
                                              ELSE At(Ring, i + 1)]
              /\ tx' = [tx EXCEPT !.done[i] = TRUE, !.irq = TRUE]
        /\ UNCHANGED chain

HwTxChain ==
    LET c == txhw.pos.at
        i == txhw.pos.i
    IN  /\ c \in Chains
        /\ txhw' = [txhw EXCEPT !.pos = IF i = DCB_CNT + 1 THEN chain[c].link
                                        ELSE At(c, i + 1)]
        /\ chain' = [chain EXCEPT ![c].done = i]
        /\ \E irq \in BOOLEAN :
              /\ i = DCB_CNT => irq
              /\ tx' = [tx EXCEPT !.irq = @ \/ irq]

HwTx ==
    /\ txhw.pos # txhw.halt
    /\ HwTxRing \/ HwTxChain
    /\ UNCHANGED <<txh, skb, tx_resets>>

(* KCOM_M_HW_INIT, which aborts and restarts the channel: the history      *)
(* starts anew with the ring.                                              *)
bkn_knet_hw_init_tx ==
    /\ TxLockFree /\ tx_resets < MAX_TX_RESETS
    /\ tx_resets' = tx_resets + 1
    /\ tx' = [EmptyRing EXCEPT !.stopped = tx.stopped, !.yield = tx.yield]
    /\ chain' = NoChains
    /\ txhw' = [pos |-> At(Ring, 0), halt |-> At(Ring, 0)]
    /\ txh' = [txh EXCEPT !.behind = FALSE]
    /\ UNCHANGED skb

CdmaTxNext ==
    \/ StackXmit \/ bkn_tx \/ \E c \in Chains : bkn_knet_dma_info_tx(c)
    \/ DmaTxLatch \/ bkn_do_tx \/ bkn_tx_cdma_chain_done
    \/ HwTx \/ bkn_knet_hw_init_tx

CdmaTxFairness ==
    /\ WF_txvars(HwTx)
    /\ WF_txvars(DmaTxLatch) /\ WF_txvars(bkn_do_tx) /\ WF_txvars(bkn_tx_cdma_chain_done)
    /\ WF_txvars(bkn_tx)

CdmaTxSpec == CdmaTxInit /\ [][CdmaTxNext]_txvars /\ CdmaTxFairness

-----------------------------------------------------------------------------
CdmaTxTypeOK ==
    /\ tx \in TxType /\ chain \in [Chains -> ChainType]
    /\ txhw \in [pos : Places, halt : Places]
    /\ txh \in [pc : {"idle", "latched", "done"}, done : 0 .. MAX_TX_DCBS, behind : BOOLEAN]
    /\ skb \in BOOLEAN /\ tx_resets \in 0 .. MAX_TX_RESETS

(* The channel never runs past what there is to send: the DCB it takes     *)
(* next is one in use that is not sent yet, or belongs to a chain that     *)
(* KNET has, or is a reload DCB whose address is set.  So nothing is sent  *)
(* twice and no stale DCB is followed, however packets and chains take     *)
(* turns (bkn_cdma_goto, bkn_tx_cdma_chain_switch, bkn_knet_dma_info).     *)
(* The code keeps this up to the first chain that ends with tx.dirty       *)
(* behind the channel, and again after a reset: when the channel takes the *)
(* reload DCB and all of a chain between bkn_do_tx and the look at the     *)
(* chains, the way back leads to the same reload DCB, and the chain is     *)
(* sent again.  That is the only way in which it fails.                    *)
CdmaTxOnPending ==
    LET p == txhw.pos
    IN  ~txh.behind /\ p # txhw.halt =>
            \/ p = At(Ring, MAX_TX_DCBS)
            \/ p.at = Ring /\ p.i \in TxInUse /\ tx.dcb[p.i] # "free" /\ ~tx.done[p.i]
            \/ /\ p.at \in Chains /\ chain[p.at].done = p.i - 1
               /\ \/ p.i <= DCB_CNT /\ chain[p.at].api
                  \/ p.i = DCB_CNT + 1 /\ chain[p.at].link # NoLink

(* Whatever is given to the channel is sent: each chain goes back to the   *)
(* process, and once the stack pauses the ring empties or the packets      *)
(* wait for chains only (bkn_skb_tx, bkn_api_tx, bkn_tx_cdma_chain_done).  *)
(* This needs more than the code sees to.  When two chains wait for the    *)
(* ring to drain, the halt address is set to the end of the first and      *)
(* nobody moves it; and when the handler has drained as many chains as it  *)
(* may, what is done already has no interrupt to come, with NAPI neither.  *)
OneWaits == tx.api_active \/ Len(tx.api_dcb_list) <= 1
CdmaTxServed ==
    [](OneWaits /\ ~tx.yield /\ ~txh.behind /\ tx_resets = 0) /\ <>[]~skb =>
        /\ []<>(tx.free = MAX_TX_DCBS \/ tx.api_active)
        /\ \A c \in Chains : chain[c].api ~> ~chain[c].api

=============================================================================
