------------------------------- MODULE KnetTx -------------------------------
(***************************************************************************)
(* The transmit half of the KNET network driver (bcm-knet.c), in the mode  *)
(* where the DMA channel is restarted for every chain (not Continuous      *)
(* DMA).  Three parties use the one Tx DMA channel of a switch device:     *)
(*                                                                         *)
(*   - the kernel's network stack, which calls bkn_tx for a virtual        *)
(*     network interface whose queue it believes to be running;            *)
(*   - the BCM API in user space, which posts chains of DCBs (DMA control  *)
(*     blocks) with the KCOM "dma info" ioctl and expects the driver to    *)
(*     hold the kernel's packets back meanwhile;                           *)
(*   - the interrupt handler or NAPI poll, which reclaims the DCBs the     *)
(*     hardware is done with and restarts the channel.                     *)
(*                                                                         *)
(* Every function of the driver below runs under sinfo->lock, so it is one *)
(* operator from the device state to the device state it leaves behind;    *)
(* the actions apply these operators to the variable "sinfo".  The one     *)
(* place where a handler is not atomic is do_dma: it reads the DMA status  *)
(* once, releases the lock while it hands received packets to the stack,   *)
(* and acts on the Tx part of the status afterwards ("latched").           *)
(***************************************************************************)
EXTENDS Integers, FiniteSets

CONSTANTS
    MAX_TX_DCBS,        \* descriptors in the Tx ring (64 in the driver)
    Skbs,               \* socket buffers the stack can hand to the driver
    TsSkbs,             \* those the driver marks SKBTX_IN_PROGRESS (PTP timestamp)
    NoSkb,              \* the NULL pointer
    Netifs,             \* virtual network interfaces (sinfo->ndev_list)
    basedev_suspend,    \* module parameter: pause traffic till the base device is up
    ResetRaces,         \* may a reset hit between the two halves of do_dma, or
                        \* leave a stale chain done behind (CMICm, CMICx)?
    MAX_API_CHAINS,     \* bound: API chains waiting in tx.api_dcb_list
    MAX_RESETS          \* bound: hardware resets in a behaviour

ASSUME RingAssumption == MAX_TX_DCBS \in Nat /\ MAX_TX_DCBS >= 2
ASSUME SkbAssumption == TsSkbs \subseteq Skbs /\ NoSkb \notin Skbs
ASSUME ParamAssumption == basedev_suspend \in BOOLEAN /\ ResetRaces \in BOOLEAN
ASSUME BoundAssumption == MAX_API_CHAINS \in Nat /\ MAX_RESETS \in Nat

VARIABLES
    sinfo,      \* the Tx part of bkn_switch_info_t and the DMA channel it drives
    inflight,   \* per interface: the skb of a bkn_tx call that waits for the lock
    netif_up,   \* per interface: has the stack opened it?
    base_up,    \* netif_running() of the base device
    latched,    \* a do_dma call has seen Tx chain done and not acted on it yet
    resets      \* resets so far

vars == <<sinfo, inflight, netif_up, base_up, latched, resets>>

Dcbs == 0 .. MAX_TX_DCBS - 1

(* The hardware channel: idle, or working on DCB idx of the ring, or on an *)
(* API chain.  "clash" is what is left after the driver starts a channel   *)
(* that is not idle.                                                       *)
Idle == [st |-> "idle", idx |-> 0]
DmaStates == [st : {"idle", "skb", "api", "clash"}, idx : Dcbs]

SinfoType ==
    [free : 0 .. MAX_TX_DCBS, cur : Dcbs, dirty : Dcbs,
     skb : [Dcbs -> Skbs \cup {NoSkb}],        \* desc[].skb
     chain : [Dcbs -> BOOLEAN],                \* chain bit (16) of the DCB
     done : [Dcbs -> BOOLEAN],                 \* done bit (31) of the DCB
     api_active : BOOLEAN,
     api_dcb_list : 0 .. MAX_API_CHAINS,       \* chains waiting, in order
     api_done_event : BOOLEAN,                 \* TX_DONE in sinfo->dma_events
     basedev_suspended : BOOLEAN,
     tx_ptp_queue : SUBSET Skbs,
     owned : SUBSET Skbs,                      \* skbs the driver has not freed
     stopped : [Netifs -> BOOLEAN],            \* netif_queue_stopped()
     irq : BOOLEAN,                            \* Tx bit of sinfo->irq_mask
     chain_done : BOOLEAN,                     \* Tx chain done in the status register
     dma : DmaStates]

-----------------------------------------------------------------------------
(* The ring: "dirty" is the oldest DCB in use, "cur" the next to be used.  *)

Wrap(i) == IF i >= MAX_TX_DCBS THEN i - MAX_TX_DCBS ELSE i
Used(s) == MAX_TX_DCBS - s.free
Pos(s, i) == IF i >= s.dirty THEN i - s.dirty ELSE i - s.dirty + MAX_TX_DCBS
Oldest(s, n) == {i \in Dcbs : Pos(s, i) < n}
InUse(s) == Oldest(s, Used(s))
RingSkbs(s) == {s.skb[i] : i \in InUse(s)} \ {NoSkb}

(* Mutant of IsDonePrefix: bkn_do_tx does not look at the done bit. *)
IsWholeRing(s, n) == n = Used(s)

(* The hardware has marked the n oldest DCBs in use done, not the next. *)
IsDonePrefix(s, n) ==
    \A i \in InUse(s) : /\ Pos(s, i) < n => s.done[i]
                        /\ Pos(s, i) = n => ~s.done[i]

(* dev_dma_chan_clear, dev_irq_mask_enable, dev_dma_chan_start. *)
StartDma(s, st, idx) ==
    [s EXCEPT !.chain_done = FALSE, !.irq = TRUE,
              !.dma = IF @ = Idle THEN [st |-> st, idx |-> idx]
                                  ELSE [st |-> "clash", idx |-> 0]]

bkn_suspend_tx(s) == [s EXCEPT !.stopped = [d \in Netifs |-> TRUE]]

bkn_resume_tx(s) ==
    [s EXCEPT !.stopped = [d \in Netifs |-> @[d] /\ s.free <= 1]]

(* Mutant of bkn_api_tx: forgets to clear api_active. *)
ApiTxStaysActive(s) ==
    IF s.api_dcb_list = 0 THEN s
    ELSE StartDma([s EXCEPT !.api_active = TRUE, !.api_dcb_list = @ - 1], "api", 0)

bkn_api_tx(s) ==
    IF s.api_dcb_list = 0
    THEN [s EXCEPT !.api_active = FALSE]
    ELSE StartDma([s EXCEPT !.api_active = TRUE, !.api_dcb_list = @ - 1], "api", 0)

bkn_tx_dma_start(s) ==
    IF s.free = MAX_TX_DCBS /\ ~s.api_active THEN StartDma(s, "skb", s.cur) ELSE s

(* Reclaim the DCBs that are done: free their skbs, or queue them for the  *)
(* worker that waits for the PTP timestamp.                                *)
Reclaim(s, n) ==
    LET skbs == {s.skb[i] : i \in Oldest(s, n)} \ {NoSkb}
    IN  [s EXCEPT !.skb = [i \in Dcbs |-> IF i \in Oldest(s, n) THEN NoSkb ELSE @[i]],
                  !.done = [i \in Dcbs |-> @[i] /\ i \notin Oldest(s, n)],
                  !.tx_ptp_queue = @ \cup (skbs \cap TsSkbs),
                  !.owned = @ \ (skbs \ TsSkbs),
                  !.dirty = Wrap(@ + n),
                  !.free = @ + n]

bkn_do_tx(s, n) == IF s.api_active THEN s ELSE Reclaim(s, n)

(* Mutant of ChainPending: chains the newest DCB as well (pending-- ). *)
ChainOneTooMany(s) ==
    [s EXCEPT !.chain = [i \in Dcbs |->
        @[i] \/ (i - s.dirty \in 0 .. Used(s) - 1 /\ i < MAX_TX_DCBS - 1)]]

(* Chain the pending DCBs, but never past the end of the ring. *)
ChainPending(s) ==
    [s EXCEPT !.chain = [i \in Dcbs |->
        @[i] \/ (i - s.dirty \in 0 .. Used(s) - 2 /\ i < MAX_TX_DCBS - 1)]]

(* Mutants of bkn_tx_chain_done: the queues stay stopped when nothing is   *)
(* pending; the channel is not restarted for packets that are pending.     *)
ChainDoneNoResume(s) ==
    LET s1 == [s EXCEPT !.irq = FALSE]
        s2 == IF s.api_active
              THEN bkn_api_tx([s1 EXCEPT !.api_done_event = TRUE])
              ELSE s1
    IN  IF s2.api_active THEN s2
        ELSE IF s2.free < MAX_TX_DCBS
        THEN bkn_resume_tx(StartDma(ChainPending(s2), "skb", s2.dirty))
        ELSE bkn_api_tx(s2)

ChainDoneNoRestart(s) ==
    LET s1 == [s EXCEPT !.irq = FALSE]
        s2 == bkn_api_tx([s1 EXCEPT !.api_done_event = s.api_active])
    IN  IF s2.api_active THEN s2 ELSE bkn_resume_tx(s2)

bkn_tx_chain_done(s) ==
    LET s1 == [s EXCEPT !.irq = FALSE]
        s2 == IF s.api_active
              THEN bkn_api_tx([s1 EXCEPT !.api_done_event = TRUE])
              ELSE s1
        s3 == bkn_api_tx(s2)
    IN  IF s2.api_active THEN s2
        ELSE IF s2.free < MAX_TX_DCBS
        THEN bkn_resume_tx(StartDma(ChainPending(s2), "skb", s2.dirty))
        ELSE IF s3.api_active THEN s3
        ELSE bkn_resume_tx(s3)

(* The Tx part of xgs_do_dma, xgsm_do_dma and xgsx_do_dma, when n DCBs are *)
(* done.                                                                   *)
do_dma_tx(s, n) == bkn_tx_chain_done(bkn_do_tx([s EXCEPT !.chain_done = FALSE], n))

(* Abort the channel.  The CMICm and CMICx variants leave the status of an *)
(* idle channel alone, so a stale chain done may survive.                  *)
bkn_dma_abort_tx(s, stale) ==
    [s EXCEPT !.irq = FALSE, !.api_dcb_list = 0, !.dma = Idle,
              !.chain_done = stale /\ @ /\ s.dma = Idle]

(* Free every skb in the ring, make all DCBs free; cur, and the bits in    *)
(* the DCBs themselves, stay.                                              *)
bkn_clean_tx_dcbs(s) ==
    [s EXCEPT !.skb = [i \in Dcbs |-> IF i \in InUse(s) THEN NoSkb ELSE @[i]],
              !.owned = @ \ RingSkbs(s),
              !.dirty = Wrap(@ + Used(s)),
              !.free = MAX_TX_DCBS,
              !.api_active = FALSE]

(* memset(dcb_mem): the skb pointers of the descriptors survive. *)
bkn_init_dcbs(s) ==
    [s EXCEPT !.free = MAX_TX_DCBS, !.cur = 0, !.dirty = 0,
              !.chain = [i \in Dcbs |-> FALSE], !.done = [i \in Dcbs |-> FALSE]]

-----------------------------------------------------------------------------
(* The state after the first KCOM_M_HW_INIT, before any interface is up.   *)
(* The queue of a new network device is not stopped.                       *)
Init ==
    /\ sinfo = [free |-> MAX_TX_DCBS, cur |-> 0, dirty |-> 0,
                skb |-> [i \in Dcbs |-> NoSkb],
                chain |-> [i \in Dcbs |-> FALSE], done |-> [i \in Dcbs |-> FALSE],
                api_active |-> FALSE, api_dcb_list |-> 0, api_done_event |-> FALSE,
                basedev_suspended |-> basedev_suspend,
                tx_ptp_queue |-> {}, owned |-> {},
                stopped |-> [d \in Netifs |-> FALSE],
                irq |-> FALSE, chain_done |-> FALSE, dma |-> Idle]
    /\ inflight = [d \in Netifs |-> NoSkb]
    /\ netif_up = [d \in Netifs |-> FALSE]
    /\ base_up = FALSE
    /\ latched = FALSE
    /\ resets = 0

(* The stack (external) calls ndo_start_xmit of a running queue; the call  *)
(* may have to wait for sinfo->lock, and the queue may be stopped by then. *)
StackXmit(d, p) ==
    /\ netif_up[d] /\ ~sinfo.stopped[d] /\ inflight[d] = NoSkb
    /\ p \notin sinfo.owned
    /\ inflight' = [inflight EXCEPT ![d] = p]
    /\ sinfo' = [sinfo EXCEPT !.owned = @ \cup {p}]
    /\ UNCHANGED <<netif_up, base_up, latched, resets>>

(* bkn_tx, one way out per operator.  FreeSkb is dev_kfree_skb_any. *)
FreeSkb(s, p) == [s EXCEPT !.owned = @ \ {p}]
CheckResources(s) == IF s.free <= 1 THEN bkn_suspend_tx(s) ELSE s

(* Link down, bad RCPU data, too long, padding or call-back failed: these  *)
(* return at once.  The last ones have cleared the DCB already.            *)
TxDrop(p) ==
    \/ sinfo' = FreeSkb(sinfo, p)
    \/ /\ sinfo.free > 1
       /\ sinfo' = FreeSkb([sinfo EXCEPT !.chain[sinfo.cur] = FALSE,
                                         !.done[sinfo.cur] = FALSE], p)

(* The skb cannot be mapped for DMA: desc->skb keeps the freed pointer. *)
TxMapError(p) ==
    /\ sinfo.free > 1
    /\ sinfo' = FreeSkb([sinfo EXCEPT !.skb[sinfo.cur] = p,
                                      !.chain[sinfo.cur] = FALSE,
                                      !.done[sinfo.cur] = FALSE], p)

(* Mutant of TxEnqueue: tx.free goes down before the channel is started. *)
TxEnqueueLate(p) ==
    /\ sinfo.free > 1
    /\ LET s1 == [sinfo EXCEPT !.skb[sinfo.cur] = p,
                               !.chain[sinfo.cur] = FALSE,
                               !.done[sinfo.cur] = FALSE]
           s2 == bkn_tx_dma_start([s1 EXCEPT !.free = @ - 1])
       IN  sinfo' = CheckResources([s2 EXCEPT !.cur = Wrap(@ + 1)])

TxEnqueue(p) ==
    /\ sinfo.free > 1
    /\ LET s1 == bkn_tx_dma_start([sinfo EXCEPT !.skb[sinfo.cur] = p,
                                                !.chain[sinfo.cur] = FALSE,
                                                !.done[sinfo.cur] = FALSE])
           s2 == [s1 EXCEPT !.cur = Wrap(@ + 1), !.free = @ - 1]
       IN  sinfo' = CheckResources(s2)

TxNoResources(p) ==
    /\ sinfo.free <= 1
    /\ sinfo' = CheckResources(FreeSkb(sinfo, p))

bkn_tx(d) ==
    /\ inflight[d] # NoSkb
    /\ LET p == inflight[d]
       IN  TxDrop(p) \/ TxMapError(p) \/ TxEnqueue(p) \/ TxNoResources(p)
    /\ inflight' = [inflight EXCEPT ![d] = NoSkb]
    /\ UNCHANGED <<netif_up, base_up, latched, resets>>

(* The hardware (external) finishes the DCB it works on: it marks it done, *)
(* follows the chain bit, or raises chain done and stops.                  *)
HwDcbDone ==
    /\ sinfo.dma.st = "skb"
    /\ LET i == sinfo.dma.idx
           s1 == [sinfo EXCEPT !.done[i] = TRUE]
       IN  sinfo' = IF sinfo.chain[i]
                    THEN [s1 EXCEPT !.dma.idx = i + 1]
                    ELSE [s1 EXCEPT !.dma = Idle, !.chain_done = TRUE]
    /\ UNCHANGED <<inflight, netif_up, base_up, latched, resets>>

HwApiDone ==
    /\ sinfo.dma.st \in {"api", "clash"}
    /\ sinfo' = [sinfo EXCEPT !.dma = Idle, !.chain_done = TRUE]
    /\ UNCHANGED <<inflight, netif_up, base_up, latched, resets>>

(* do_dma, called by the interrupt handler or by a poll another channel    *)
(* has asked for: reads the status ...                                     *)
DmaLatch ==
    /\ sinfo.chain_done /\ ~latched
    /\ latched' = TRUE
    /\ UNCHANGED <<sinfo, inflight, netif_up, base_up, resets>>

(* ... and after the Rx channels are done acts on it. *)
DmaTx ==
    /\ latched
    /\ latched' = FALSE
    /\ \E n \in 0 .. Used(sinfo) :
           IsDonePrefix(sinfo, n) /\ sinfo' = do_dma_tx(sinfo, n)
    /\ UNCHANGED <<inflight, netif_up, base_up, resets>>

(* KCOM_M_DMA_INFO, type TX_DCB: the BCM API posts a chain of DCBs. *)
bkn_knet_dma_info_tx ==
    /\ sinfo.api_dcb_list < MAX_API_CHAINS
    /\ LET s1 == [bkn_suspend_tx(sinfo) EXCEPT !.api_dcb_list = @ + 1]
       IN  sinfo' = IF /\ s1.free = MAX_TX_DCBS
                       /\ ~s1.api_active
                       /\ ~s1.basedev_suspended
                    THEN bkn_api_tx(s1) ELSE s1
    /\ UNCHANGED <<inflight, netif_up, base_up, latched, resets>>

(* KCOM_M_DMA_EVENT returns the TX_DONE event to the BCM API. *)
TakeTxEvent ==
    /\ sinfo.api_done_event
    /\ sinfo' = [sinfo EXCEPT !.api_done_event = FALSE]
    /\ UNCHANGED <<inflight, netif_up, base_up, latched, resets>>

(* bkn_hw_tstamp_tx_work frees an skb of the PTP queue. *)
bkn_hw_tstamp_tx_work ==
    /\ \E p \in sinfo.tx_ptp_queue :
           sinfo' = FreeSkb([sinfo EXCEPT !.tx_ptp_queue = @ \ {p}], p)
    /\ UNCHANGED <<inflight, netif_up, base_up, latched, resets>>

MayReset == resets < MAX_RESETS /\ (ResetRaces \/ ~latched)

(* KCOM_M_HW_RESET for the Tx channel or for all channels; the PTP queue   *)
(* is purged.                                                              *)
bkn_knet_hw_reset(stale) ==
    /\ MayReset
    /\ LET s1 == bkn_clean_tx_dcbs(bkn_dma_abort_tx(sinfo, stale))
       IN  sinfo' = [s1 EXCEPT !.tx_ptp_queue = {},
                               !.owned = @ \ sinfo.tx_ptp_queue]
    /\ resets' = resets + 1
    /\ UNCHANGED <<inflight, netif_up, base_up, latched>>

(* Mutant of bkn_knet_hw_init: the descriptors are cleared, not cleaned. *)
HwInitNoClean(stale) ==
    /\ MayReset
    /\ sinfo' = bkn_init_dcbs(bkn_dma_abort_tx(sinfo, stale))
    /\ resets' = resets + 1
    /\ UNCHANGED <<inflight, netif_up, base_up, latched>>

(* KCOM_M_HW_INIT. *)
bkn_knet_hw_init(stale) ==
    /\ MayReset
    /\ LET s1 == bkn_clean_tx_dcbs(bkn_dma_abort_tx(sinfo, stale))
       IN  sinfo' = bkn_init_dcbs([s1 EXCEPT !.basedev_suspended =
                                       @ \/ (basedev_suspend /\ ~base_up)])
    /\ resets' = resets + 1
    /\ UNCHANGED <<inflight, netif_up, base_up, latched>>

(* bkn_open and bkn_stop of a virtual interface.  The stack closes an      *)
(* interface only when no bkn_tx call on it is under way.                  *)
OpenNetif(d) ==
    /\ ~netif_up[d]
    /\ netif_up' = [netif_up EXCEPT ![d] = TRUE]
    /\ sinfo' = [sinfo EXCEPT !.stopped[d] = @ /\ sinfo.basedev_suspended]
    /\ UNCHANGED <<inflight, base_up, latched, resets>>

StopNetif(d) ==
    /\ netif_up[d] /\ inflight[d] = NoSkb
    /\ netif_up' = [netif_up EXCEPT ![d] = FALSE]
    /\ sinfo' = [sinfo EXCEPT !.stopped[d] = TRUE]
    /\ UNCHANGED <<inflight, base_up, latched, resets>>

(* bkn_open and bkn_stop of the base device. *)

(* Mutant of Unsuspend: starts the kernel's traffic only. *)
UnsuspendNoApi(s) == bkn_resume_tx([s EXCEPT !.basedev_suspended = FALSE])

Unsuspend(s) ==
    LET s1 == bkn_api_tx([s EXCEPT !.basedev_suspended = FALSE])
    IN  IF s1.api_active THEN s1 ELSE bkn_resume_tx(s1)

OpenBase ==
    /\ ~base_up
    /\ base_up' = TRUE
    /\ \/ ~sinfo.basedev_suspended /\ UNCHANGED sinfo
       \/ /\ sinfo.basedev_suspended /\ ~sinfo.chain_done
          /\ sinfo' = Unsuspend(sinfo)
       \/ /\ sinfo.basedev_suspended /\ sinfo.chain_done
          /\ \E n \in 0 .. Used(sinfo) :
                 IsDonePrefix(sinfo, n) /\ sinfo' = Unsuspend(do_dma_tx(sinfo, n))
    /\ UNCHANGED <<inflight, netif_up, latched, resets>>

StopBase ==
    /\ base_up
    /\ base_up' = FALSE
    /\ sinfo' = IF basedev_suspend
                THEN [bkn_suspend_tx(sinfo) EXCEPT !.basedev_suspended = TRUE]
                ELSE sinfo
    /\ UNCHANGED <<inflight, netif_up, latched, resets>>

Stale == IF ResetRaces THEN BOOLEAN ELSE {FALSE}

Next ==
    \/ \E d \in Netifs : (\E p \in Skbs : StackXmit(d, p)) \/ bkn_tx(d)
    \/ HwDcbDone
    \/ HwApiDone
    \/ DmaLatch
    \/ DmaTx
    \/ bkn_knet_dma_info_tx
    \/ TakeTxEvent
    \/ bkn_hw_tstamp_tx_work
    \/ \E stale \in Stale : bkn_knet_hw_reset(stale) \/ bkn_knet_hw_init(stale)
    \/ \E d \in Netifs : OpenNetif(d) \/ StopNetif(d)
    \/ OpenBase
    \/ StopBase

Spec == Init /\ [][Next]_vars

(* The hardware finishes what it was started on, an enabled interrupt is   *)
(* served, do_dma runs to its end, the callers of bkn_tx get the lock and  *)
(* the workqueue runs.  Nothing is assumed of the stack and the BCM API.   *)
Fairness ==
    /\ WF_vars(HwDcbDone) /\ WF_vars(HwApiDone)
    /\ WF_vars(DmaLatch /\ sinfo.irq) /\ WF_vars(DmaTx)
    /\ \A d \in Netifs : WF_vars(bkn_tx(d))
    /\ WF_vars(bkn_hw_tstamp_tx_work)
FairSpec == Spec /\ Fairness

-----------------------------------------------------------------------------
(* The packets in the ring the hardware has not sent, oldest first. *)
Unsent ==
    LET waiting == {i \in InUse(sinfo) : ~sinfo.done[i]}
        first == Used(sinfo) - Cardinality(waiting)
    IN  [k \in 1 .. Cardinality(waiting) |->
            sinfo.skb[Wrap(sinfo.dirty + first + k - 1)]]

(* The ring, the channel and the completions implement a packet queue:     *)
(* what bkn_tx puts into the ring is sent once, in order (bkn_tx,          *)
(* bkn_do_tx, bkn_tx_chain_done and the hardware).                         *)
Ring == INSTANCE PacketQueue WITH
            Packets <- Skbs, Capacity <- MAX_TX_DCBS - 1, queue <- Unsent
SentInOrder == Ring!Spec

TypeOK ==
    /\ sinfo \in SinfoType
    /\ inflight \in [Netifs -> Skbs \cup {NoSkb}]
    /\ netif_up \in [Netifs -> BOOLEAN]
    /\ base_up \in BOOLEAN /\ latched \in BOOLEAN
    /\ resets \in 0 .. MAX_RESETS

InFlightSkbs == {inflight[d] : d \in Netifs} \ {NoSkb}

(* Every socket buffer the driver was given is in exactly one place, so it *)
(* is freed once and not lost: waiting for the lock in bkn_tx, in a DCB    *)
(* between dirty and cur, or in the PTP queue.  This holds across drops,   *)
(* mapping errors, hw_reset and hw_init at any point (bkn_tx, bkn_do_tx,   *)
(* bkn_clean_tx_dcbs, skb_queue_purge).                                    *)
SkbOwnership ==
    /\ \A i \in InUse(sinfo) : sinfo.skb[i] \in Skbs
    /\ \A i, j \in InUse(sinfo) : sinfo.skb[i] = sinfo.skb[j] => i = j
    /\ \A d, e \in Netifs : inflight[d] = inflight[e] => d = e \/ inflight[d] = NoSkb
    /\ RingSkbs(sinfo) \cap sinfo.tx_ptp_queue = {}
    /\ InFlightSkbs \cap (RingSkbs(sinfo) \cup sinfo.tx_ptp_queue) = {}
    /\ sinfo.owned = RingSkbs(sinfo) \cup sinfo.tx_ptp_queue \cup InFlightSkbs

(* The channel is never started while it is busy, and the hardware works   *)
(* only on a DCB that holds a packet not sent yet: chaining the pending    *)
(* DCBs (bkn_tx_chain_done) never leads it past cur or past the ring's end.*)
HwOnLiveDcb ==
    /\ sinfo.dma.st # "clash"
    /\ sinfo.dma.st = "skb" => /\ sinfo.dma.idx \in InUse(sinfo)
                               /\ ~sinfo.done[sinfo.dma.idx]

(* While there is something to send, the channel is at work or has raised  *)
(* chain done, and its interrupt is enabled: nobody enqueues a packet or   *)
(* posts an API chain that is left behind with no completion to come.      *)
NoLostCompletion ==
    /\ Used(sinfo) > 0 \/ sinfo.api_active
          => sinfo.irq /\ (sinfo.dma # Idle \/ sinfo.chain_done)
    /\ sinfo.api_dcb_list > 0 => Used(sinfo) > 0 \/ sinfo.api_active

(* A queue that bkn_suspend_tx has stopped is never left without a chain   *)
(* done to come, which is what wakes it (bkn_resume_tx).  A hardware reset *)
(* takes that chain done away and no code path restarts the queue.         *)
NoLostWakeup ==
    resets = 0 =>
        \A d \in Netifs : netif_up[d] /\ sinfo.stopped[d]
            => sinfo.irq /\ (sinfo.dma # Idle \/ sinfo.chain_done)

(* The base device is not opened and stopped for ever: each stop with      *)
(* packets in the ring may let OpenBase and a do_dma under way restart the *)
(* same channel twice.                                                     *)
BaseSettles == <>[]base_up \/ <>[]~base_up

(* Unless the BCM API keeps chains waiting for ever (they go first), the   *)
(* driver gets rid of every packet it put into the ring and gives its skb  *)
(* back, whatever resets and suspensions come between (bkn_do_tx,          *)
(* bkn_tx_chain_done, bkn_clean_tx_dcbs).                                  *)
ApiQuiet == <>[](sinfo.api_dcb_list = 0)
RingDrains ==
    ApiQuiet /\ (basedev_suspend => BaseSettles) =>
        \A p \in Skbs : p \in RingSkbs(sinfo) ~> p \notin RingSkbs(sinfo)

(* Under the same condition, without a reset and once traffic is not       *)
(* suspended any more, an interface that is up gets its queue back each    *)
(* time it is stopped (bkn_suspend_tx, bkn_resume_tx, bkn_open).           *)
QueueRestarted ==
    ApiQuiet /\ <>[]~sinfo.basedev_suspended /\ [](resets = 0) =>
        \A d \in Netifs :
            (netif_up[d] /\ sinfo.stopped[d]) ~> (~sinfo.stopped[d] \/ ~netif_up[d])

(* The comment where a chain is posted (bcm-knet.c:6875), "Hold back       *)
(* packets from kernel", is not what happens: the next chain done restarts *)
(* the queues.  So the chain's turn comes only if the stack pauses: once   *)
(* it has no packet to send the chain is started (bkn_api_tx,              *)
(* bkn_tx_chain_done, bkn_open), unless traffic stays suspended.           *)
StackPauses == <>[](inflight = [d \in Netifs |-> NoSkb])
ApiChainServed ==
    StackPauses /\ <>[]~sinfo.basedev_suspended =>
        (sinfo.api_dcb_list > 0 ~> sinfo.api_dcb_list = 0)

=============================================================================
