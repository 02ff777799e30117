------------------------------- MODULE KnetRx -------------------------------
(***************************************************************************)
(* The receive half of the KNET network driver (bcm-knet.c): one Rx DMA    *)
(* channel whose buffers are socket buffers (use_rx_skb = 1), in the mode  *)
(* where the channel stops at the end of its chain (not Continuous DMA).   *)
(*                                                                         *)
(* The channel is filled (bkn_rx_refill), started over all MAX_RX_DCBS     *)
(* descriptors (bkn_rx_restart), and when it has reached the end of the    *)
(* ring it has to be filled and started again, by the DMA handler or, when *)
(* there is no memory or the rate limit has no tokens left, by one of two  *)
(* timers.                                                                 *)
(*                                                                         *)
(* The DMA handler (xgs_do_dma and its variants, called by the interrupt   *)
(* handler, by the NAPI poll or by bkn_open of the base device) is not     *)
(* atomic: it gives sinfo->lock up each time it hands a packet to the      *)
(* network stack.  Its local variables are the record h; h.pc says where   *)
(* it is, and the lock is free when h.pc is "idle", "mirror" or "deliver". *)
(***************************************************************************)
EXTENDS Integers, FiniteSets, Sequences

CONSTANTS
    MAX_RX_DCBS,        \* descriptors in the Rx ring (64 in the driver)
    burst_max,          \* tokens of the rate limit
    TOKENS_PER_TICK,    \* tokens that one rxtick adds
    Budgets,            \* packets one call of do_rx may take
    rx_sync_retry,      \* module parameter: rounds to wait for a late DCB
    basedev_suspend,    \* module parameter: pause traffic till the base device is up
    ResetRaces,         \* may a reset hit while a packet is handed to the stack?
    QuietReset,         \* does hw_init follow hw_reset before any timer or poll?
    MAX_RESETS,         \* bound: hw_reset and hw_init commands
    MAX_SHORTAGES       \* bound: failures to allocate or to map an skb

ASSUME RingAssumption == MAX_RX_DCBS \in Nat /\ MAX_RX_DCBS >= 2
ASSUME RateAssumption ==
    /\ burst_max \in Nat /\ burst_max >= MAX_RX_DCBS
    /\ TOKENS_PER_TICK \in Nat /\ TOKENS_PER_TICK >= 1
ASSUME BudgetAssumption == Budgets \subseteq 1 .. MAX_RX_DCBS /\ rx_sync_retry \in Nat
ASSUME ParamAssumption == {basedev_suspend, ResetRaces, QuietReset} \subseteq BOOLEAN
ASSUME BoundAssumption == MAX_RESETS \in Nat /\ MAX_SHORTAGES \in Nat

VARIABLES
    rx,         \* sinfo->rx[chan], its part of sinfo, and the DMA channel
    h,          \* the DMA handler
    base_up,    \* netif_running() of the base device
    in_reset,   \* after hw_reset, before hw_init
    resets      \* resets so far

vars == <<rx, h, base_up, in_reset, resets>>

Dcbs == 0 .. MAX_RX_DCBS - 1
NoDcb == MAX_RX_DCBS

Idle == [st |-> "idle", idx |-> 0]

RxType ==
    [free : 0 .. MAX_RX_DCBS, cur : Dcbs, dirty : Dcbs,
     skb : [Dcbs -> {"none", "buf", "gone"}],  \* desc[].skb: NULL, owned, handed over
     chain : [Dcbs -> BOOLEAN],                \* chain bit of the DCB
     done : [Dcbs -> BOOLEAN],                 \* done bit of the DCB
     running : BOOLEAN, chain_complete : BOOLEAN,
     tokens : 0 .. burst_max,
     timer_queued : BOOLEAN,
     basedev_suspended : BOOLEAN,
     poll : BOOLEAN,                           \* the channel's bit of poll_channels
     irq : BOOLEAN,                            \* its bits of irq_mask
     desc_done : BOOLEAN, chain_done : BOOLEAN,\* the DMA status register
     posted : BOOLEAN,                         \* the platform's DCB writes arrive late
     late : Dcbs \cup {NoDcb},                 \* DCB whose write-back is under way
     dma : [st : {"idle", "rx", "clash"}, idx : Dcbs],
     shortages : 0 .. MAX_SHORTAGES]

HandlerType ==
    [pc : {"idle", "rx", "mirror", "deliver", "chain"},
     by : {"isr", "open"},              \* who has called do_dma, last
     stat : BOOLEAN,                    \* chain done, as read at the start
     sync : BOOLEAN,                    \* inside the loop of bkn_rx_chain_done
     left : 0 .. MAX_RX_DCBS,           \* rest of the budget
     retry : 0 .. rx_sync_retry + 1,    \* maxloop
     idx : Dcbs]                        \* the DCB being delivered

HandlerIdle == [pc |-> "idle", by |-> "isr", stat |-> FALSE, sync |-> FALSE,
                left |-> 0, retry |-> 0, idx |-> 0]

LockFree == h.pc \in {"idle", "mirror", "deliver"}
Awake == QuietReset => ~in_reset

-----------------------------------------------------------------------------
(* The ring: "dirty" is the oldest DCB in use, "cur" the next to be filled. *)

Wrap(i) == IF i >= MAX_RX_DCBS THEN i - MAX_RX_DCBS ELSE i
Prev(i) == IF i = 0 THEN MAX_RX_DCBS - 1 ELSE i - 1
Dist(from, i) == IF i >= from THEN i - from ELSE i - from + MAX_RX_DCBS
InUse(s) == {i \in Dcbs : Dist(s.dirty, i) < s.free}

(* Fill n DCBs.  An skb that was not handed over is used again. *)
Fill(s, n) ==
    LET new == {i \in Dcbs : Dist(s.cur, i) < n}
    IN  [s EXCEPT !.skb = [i \in Dcbs |-> IF i \in new /\ @[i] = "none" THEN "buf" ELSE @[i]],
                  !.chain = [i \in Dcbs |->
                      @[i] \/ (i < MAX_RX_DCBS - 1 /\ \E j \in new : Prev(j) = i)],
                  !.cur = Wrap(@ + n), !.free = @ + n, !.tokens = @ - n]

(* bkn_rx_refill: all the outcomes.  When there is no memory, or the skb   *)
(* cannot be mapped, the ring stays partly filled.                         *)
bkn_rx_refill(s) ==
    LET missing == MAX_RX_DCBS - s.free
    IN  IF s.tokens < MAX_RX_DCBS THEN {s}
        ELSE {Fill(s, missing)} \cup
             {[Fill(s, n) EXCEPT !.skb[Wrap(s.cur + n)] = "none", !.shortages = @ + 1] :
                 n \in IF s.shortages < MAX_SHORTAGES THEN 0 .. missing - 1 ELSE {}}

RestartFails(s) == ~s.basedev_suspended /\ ~s.running /\ s.free < MAX_RX_DCBS

(* Mutant of bkn_rx_restart: starts a ring that is partly filled. *)
RestartPartlyFilled(s) ==
    IF s.basedev_suspended \/ s.running THEN s
    ELSE [s EXCEPT !.chain_complete = FALSE, !.chain_done = FALSE, !.desc_done = FALSE,
                   !.irq = TRUE, !.running = TRUE,
                   !.dma = IF @ = Idle THEN [st |-> "rx", idx |-> s.dirty]
                                       ELSE [st |-> "clash", idx |-> 0]]

bkn_rx_restart(s) ==
    IF s.basedev_suspended \/ s.running \/ s.free < MAX_RX_DCBS THEN s
    ELSE [s EXCEPT !.chain_complete = FALSE, !.chain_done = FALSE, !.desc_done = FALSE,
                   !.irq = TRUE, !.running = TRUE,
                   !.dma = IF @ = Idle THEN [st |-> "rx", idx |-> s.dirty]
                                       ELSE [st |-> "clash", idx |-> 0]]

(* Abort the channel.  The CMICm and CMICx variants leave the status of an *)
(* idle channel alone.                                                     *)
bkn_dma_abort_rx(s, stale) ==
    [s EXCEPT !.irq = FALSE, !.dma = Idle, !.late = NoDcb,
              !.chain_done = stale /\ @ /\ s.dma = Idle,
              !.desc_done = stale /\ @ /\ s.dma = Idle]

(* Free the skbs of the DCBs in use; the DCBs themselves stay as they are. *)
bkn_clean_rx_dcbs(s) ==
    [s EXCEPT !.skb = [i \in Dcbs |-> IF i \in InUse(s) THEN "none" ELSE @[i]],
              !.dirty = Wrap(@ + s.free), !.free = 0, !.running = FALSE]

bkn_init_dcbs(s) ==
    [s EXCEPT !.free = 0, !.cur = 0, !.dirty = 0,
              !.chain = [i \in Dcbs |-> FALSE], !.done = [i \in Dcbs |-> FALSE]]

-----------------------------------------------------------------------------
(* The state after a first KCOM_M_HW_INIT that found memory for the ring.  *)
Init ==
    /\ base_up \in BOOLEAN
    /\ \E posted \in BOOLEAN : rx = bkn_rx_restart(Fill(
                [free |-> 0, cur |-> 0, dirty |-> 0,
                 skb |-> [i \in Dcbs |-> "none"],
                 chain |-> [i \in Dcbs |-> FALSE], done |-> [i \in Dcbs |-> FALSE],
                 running |-> FALSE, chain_complete |-> FALSE, tokens |-> burst_max,
                 timer_queued |-> FALSE,
                 basedev_suspended |-> basedev_suspend /\ ~base_up,
                 poll |-> FALSE, irq |-> FALSE, desc_done |-> FALSE, chain_done |-> FALSE,
                 posted |-> posted, late |-> NoDcb, dma |-> Idle, shortages |-> 0], MAX_RX_DCBS))
    /\ h = HandlerIdle
    /\ in_reset = FALSE
    /\ resets = 0

(* The hardware (external) receives a packet into the DCB it works on.     *)
(* The status says so at once; on some platforms the DCB itself, a little  *)
(* later.                                                                  *)
HwRxDone ==
    /\ rx.dma.st = "rx" /\ rx.late = NoDcb
    /\ LET i == rx.dma.idx
           s1 == [rx EXCEPT !.late = IF rx.posted THEN i ELSE NoDcb,
                            !.done[i] = ~rx.posted, !.desc_done = TRUE]
       IN  rx' = IF rx.chain[i] THEN [s1 EXCEPT !.dma.idx = i + 1]
                 ELSE [s1 EXCEPT !.dma = Idle, !.chain_done = TRUE]
    /\ UNCHANGED <<h, base_up, in_reset, resets>>

HwWriteBack ==
    /\ rx.late # NoDcb
    /\ rx' = [rx EXCEPT !.done[rx.late] = TRUE, !.late = NoDcb]
    /\ UNCHANGED <<h, base_up, in_reset, resets>>

(* do_dma begins: it reads the status and selects the channels to poll.    *)
(* If no channel of the device asks for it, all are polled.                *)
BeginDma(by) ==
    \E b \in Budgets, polled \in BOOLEAN :
        /\ rx.poll \/ rx.desc_done => polled
        /\ rx' = [rx EXCEPT !.desc_done = FALSE, !.poll = polled /\ rx.running]
        /\ h' = [HandlerIdle EXCEPT !.pc = IF polled /\ rx.running THEN "rx" ELSE "chain",
                                    !.by = by, !.stat = rx.chain_done, !.left = b]

DoDma ==
    /\ h.pc = "idle" /\ Awake
    /\ BeginDma("isr")
    /\ UNCHANGED <<base_up, in_reset, resets>>

(* do_skb_rx, one DCB: it is dropped or copied to the BCM API and the skb  *)
(* used again, the skb is consumed by a call-back, or it is handed to the  *)
(* stack, after a clone if the filter mirrors it to another interface.     *)

(* Mutant of DcbDone: the done bit stays. *)
DcbDoneKeepsBit(s, i) == [s EXCEPT !.dirty = Wrap(@ + 1), !.free = @ - 1]

DcbDone(s, i) == [s EXCEPT !.done[i] = FALSE, !.dirty = Wrap(@ + 1), !.free = @ - 1]

RxDcb ==
    /\ h.pc = "rx" /\ h.left > 0 /\ rx.done[rx.dirty]
    /\ LET i == rx.dirty
           s == [rx EXCEPT !.chain_complete = @ \/ ~rx.chain[i]]
       IN  \/ rx' = DcbDone(s, i) /\ h' = [h EXCEPT !.left = @ - 1]
           \/ rx' = DcbDone([s EXCEPT !.skb[i] = "none"], i) /\ h' = [h EXCEPT !.left = @ - 1]
           \/ rx' = s /\ h' = [h EXCEPT !.pc = "mirror", !.idx = i]
           \/ rx' = [s EXCEPT !.skb[i] = "gone"] /\ h' = [h EXCEPT !.pc = "deliver", !.idx = i]
    /\ UNCHANGED <<base_up, in_reset, resets>>

Mirrored ==
    /\ h.pc = "mirror"
    /\ rx' = [rx EXCEPT !.skb[h.idx] = "gone"]
    /\ h' = [h EXCEPT !.pc = "deliver"]
    /\ UNCHANGED <<base_up, in_reset, resets>>

(* Mutant of Delivered: desc->skb is not cleared. *)
DeliveredKeepsSkb ==
    /\ h.pc = "deliver"
    /\ rx' = DcbDone(rx, h.idx)
    /\ h' = [h EXCEPT !.pc = "rx", !.left = @ - 1]
    /\ UNCHANGED <<base_up, in_reset, resets>>

(* The stack has taken the skb and the driver has the lock again. *)
Delivered ==
    /\ h.pc = "deliver"
    /\ rx' = DcbDone([rx EXCEPT !.skb[h.idx] = "none"], h.idx)
    /\ h' = [h EXCEPT !.pc = "rx", !.left = @ - 1]
    /\ UNCHANGED <<base_up, in_reset, resets>>

(* Mutant of RxEnd: the channel is never kept selected. *)
RxEndForgets ==
    /\ h.pc = "rx" /\ (h.left > 0 => ~rx.done[rx.dirty])
    /\ rx' = [rx EXCEPT !.poll = h.sync /\ @]
    /\ h' = [h EXCEPT !.pc = "chain"]
    /\ UNCHANGED <<base_up, in_reset, resets>>

(* do_skb_rx returns.  A channel that used up its budget stays selected.   *)
RxEnd ==
    /\ h.pc = "rx" /\ (h.left > 0 => ~rx.done[rx.dirty])
    /\ rx' = [rx EXCEPT !.poll = IF h.sync THEN @ ELSE h.left = 0]
    /\ h' = [h EXCEPT !.pc = "chain"]
    /\ UNCHANGED <<base_up, in_reset, resets>>

(* The rest of bkn_open of the base device. *)
Resume(s) == bkn_rx_restart([s EXCEPT !.basedev_suspended = FALSE])
EndDma(s) == /\ rx' = IF h.by = "open" THEN Resume(s) ELSE s
             /\ h' = [HandlerIdle EXCEPT !.by = h.by]

NoChainDone ==
    /\ h.pc = "chain" /\ ~h.stat
    /\ EndDma(rx)
    /\ UNCHANGED <<base_up, in_reset, resets>>

(* bkn_rx_chain_done: wait for a DCB that is late, at most rx_sync_retry   *)
(* rounds.  A write-back that is under way arrives within these rounds, so *)
(* only the rounds when none is are counted.                               *)
SyncOver == rx.chain_complete \/ h.retry > rx_sync_retry

RxSync ==
    /\ h.pc = "chain" /\ h.stat /\ ~SyncOver
    /\ rx' = [rx EXCEPT !.chain_done = @ /\ h.sync]
    /\ h' = [h EXCEPT !.pc = IF rx.running THEN "rx" ELSE "chain", !.sync = TRUE,
                      !.left = MAX_RX_DCBS,
                      !.retry = IF rx.late = NoDcb THEN @ + 1 ELSE @]
    /\ UNCHANGED <<base_up, in_reset, resets>>

(* Mutant of bkn_rx_chain_done: the timer that tries again is not started. *)
ChainDoneNoTimer ==
    /\ h.pc = "chain" /\ h.stat /\ SyncOver
    /\ \E s \in bkn_rx_refill([rx EXCEPT !.chain_complete = TRUE, !.running = FALSE,
                                         !.chain_done = @ /\ h.sync]) :
           EndDma(bkn_rx_restart(s))
    /\ UNCHANGED <<base_up, in_reset, resets>>

bkn_rx_chain_done ==
    /\ h.pc = "chain" /\ h.stat /\ SyncOver
    /\ \E s \in bkn_rx_refill([rx EXCEPT !.chain_complete = TRUE, !.running = FALSE,
                                         !.chain_done = @ /\ h.sync]) :
           EndDma([bkn_rx_restart(s) EXCEPT !.timer_queued = @ \/ RestartFails(s)])
    /\ UNCHANGED <<base_up, in_reset, resets>>

(* The timer of a channel that could not be restarted. *)
bkn_timer_func ==
    /\ LockFree /\ Awake /\ rx.timer_queued
    /\ \/ rx.running /\ rx' = [rx EXCEPT !.timer_queued = FALSE]
       \/ /\ ~rx.running
          /\ \E s \in bkn_rx_refill(rx) :
                 rx' = [bkn_rx_restart(s) EXCEPT !.timer_queued = RestartFails(s)]
    /\ UNCHANGED <<h, base_up, in_reset, resets>>

(* Mutant of bkn_rxtick: does not look at "running". *)
TickAlwaysRefills ==
    /\ LockFree /\ Awake /\ rx.tokens < burst_max
    /\ LET more == rx.tokens + TOKENS_PER_TICK
           s1 == [rx EXCEPT !.tokens = IF more > burst_max THEN burst_max ELSE more]
       IN  \E s \in bkn_rx_refill(s1) : rx' = bkn_rx_restart(s)
    /\ UNCHANGED <<h, base_up, in_reset, resets>>

(* The rate limit's timer; a channel that is not running is restarted.     *)
bkn_rxtick ==
    /\ LockFree /\ Awake /\ rx.tokens < burst_max
    /\ LET more == rx.tokens + TOKENS_PER_TICK
           s1 == [rx EXCEPT !.tokens = IF more > burst_max THEN burst_max ELSE more]
       IN  \/ rx.running /\ rx' = s1
           \/ ~rx.running /\ \E s \in bkn_rx_refill(s1) : rx' = bkn_rx_restart(s)
    /\ UNCHANGED <<h, base_up, in_reset, resets>>

MayReset == LockFree /\ (ResetRaces \/ h.pc = "idle")

(* KCOM_M_HW_RESET for this channel or for all channels; a hw_init follows. *)
bkn_knet_hw_reset(stale) ==
    /\ MayReset /\ resets < MAX_RESETS - 1
    /\ rx' = bkn_clean_rx_dcbs(bkn_dma_abort_rx(rx, stale))
    /\ in_reset' = TRUE
    /\ resets' = resets + 1
    /\ UNCHANGED <<h, base_up>>

(* KCOM_M_HW_INIT: nobody looks at what bkn_rx_restart returns. *)
bkn_knet_hw_init(stale) ==
    /\ MayReset /\ resets < MAX_RESETS
    /\ LET s1 == bkn_clean_rx_dcbs(bkn_dma_abort_rx(rx, stale))
           s2 == bkn_init_dcbs([s1 EXCEPT !.basedev_suspended =
                                    @ \/ (basedev_suspend /\ ~base_up)])
       IN  \E s \in bkn_rx_refill(s2) : rx' = bkn_rx_restart(s)
    /\ in_reset' = FALSE
    /\ resets' = resets + 1
    /\ UNCHANGED <<h, base_up>>

(* bkn_open and bkn_stop of the base device; the stack calls one at a time. *)
OpenBase ==
    /\ ~base_up /\ h.pc = "idle" /\ Awake
    /\ base_up' = TRUE
    /\ \/ ~rx.basedev_suspended /\ UNCHANGED <<rx, h>>
       \/ rx.basedev_suspended /\ BeginDma("open")
    /\ UNCHANGED <<in_reset, resets>>

StopBase ==
    /\ base_up /\ LockFree /\ (h.pc # "idle" => h.by = "isr")
    /\ base_up' = FALSE
    /\ rx' = [rx EXCEPT !.basedev_suspended = @ \/ basedev_suspend]
    /\ UNCHANGED <<h, in_reset, resets>>

Next ==
    \/ HwRxDone \/ HwWriteBack
    \/ DoDma \/ RxDcb \/ Mirrored \/ Delivered \/ RxEnd
    \/ NoChainDone \/ RxSync \/ bkn_rx_chain_done
    \/ bkn_timer_func \/ bkn_rxtick
    \/ \E stale \in BOOLEAN : bkn_knet_hw_reset(stale) \/ bkn_knet_hw_init(stale)
    \/ OpenBase \/ StopBase

Spec == Init /\ [][Next]_vars

(* An interrupt that is enabled is served, the handler runs to its end,    *)
(* and the DMA writes of the hardware arrive.  This is the mode without    *)
(* NAPI, the default: the interrupt handler calls do_dma until there is    *)
(* nothing left (4584); bkn_open of the base device calls it once (4739),  *)
(* and what it leaves waits for the next interrupt.                        *)
(* A timer that has expired spins for sinfo->lock, which the kernel grants *)
(* in turn: strong fairness.                                               *)
(* Nothing is assumed about packets: they may stop coming.                 *)
Fairness ==
    /\ WF_vars(HwWriteBack)
    /\ WF_vars(DoDma /\ rx.irq /\ (rx.desc_done \/ rx.chain_done \/ (rx.poll /\ h.by = "isr")))
    /\ WF_vars(RxDcb \/ Mirrored \/ Delivered \/ RxEnd \/ NoChainDone \/ RxSync
                 \/ bkn_rx_chain_done)
    /\ SF_vars(bkn_timer_func) /\ SF_vars(bkn_rxtick)
FairSpec == Spec /\ Fairness

-----------------------------------------------------------------------------
TypeOK ==
    /\ rx \in RxType /\ h \in HandlerType
    /\ base_up \in BOOLEAN /\ in_reset \in BOOLEAN /\ resets \in 0 .. MAX_RESETS

Window == IF h.pc = "deliver" THEN {h.idx} ELSE {}

(* Every DCB in use holds an skb that the driver owns, and no descriptor   *)
(* keeps a pointer to an skb that was handed to the stack, except the one  *)
(* being handed over: whatever frees, recycles or fills a descriptor would *)
(* touch memory that is not the driver's (do_skb_rx, bkn_rx_refill,        *)
(* bkn_clean_rx_dcbs, the timers).                                         *)
BufferOwned ==
    \A i \in Dcbs \ Window : /\ rx.skb[i] # "gone"
                             /\ i \in InUse(rx) => rx.skb[i] = "buf"

(* Unless a hw_reset is waiting for its hw_init, the hardware works only   *)
(* on a DCB that is in use and not done yet, and the channel is started    *)
(* only when it is idle (bkn_rx_restart, bkn_rx_refill's chain bits).      *)
HwOnFilledDcb ==
    ~in_reset =>
        /\ rx.dma.st # "clash"
        /\ rx.dma.st = "rx" =>
              rx.running /\ rx.dma.idx \in InUse(rx) /\ ~rx.done[rx.dma.idx]

(* While the lock is given up to hand a packet to the stack, nobody else   *)
(* touches the ring, so that what do_skb_rx does after it has the lock     *)
(* again is right (the timers, bkn_open, bkn_stop).                        *)
DeliveryUndisturbed ==
    [][h.pc \in {"mirror", "deliver"} /\ h' = h =>
          UNCHANGED <<rx.dirty, rx.free, rx.cur, rx.skb>>]_vars

(* The packets the hardware has received and do_skb_rx has not taken yet,  *)
(* in the order of the ring.                                               *)
DoneDcbs == {i \in InUse(rx) : rx.done[i]}
Rank(i) == Cardinality({j \in DoneDcbs : Dist(rx.dirty, j) <= Dist(rx.dirty, i)})
Received ==
    [k \in 1 .. Cardinality(DoneDcbs) |-> CHOOSE i \in DoneDcbs : Rank(i) = k]

(* The ring implements a queue: packets are taken once each and in the     *)
(* order the hardware received them.                                       *)
Ring == INSTANCE PacketQueue WITH
            Packets <- Dcbs, Capacity <- MAX_RX_DCBS,
            queue <- IF in_reset THEN <<>> ELSE Received
ReceivedInOrder == Ring!Spec

(* As long as the base device is up and there is no reset, a channel that  *)
(* stops is always started again, whatever shortages of memory or tokens   *)
(* it meets (bkn_rx_chain_done, bkn_timer_func, bkn_rxtick).               *)
RxRestarted ==
    []~rx.basedev_suspended /\ [](resets = 0) => []<>rx.running

(* Without a reset, where DCB writes are not late and once bkn_open's one  *)
(* call of do_dma is followed by the interrupt handler's, every packet in  *)
(* the ring is taken (poll_channels keeps a channel that used up its       *)
(* budget selected).  What bkn_open leaves, when there are more packets    *)
(* than its budget, nobody looks at until the next interrupt.              *)
Taken == \A i \in Dcbs : (rx.done[i] /\ i \in InUse(rx)) ~> ~rx.done[i]
RxTaken == [](resets = 0) /\ <>[](h.by = "isr") /\ ~rx.posted => Taken

=============================================================================
