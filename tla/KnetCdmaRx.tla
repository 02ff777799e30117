----------------------------- MODULE KnetCdmaRx -----------------------------
(***************************************************************************)
(* A receive channel of KNET in Continuous DMA mode (bcm-knet.c), with     *)
(* buffers of the kernel.  The channel is started once and runs round its  *)
(* ring up to the DCB whose address is in its halt register; DCB           *)
(* MAX_RX_DCBS leads back to the first.                                    *)
(*                                                                         *)
(* Each DCB is refilled as soon as its packet is taken, and takes a token. *)
(* The halt address follows the refilled DCBs while there are more tokens  *)
(* than DCBs: that is how the rate of a channel is limited.  The rate      *)
(* timer adds tokens and lets a channel go on that has been suppressed.    *)
(*                                                                         *)
(* The base device does not suspend traffic (basedev_suspend = 0, the      *)
(* default), and hw_init is the initial state only.                        *)
(***************************************************************************)
EXTENDS Integers, FiniteSets, FiniteSetsExt

CONSTANTS
    MAX_RX_DCBS,        \* descriptors in the ring, without the reload DCB (64)
    RX_RATE, RX_BURST,  \* module parameters of the channel: packets per second, burst
    HZ,                 \* system ticks per second
    TOKEN_LIMIT,        \* tokens are counted modulo this (2^32)
    RxModes,            \* records [napi, budget]: the handler and its budget for the channel
    MAX_NOMEM           \* bound: failing allocations and mappings

(* bkn_rx_rate_config, for channels that have the same rate: the tick,     *)
(* the greatest number of tokens, and those that a tick adds.  An rx_rate  *)
(* below 10 without rx_burst divides by zero (5631).                       *)
AtLeast(m, n) == IF n < m THEN m ELSE n
burst_max == IF RX_BURST = 0 THEN RX_RATE \div 10 ELSE RX_BURST
jiffies_per_rxtick == AtLeast(1, HZ \div AtLeast(1, RX_RATE \div burst_max))
rxticks_per_sec == HZ \div jiffies_per_rxtick
rate_max == IF RX_RATE = 0 THEN 0 ELSE AtLeast(rxticks_per_sec, RX_RATE)
BURST == AtLeast(RX_RATE \div rxticks_per_sec, burst_max)
TOKENS_PER_TICK == jiffies_per_rxtick * (rate_max \div HZ)

ASSUME CdmaRxAssumption ==
    /\ MAX_RX_DCBS \in Nat /\ MAX_RX_DCBS >= 2
    /\ RX_RATE \in Nat /\ RX_BURST \in Nat /\ HZ \in Nat \ {0}
    /\ RX_BURST # 0 \/ RX_RATE >= 10
    /\ TOKEN_LIMIT \in Nat /\ TOKEN_LIMIT > BURST + TOKENS_PER_TICK
    /\ RxModes \subseteq [napi : BOOLEAN, budget : 1 .. MAX_RX_DCBS]
    /\ MAX_NOMEM \in Nat

VARIABLES
    rx,         \* sinfo->rx[chan] and its interrupt status
    rxhw,       \* the DMA channel: where it is, and its halt register
    rxh,        \* the DMA handler
    rx_nomem    \* failed allocations so far

rxvars == <<rx, rxhw, rxh, rx_nomem>>

RxDcbs == 0 .. MAX_RX_DCBS - 1

(* A DCB has a buffer and waits for a packet, has a packet, has no buffer, *)
(* or keeps the buffer of a dropped packet until it is refilled; a stray   *)
(* one has been written, at its old address, when it had no buffer.        *)
RxType ==
    [dcb : [RxDcbs -> {"filled", "done", "empty", "kept", "stray"}],
     free : 0 .. MAX_RX_DCBS, cur : RxDcbs, dirty : RxDcbs,
     tokens : 0 .. TOKEN_LIMIT - 1, running : BOOLEAN, irq : BOOLEAN]

-----------------------------------------------------------------------------
(* bkn_rx_refill, from the ring, halt address and failures in r.  It fills *)
(* n DCBs and ends when all are filled, when there is no memory, or when a *)
(* buffer, new or kept, cannot be mapped, which is then freed.  What the   *)
(* channel has written into a DCB stays, with its done bit.                *)
FillAt(r, k) == (r.rx.cur + k) % MAX_RX_DCBS
FillStops(r, n) ==
    \/ n = MAX_RX_DCBS - r.rx.free
    \/ n < MAX_RX_DCBS - r.rx.free /\ r.nomem < MAX_NOMEM

Written(b) == b \in {"done", "stray"}
Buffered(b) == IF Written(b) THEN "done" ELSE "filled"
Bare(b) == IF Written(b) THEN "stray" ELSE "empty"

(* Mutant of MovesHalt: the tokens are not looked at.                      *)
MovesHaltAlways(r, k) == TRUE

MovesHalt(r, k) == (r.rx.tokens - k) % TOKEN_LIMIT > MAX_RX_DCBS

bkn_rx_refill(r, n) ==
    LET moved == {k \in 0 .. n - 1 : MovesHalt(r, k)}
        fresh == {FillAt(r, k) : k \in 0 .. n - 1}
    IN  [r EXCEPT
           !.rx.dcb = [i \in RxDcbs |->
                         IF i \in fresh THEN Buffered(@[i])
                         ELSE IF n < MAX_RX_DCBS - r.rx.free /\ i = FillAt(r, n) THEN Bare(@[i])
                         ELSE @[i]],
           !.rx.cur = (@ + n) % MAX_RX_DCBS,
           !.rx.free = @ + n,
           !.rx.tokens = (@ - n) % TOKEN_LIMIT,
           !.halt = IF moved = {} THEN @ ELSE FillAt(r, Max(moved)),
           !.nomem = IF n = MAX_RX_DCBS - r.rx.free THEN @ ELSE @ + 1]

Refilled(r) == {bkn_rx_refill(r, n) : n \in {m \in 0 .. MAX_RX_DCBS : FillStops(r, m)}}

(* bkn_init_dcbs and bkn_dma_init: the DCBs are filled, the channel starts *)
(* if all of them are.                                                     *)
bkn_init_dcbs ==
    [rx |-> [dcb |-> [i \in RxDcbs |-> "empty"], free |-> 0, cur |-> 0, dirty |-> 0,
             tokens |-> BURST, running |-> FALSE, irq |-> FALSE],
     halt |-> MAX_RX_DCBS, nomem |-> 0]

CdmaRxInit ==
    /\ \E r \in Refilled(bkn_init_dcbs) :
          /\ rx = [r.rx EXCEPT !.running = r.rx.free = MAX_RX_DCBS]
          /\ rxhw = [pos |-> 0, halt |-> r.halt]
          /\ rx_nomem = r.nomem
    /\ \E m \in RxModes :
          rxh = [pc |-> "idle", left |-> 0, again |-> FALSE, napi |-> m.napi, budget |-> m.budget]

RxState == [rx |-> rx, halt |-> rxhw.halt, nomem |-> rx_nomem]

(* The channel follows the reload DCB at once when it may: it does not     *)
(* wait for a packet there.  The reload DCB asks for an interrupt too.     *)
Follows(pos, halt) == pos = MAX_RX_DCBS /\ halt # MAX_RX_DCBS
RxApply(r) ==
    /\ rx' = [r.rx EXCEPT !.irq = @ \/ Follows(rxhw.pos, r.halt)]
    /\ rxhw' = [halt |-> r.halt, pos |-> IF Follows(rxhw.pos, r.halt) THEN 0 ELSE rxhw.pos]
    /\ rx_nomem' = r.nomem

-----------------------------------------------------------------------------
(* do_dma, called for an interrupt or again: the status of the channel is  *)
(* cleared before its DCBs are looked at.                                  *)
DmaRxLatch ==
    /\ rxh.pc = "idle" /\ (rx.irq \/ rxh.again)
    /\ rx' = [rx EXCEPT !.irq = FALSE]
    /\ rxh' = [rxh EXCEPT !.pc = "rx", !.left = rxh.budget]
    /\ UNCHANGED <<rxhw, rx_nomem>>

(* A DCB that has been written without a buffer faults: do_skb_rx looks    *)
(* into the buffer of a packet (3621), and nobody goes on from there.      *)
Looks == rx.running /\ rxh.left > 0 /\ Written(rx.dcb[rx.dirty])
MoreRx == Looks /\ rx.dcb[rx.dirty] = "done"

(* bkn_do_skb_rx gives up the lock to hand a packet to the stack.          *)
DeliverRx ==
    /\ rxh.pc = "rx" /\ MoreRx
    /\ rxh' = [rxh EXCEPT !.pc = "deliver"]
    /\ UNCHANGED <<rx, rxhw, rx_nomem>>

(* The DCB's packet has been taken, the DCBs are refilled.                 *)
Taken(buffer) == [RxState EXCEPT !.rx.dcb[rx.dirty] = buffer, !.rx.free = @ - 1,
                                 !.rx.dirty = (@ + 1) % MAX_RX_DCBS]
bkn_do_skb_rx ==
    /\ \/ rxh.pc = "deliver" /\ \E r \in Refilled(Taken("empty")) : RxApply(r)
       \/ rxh.pc = "rx" /\ MoreRx /\ \E r \in Refilled(Taken("kept")) : RxApply(r)
    /\ rxh' = [rxh EXCEPT !.pc = "rx", !.left = @ - 1]

(* With NAPI the handler is called again when the budget is used up.       *)
(* Without, the interrupt handler goes on until it finds nothing, and ends *)
(* ("Continuous DMA mode requires to yield timely") when it is used up.    *)
DmaRxDone ==
    /\ rxh.pc = "rx" /\ ~Looks
    /\ rxh' = [rxh EXCEPT !.pc = "idle",
                          !.again = IF rxh.napi THEN rxh.left = 0
                                    ELSE rxh.left \in 1 .. rxh.budget - 1]
    /\ UNCHANGED <<rx, rxhw, rx_nomem>>

-----------------------------------------------------------------------------
(* bkn_rxtick: one tick's tokens.  A channel that waits at the DCB to be   *)
(* looked at next is let go to the end of the ring.                        *)
(* Mutant of Unsuppressed: a suppressed channel is not let go.             *)
StaySuppressed(r) == r

(* Mutant of Unsuppressed: every channel is let go.                        *)
LetGoAlways(r) == [r EXCEPT !.halt = MAX_RX_DCBS]

Unsuppressed(r) == [r EXCEPT !.halt = IF @ = r.rx.dirty THEN MAX_RX_DCBS ELSE @]

bkn_rxtick ==
    /\ rxh.pc # "rx" /\ rx.tokens < BURST
    /\ LET t == rx.tokens + TOKENS_PER_TICK
           s == [RxState EXCEPT !.rx.tokens = IF t > BURST THEN BURST ELSE t]
       IN  \E r \in Refilled(s) : RxApply(Unsuppressed(r))
    /\ UNCHANGED rxh

(* The channel (external) puts a packet into the DCB it has come to, at    *)
(* the address that is there.                                              *)
HwRx ==
    /\ rx.running /\ rxhw.pos # rxhw.halt
    /\ rx' = [rx EXCEPT !.dcb[rxhw.pos] = IF @ \in {"empty", "stray"} THEN "stray" ELSE "done",
                        !.irq = TRUE]
    /\ rxhw' = [rxhw EXCEPT !.pos = IF Follows(@ + 1, rxhw.halt) THEN 0 ELSE @ + 1]
    /\ UNCHANGED <<rxh, rx_nomem>>

CdmaRxNext ==
    \/ DmaRxLatch \/ DeliverRx \/ bkn_do_skb_rx \/ DmaRxDone
    \/ bkn_rxtick \/ HwRx

CdmaRxFairness ==
    /\ WF_rxvars(DmaRxLatch) /\ WF_rxvars(DmaRxDone)
    /\ WF_rxvars(DeliverRx \/ bkn_do_skb_rx)
    /\ WF_rxvars(bkn_rxtick)

CdmaRxSpec == CdmaRxInit /\ [][CdmaRxNext]_rxvars /\ CdmaRxFairness

-----------------------------------------------------------------------------
CdmaRxTypeOK ==
    /\ rx \in RxType
    /\ rxhw \in [pos : 0 .. MAX_RX_DCBS, halt : 0 .. MAX_RX_DCBS]
    /\ rxh \in [pc : {"idle", "rx", "deliver"}, left : 0 .. MAX_RX_DCBS,
                again : BOOLEAN, napi : BOOLEAN, budget : 1 .. MAX_RX_DCBS]
    /\ rx_nomem \in 0 .. MAX_NOMEM

(* The channel writes only into DCBs that have a buffer and no packet yet: *)
(* it never comes round to packets that have not been taken, nor to a DCB  *)
(* whose buffer the stack has already (bkn_rx_refill, bkn_rx_add_tokens).  *)
(* This is stated until an allocation fails for the second time:           *)
(* bkn_rx_add_tokens looks at the halt address only, and may then let a    *)
(* channel go over DCBs it could not refill.                               *)
CdmaRxOnFilled ==
    rx_nomem <= 1 /\ rx.running /\ rxhw.pos # rxhw.halt => rx.dcb[rxhw.pos] = "filled"

(* "Rx rate burst maximum in packets" (153).  Refilling does not look      *)
(* whether there is a token left (bkn_rx_refill, 2202).  They never run    *)
(* out, which would make them 2^32 - 1 and end the rate limit: the channel *)
(* stops in time, however ticks, refills and packets take turns, until an  *)
(* allocation fails for the second time.  This needs a burst greater than  *)
(* the ring, and a tick that adds a token for every DCB: bkn_rx_rate_config *)
(* does not see to it, the default settings do.                            *)
CdmaRxRate == rx_nomem <= 1 => rx.tokens <= BURST

(* A channel that has stopped goes on ("Restart channel if Rx is           *)
(* suppressed", bkn_rx_add_tokens, 5545), and every packet is taken: the   *)
(* tick, the refill and the handler's budget leave no gap between them     *)
(* (stated while there is memory, for settings as for CdmaRxRate).          *)
CdmaRxServed ==
    [](rx_nomem = 0) =>
        /\ rxhw.pos = rxhw.halt ~> rxhw.pos # rxhw.halt
        /\ \A i \in RxDcbs : rx.dcb[i] = "done" ~> rx.dcb[i] # "done"

=============================================================================
