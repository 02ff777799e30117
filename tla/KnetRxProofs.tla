---------------------------- MODULE KnetRxProofs ----------------------------
(***************************************************************************)
(* Proofs about KnetRx, for every ring size, rate limit and budget: a DCB  *)
(* the hardware may fill always has its own skb, do_skb_rx always finds    *)
(* the skb and the status of the packet that was received, and the ring    *)
(* is a queue of packets.                                                  *)
(*                                                                         *)
(* The theorems are about a device that is not re-initialized while        *)
(* do_skb_rx has the lock released (~ResetRaces; with it hw_init refills   *)
(* the ring under the handler), and on which hw_init follows hw_reset      *)
(* before a timer or the poll runs (QuietReset).  Everything else may      *)
(* happen at any point: suspend, resume, shortages of memory, the rate     *)
(* timer, and the hardware itself.                                         *)
(***************************************************************************)
EXTENDS KnetRx, FiniteSetTheorems, SequenceTheorems, TLAPS

USE RingAssumption, RateAssumption, BudgetAssumption, ParamAssumption,
    BoundAssumption

(***************************************************************************)
(* The inductive invariant, first what it says of the ring alone: "cur" is *)
(* where the DCBs in use end, DCBs in use are chained up to the last one   *)
(* of the ring, which never is, and no skb is lost or kept.                *)
(***************************************************************************)
SkbsOK(s, window) ==
    \A i \in Dcbs \ window : /\ s.skb[i] # "gone"
                             /\ i \in InUse(s) => s.skb[i] = "buf"

RingOK(s) ==
    /\ s.cur = Wrap(s.dirty + s.free)
    /\ ~s.chain[MAX_RX_DCBS - 1]
    /\ \A i \in 0 .. MAX_RX_DCBS - 2 : i + 1 \in InUse(s) => s.chain[i]

RingInv(s, window) == s \in RxType /\ RingOK(s) /\ SkbsOK(s, window)

(* While do_skb_rx hands a packet over, the channel may have been found at *)
(* the end of its chain already.                                           *)
Handing == h.pc \in {"mirror", "deliver"}
Active == rx.running /\ (rx.chain_complete => Handing)

(* The hardware has been through the DCBs before this one since the        *)
(* channel was started.                                                    *)
End == IF ~Active THEN 0
       ELSE IF rx.dma.st = "rx" THEN rx.dma.idx ELSE MAX_RX_DCBS

-----------------------------------------------------------------------------
(* The arithmetic of the ring. *)

LEMMA RxFields ==
    ASSUME NEW s \in RxType
    PROVE  /\ s.free \in 0 .. MAX_RX_DCBS
           /\ s.cur \in 0 .. MAX_RX_DCBS - 1 /\ s.dirty \in 0 .. MAX_RX_DCBS - 1
           /\ s.skb \in [Dcbs -> {"none", "buf", "gone"}]
           /\ s.chain \in [Dcbs -> BOOLEAN] /\ s.done \in [Dcbs -> BOOLEAN]
           /\ s.running \in BOOLEAN /\ s.chain_complete \in BOOLEAN
           /\ s.tokens \in 0 .. burst_max
           /\ s.timer_queued \in BOOLEAN /\ s.basedev_suspended \in BOOLEAN
           /\ s.poll \in BOOLEAN /\ s.irq \in BOOLEAN
           /\ s.desc_done \in BOOLEAN /\ s.chain_done \in BOOLEAN
           /\ s.posted \in BOOLEAN /\ s.late \in Dcbs \cup {NoDcb}
           /\ s.dma \in [st : {"idle", "rx", "clash"}, idx : Dcbs]
           /\ s.shortages \in 0 .. MAX_SHORTAGES
BY DEF RxType, Dcbs

(* n more DCBs are filled: these are in use as well.                       *)
LEMMA FillArith ==
    ASSUME NEW d \in Dcbs, NEW f \in 0 .. MAX_RX_DCBS, NEW n \in 0 .. MAX_RX_DCBS - f
    PROVE  /\ Wrap(d + f) \in Dcbs
           /\ Wrap(Wrap(d + f) + n) = Wrap(d + (f + n))
           /\ \A i \in Dcbs : Dist(d, i) < f + n
                                <=> Dist(d, i) < f \/ Dist(Wrap(d + f), i) < n
           /\ n < MAX_RX_DCBS - f => ~(Dist(d, Wrap(d + (f + n))) < f + n)
BY DEF Dcbs, Wrap, Dist

(* The oldest DCB is done: it is not in use any more.                      *)
LEMMA DoneArith ==
    ASSUME NEW d \in Dcbs, NEW f \in 1 .. MAX_RX_DCBS
    PROVE  /\ Wrap(d + 1) \in Dcbs /\ Wrap(d + f) = Wrap(Wrap(d + 1) + (f - 1))
           /\ Dist(d, d) < f
           /\ \A i \in Dcbs : Dist(Wrap(d + 1), i) < f - 1
                                <=> Dist(d, i) < f /\ i # d
BY DEF Dcbs, Wrap, Dist

(* A channel that runs has all the DCBs from "dirty" to the end of the     *)
(* ring in use.                                                            *)
LEMMA UpToEnd ==
    ASSUME NEW s \in RxType, s.free >= MAX_RX_DCBS - s.dirty,
           NEW i \in Dcbs, s.dirty <= i
    PROVE  i \in InUse(s)
BY RxFields DEF InUse, Dist, Dcbs

-----------------------------------------------------------------------------
(* What the functions on the ring do. *)

LEMMA FillOK ==
    ASSUME NEW s, RingInv(s, {}), NEW n \in 0 .. MAX_RX_DCBS - s.free,
           MAX_RX_DCBS <= s.tokens
    PROVE  /\ RingInv(Fill(s, n), {})
           /\ InUse(Fill(s, n)) = InUse(s) \cup {i \in Dcbs : Dist(s.cur, i) < n}
           /\ Fill(s, n).free = s.free + n /\ Fill(s, n).cur = Wrap(s.cur + n)
<1> DEFINE new == {i \in Dcbs : Dist(s.cur, i) < n}
           skb == [i \in Dcbs |-> IF i \in new /\ s.skb[i] = "none" THEN "buf" ELSE s.skb[i]]
           chain == [i \in Dcbs |->
                        s.chain[i] \/ (i < MAX_RX_DCBS - 1 /\ \E j \in new : Prev(j) = i)]
           t == Fill(s, n)
<1>0. s \in RxType
  BY DEF RingInv
<1>1. t = [s EXCEPT !.skb = skb, !.chain = chain, !.cur = Wrap(s.cur + n),
                    !.free = s.free + n, !.tokens = s.tokens - n]
  BY <1>0 DEF Fill, RxType
<1>2. /\ s.cur = Wrap(s.dirty + s.free)
      /\ Wrap(s.cur + n) = Wrap(s.dirty + (s.free + n)) /\ Wrap(s.cur + n) \in Dcbs
      /\ \A i \in Dcbs : Dist(s.dirty, i) < s.free + n
                            <=> Dist(s.dirty, i) < s.free \/ i \in new
  <2>1. s.dirty \in Dcbs /\ s.free + n \in 0 .. MAX_RX_DCBS
    BY <1>0, RxFields DEF Dcbs
  <2> QED
    BY <1>0, <2>1, RxFields, FillArith DEF RingInv, RingOK
<1>3. skb \in [Dcbs -> {"none", "buf", "gone"}] /\ chain \in [Dcbs -> BOOLEAN]
  BY <1>0, RxFields
<1>4. t \in RxType
  <2>1. s.free + n \in 0 .. MAX_RX_DCBS /\ s.tokens - n \in 0 .. burst_max
    BY <1>0, RxFields
  <2> HIDE DEF skb, chain, new
  <2> QED
    BY <1>0, <1>1, <1>2, <1>3, <2>1 DEF RxType
<1>5. /\ t.skb = skb /\ t.chain = chain /\ t.dirty = s.dirty
      /\ t.free = s.free + n /\ t.cur = Wrap(s.cur + n)
  <2> HIDE DEF skb, chain, new
  <2> QED
    BY <1>0, <1>1 DEF RxType
<1>6. InUse(t) = InUse(s) \cup new
  BY <1>2, <1>5 DEF InUse
<1> HIDE DEF t
<1>7. RingOK(t)
  <2>1. ~chain[MAX_RX_DCBS - 1]
    <3>1. MAX_RX_DCBS - 1 \in Dcbs
      BY DEF Dcbs
    <3>2. ~s.chain[MAX_RX_DCBS - 1]
      BY DEF RingInv, RingOK
    <3>3. ~(MAX_RX_DCBS - 1 < MAX_RX_DCBS - 1)
      OBVIOUS
    <3> QED
      BY <3>1, <3>2, <3>3, Zenon
  <2>2. ASSUME NEW i \in 0 .. MAX_RX_DCBS - 2, i + 1 \in InUse(t)
        PROVE  chain[i]
    <3>1. i \in Dcbs /\ i + 1 \in Dcbs /\ i < MAX_RX_DCBS - 1 /\ Prev(i + 1) = i
      BY DEF Dcbs, Prev
    <3>2. CASE i + 1 \in InUse(s)
      BY <1>0, <3>1, <3>2 DEF RingInv, RingOK
    <3>3. CASE i + 1 \in new
      BY <3>1, <3>3
    <3> QED
      BY <1>6, <2>2, <3>2, <3>3
  <2> QED
    BY <1>2, <1>5, <2>1, <2>2 DEF RingOK
<1>8. SkbsOK(t, {})
  BY <1>0, <1>5, <1>6, RxFields DEF SkbsOK, RingInv
<1> QED
  BY <1>4, <1>5, <1>6, <1>7, <1>8 DEF RingInv, t

(* What filling a channel leaves alone.                                    *)
SameHw(s, t) ==
    /\ t.dirty = s.dirty /\ t.done = s.done /\ t.late = s.late /\ t.dma = s.dma
    /\ t.running = s.running /\ t.chain_complete = s.chain_complete
    /\ t.chain_done = s.chain_done

LEMMA FillSame ==
    ASSUME NEW s \in RxType, NEW n
    PROVE  SameHw(s, Fill(s, n))
BY DEF Fill, RxType, SameHw

LEMMA RefillOK ==
    ASSUME NEW s, RingInv(s, {}), NEW t \in bkn_rx_refill(s)
    PROVE  RingInv(t, {}) /\ SameHw(s, t)
<1>0. s \in RxType /\ MAX_RX_DCBS - s.free \in 0 .. MAX_RX_DCBS - s.free
  BY RxFields DEF RingInv
<1>1. CASE t = s
  BY <1>1 DEF SameHw
<1>2. CASE /\ MAX_RX_DCBS <= s.tokens
           /\ t = Fill(s, MAX_RX_DCBS - s.free)
  BY <1>0, <1>2, FillOK, FillSame
<1>3. ASSUME NEW n \in 0 .. MAX_RX_DCBS - s.free - 1, MAX_RX_DCBS <= s.tokens,
             s.shortages < MAX_SHORTAGES,
             t = [Fill(s, n) EXCEPT !.skb[Wrap(s.cur + n)] = "none", !.shortages = @ + 1]
      PROVE  RingInv(t, {}) /\ SameHw(s, t)
  <2> DEFINE u == Fill(s, n)
             j == Wrap(s.cur + n)
  <2>0. n \in 0 .. MAX_RX_DCBS - s.free /\ n < MAX_RX_DCBS - s.free
    BY <1>0, <1>3, RxFields
  <2>1. RingInv(u, {}) /\ u.free = s.free + n /\ u.cur = j
    BY <1>3, <2>0, FillOK
  <2>2. SameHw(s, u)
    BY <1>0, FillSame
  <2>3. u.shortages = s.shortages
    BY <1>0 DEF Fill, RxType
  <2> HIDE DEF u
  <2>4. j \in Dcbs /\ j \notin InUse(u)
    <3>1. s.dirty \in Dcbs /\ u.dirty = s.dirty /\ s.cur = Wrap(s.dirty + s.free)
      BY <1>0, <2>2, RxFields DEF Dcbs, SameHw, RingInv, RingOK
    <3> QED
      BY <1>0, <2>0, <2>1, <3>1, FillArith, RxFields DEF InUse, RingInv, RxType
  <2>5. u \in RxType /\ s.shortages + 1 \in 0 .. MAX_SHORTAGES
    BY <1>0, <1>3, <2>1, RxFields DEF RingInv
  <2>6. t = [u EXCEPT !.skb = [u.skb EXCEPT ![j] = "none"], !.shortages = s.shortages + 1]
    BY <1>3, <2>3, <2>5 DEF u, RxType
  <2> HIDE DEF j
  <2>7. /\ t \in RxType
        /\ t.skb = [u.skb EXCEPT ![j] = "none"] /\ t.chain = u.chain
        /\ t.cur = u.cur /\ t.dirty = u.dirty /\ t.free = u.free
        /\ SameHw(u, t)
    BY <2>5, <2>6 DEF RxType, SameHw
  <2>8. InUse(t) = InUse(u)
    BY <2>7 DEF InUse
  <2>9. SkbsOK(t, {})
    BY <2>1, <2>4, <2>5, <2>7, <2>8, RxFields DEF SkbsOK, RingInv
  <2>10. RingOK(t)
    BY <2>1, <2>7, <2>8 DEF RingOK, RingInv
  <2> QED
    BY <2>2, <2>7, <2>9, <2>10 DEF RingInv, SameHw
<1>4. CASE s.tokens < MAX_RX_DCBS
  BY <1>1, <1>4 DEF bkn_rx_refill
<1>5. CASE ~(s.tokens < MAX_RX_DCBS)
  <2>1. MAX_RX_DCBS <= s.tokens
    BY <1>0, <1>5, RxFields
  <2>2. \/ t = Fill(s, MAX_RX_DCBS - s.free)
        \/ \E n \in IF s.shortages < MAX_SHORTAGES THEN 0 .. MAX_RX_DCBS - s.free - 1 ELSE {} :
              t = [Fill(s, n) EXCEPT !.skb[Wrap(s.cur + n)] = "none", !.shortages = @ + 1]
    BY <1>5, Zenon DEF bkn_rx_refill
  <2>3. CASE t = Fill(s, MAX_RX_DCBS - s.free)
    BY <1>2, <2>1, <2>3
  <2>4. ASSUME NEW n \in IF s.shortages < MAX_SHORTAGES THEN 0 .. MAX_RX_DCBS - s.free - 1 ELSE {},
               t = [Fill(s, n) EXCEPT !.skb[Wrap(s.cur + n)] = "none", !.shortages = @ + 1]
        PROVE  RingInv(t, {}) /\ SameHw(s, t)
    <3>1. s.shortages < MAX_SHORTAGES /\ n \in 0 .. MAX_RX_DCBS - s.free - 1
      BY <2>4
    <3> QED
      BY <1>3, <2>1, <2>4, <3>1, Zenon
  <2> QED
    BY <2>2, <2>3, <2>4, Zenon
<1> QED
  BY <1>4, <1>5

(* A channel that is not running, with no packet left in it, and one that  *)
(* was just started.                                                       *)
NoneDone(s) == s.late = NoDcb /\ \A i \in Dcbs : ~s.done[i]
Halted(s) == ~s.running /\ s.dma = Idle /\ NoneDone(s)
Fresh(s) ==
    /\ s.running /\ ~s.chain_complete /\ ~s.chain_done
    /\ s.free = MAX_RX_DCBS /\ s.dma = [st |-> "rx", idx |-> s.dirty]
    /\ NoneDone(s)
AtStart(s) == RingInv(s, {}) /\ (Halted(s) \/ Fresh(s))

LEMMA RestartOK ==
    ASSUME NEW s, AtStart(s)
    PROVE  AtStart(bkn_rx_restart(s))
<1> DEFINE t == bkn_rx_restart(s)
<1>0. s \in RxType
  BY DEF AtStart, RingInv
<1>1. CASE s.basedev_suspended \/ s.running \/ s.free < MAX_RX_DCBS
  BY <1>1 DEF bkn_rx_restart
<1>2. CASE ~(s.basedev_suspended \/ s.running \/ s.free < MAX_RX_DCBS)
  <2>1. s.free = MAX_RX_DCBS /\ s.dma = Idle /\ ~s.running /\ NoneDone(s)
    BY <1>0, <1>2, RxFields DEF AtStart, Halted, Fresh
  <2>2. t = [s EXCEPT !.chain_complete = FALSE, !.chain_done = FALSE, !.desc_done = FALSE,
                      !.irq = TRUE, !.running = TRUE, !.dma = [st |-> "rx", idx |-> s.dirty]]
    BY <1>0, <1>2, <2>1 DEF bkn_rx_restart, RxType
  <2>3. [st |-> "rx", idx |-> s.dirty] \in [st : {"idle", "rx", "clash"}, idx : Dcbs]
    BY <1>0, RxFields DEF Dcbs
  <2>4. t \in RxType
    BY <1>0, <2>2, <2>3 DEF RxType
  <2>5. /\ t.skb = s.skb /\ t.chain = s.chain /\ t.done = s.done /\ t.late = s.late
        /\ t.dirty = s.dirty /\ t.free = s.free /\ t.cur = s.cur
        /\ t.running /\ ~t.chain_complete /\ ~t.chain_done
        /\ t.dma = [st |-> "rx", idx |-> s.dirty]
    BY <1>0, <2>2 DEF RxType
  <2> HIDE DEF t
  <2>6. InUse(t) = InUse(s)
    BY <2>5 DEF InUse
  <2>7. RingInv(t, {})
    BY <2>4, <2>5, <2>6 DEF AtStart, RingInv, RingOK, SkbsOK
  <2> QED
    BY <2>1, <2>5, <2>7 DEF AtStart, Fresh, NoneDone, t
<1> QED
  BY <1>1, <1>2

(* What nothing in AtStart depends on.                                     *)
LEMMA AtStartFrame ==
    ASSUME NEW s, AtStart(s), NEW t \in RxType, SameHw(s, t),
           t.skb = s.skb, t.chain = s.chain, t.cur = s.cur, t.free = s.free
    PROVE  AtStart(t)
<1>1. InUse(t) = InUse(s)
  BY DEF InUse, SameHw
<1>2. RingInv(t, {})
  BY <1>1 DEF AtStart, RingInv, RingOK, SkbsOK, SameHw
<1> QED
  BY <1>2 DEF AtStart, Halted, Fresh, NoneDone, SameHw

LEMMA RefillAtStart ==
    ASSUME NEW s, AtStart(s), ~s.running, NEW t \in bkn_rx_refill(s)
    PROVE  AtStart(t)
BY RefillOK DEF AtStart, Halted, Fresh, NoneDone, SameHw

LEMMA TimerQueued ==
    ASSUME NEW s, AtStart(s), NEW b \in BOOLEAN
    PROVE  AtStart([s EXCEPT !.timer_queued = b])
<1> DEFINE t == [s EXCEPT !.timer_queued = b]
<1>1. s \in RxType
  BY DEF AtStart, RingInv
<1>2. t \in RxType /\ SameHw(s, t)
      /\ t.skb = s.skb /\ t.chain = s.chain /\ t.cur = s.cur /\ t.free = s.free
  BY <1>1 DEF RxType, SameHw
<1> HIDE DEF t
<1>3. AtStart(t)
  BY <1>2, AtStartFrame
<1> QED
  BY <1>3 DEF t

LEMMA ResumeOK ==
    ASSUME NEW s, AtStart(s)
    PROVE  AtStart(Resume(s))
<1> DEFINE t == [s EXCEPT !.basedev_suspended = FALSE]
<1>1. s \in RxType
  BY DEF AtStart, RingInv
<1>2. t \in RxType /\ SameHw(s, t)
      /\ t.skb = s.skb /\ t.chain = s.chain /\ t.cur = s.cur /\ t.free = s.free
  BY <1>1 DEF RxType, SameHw
<1> HIDE DEF t
<1>3. AtStart(t)
  BY <1>2, AtStartFrame
<1> QED
  BY <1>3, RestartOK DEF Resume, t

(* Stopping a channel in a reset: the DCBs in use lose their skbs.         *)
LEMMA CleanOK ==
    ASSUME NEW s, RingInv(s, {}), NEW stale \in BOOLEAN
    PROVE  LET t == bkn_clean_rx_dcbs(bkn_dma_abort_rx(s, stale)) IN
           /\ RingInv(t, {})
           /\ ~t.running /\ t.dma = Idle /\ t.late = NoDcb /\ t.free = 0
<1> DEFINE a == bkn_dma_abort_rx(s, stale)
           skb == [i \in Dcbs |-> IF i \in InUse(a) THEN "none" ELSE s.skb[i]]
           t == bkn_clean_rx_dcbs(a)
<1>0. s \in RxType /\ s.cur = Wrap(s.dirty + s.free)
  BY DEF RingInv, RingOK
<1>1. /\ a \in RxType /\ a.skb = s.skb /\ a.chain = s.chain
      /\ a.dirty = s.dirty /\ a.free = s.free /\ a.cur = s.cur
      /\ a.dma = Idle /\ a.late = NoDcb
  <2>1. Idle \in [st : {"idle", "rx", "clash"}, idx : Dcbs]
    BY DEF Idle, Dcbs
  <2> DEFINE c == stale /\ s.chain_done /\ s.dma = Idle
             d == stale /\ s.desc_done /\ s.dma = Idle
  <2>2. c \in BOOLEAN /\ d \in BOOLEAN
    OBVIOUS
  <2>3. a = [s EXCEPT !.irq = FALSE, !.dma = Idle, !.late = NoDcb, !.chain_done = c,
                      !.desc_done = d]
    BY <1>0, Zenon DEF bkn_dma_abort_rx, RxType
  <2> HIDE DEF a, c, d
  <2> QED
    BY <1>0, <2>1, <2>2, <2>3 DEF RxType
<1> HIDE DEF a
<1>2. t = [a EXCEPT !.skb = skb, !.dirty = Wrap(s.dirty + s.free), !.free = 0,
                    !.running = FALSE]
  BY <1>1 DEF bkn_clean_rx_dcbs, RxType
<1>3. skb \in [Dcbs -> {"none", "buf", "gone"}]
  BY <1>0, RxFields DEF skb
<1>4. Wrap(s.dirty + s.free) \in Dcbs /\ Wrap(Wrap(s.dirty + s.free) + 0) = Wrap(s.dirty + s.free)
  BY <1>0, RxFields DEF Dcbs, Wrap
<1> HIDE DEF skb, t
<1>5. /\ t \in RxType /\ t.skb = skb /\ t.chain = s.chain
      /\ t.dirty = Wrap(s.dirty + s.free) /\ t.free = 0 /\ t.cur = s.cur
      /\ t.dma = Idle /\ t.late = NoDcb /\ ~t.running
  <2> DEFINE w == Wrap(s.dirty + s.free)
  <2>1. w \in Dcbs
    BY <1>4
  <2>2. t = [a EXCEPT !.skb = skb, !.dirty = w, !.free = 0, !.running = FALSE]
    BY <1>2
  <2> HIDE DEF w
  <2>3. t \in RxType /\ t.dirty = w
    <3>1. a \in RxType /\ 0 \in 0 .. MAX_RX_DCBS
      BY <1>1
    <3> QED
      BY <1>3, <2>1, <2>2, <3>1 DEF RxType
  <2> QED
    BY <1>1, <2>2, <2>3 DEF RxType, w
<1>6. InUse(t) = {}
  BY <1>5, RxFields DEF InUse, Dist, Dcbs
<1>7. \A i \in Dcbs : skb[i] # "gone"
  BY DEF skb, RingInv, SkbsOK
<1>8. SkbsOK(t, {})
  BY <1>5, <1>6, <1>7 DEF SkbsOK
<1>9. RingOK(t)
  BY <1>0, <1>4, <1>5, <1>6 DEF RingOK, RingInv
<1> QED
  BY <1>5, <1>8, <1>9 DEF RingInv, t, a

LEMMA InitDcbsOK ==
    ASSUME NEW s, RingInv(s, {}), s.free = 0, NEW b \in BOOLEAN,
           ~s.running, s.dma = Idle, s.late = NoDcb
    PROVE  LET t == bkn_init_dcbs([s EXCEPT !.basedev_suspended = b]) IN
           AtStart(t) /\ ~t.running
<1> DEFINE none == [i \in Dcbs |-> FALSE]
           t == bkn_init_dcbs([s EXCEPT !.basedev_suspended = b])
<1>0. s \in RxType
  BY DEF RingInv
<1>1. t = [s EXCEPT !.basedev_suspended = b, !.free = 0, !.cur = 0, !.dirty = 0,
                    !.chain = none, !.done = none]
  BY <1>0 DEF bkn_init_dcbs, RxType
<1>2. none \in [Dcbs -> BOOLEAN] /\ (\A i \in Dcbs : ~none[i]) /\ 0 \in Dcbs
  BY DEF Dcbs
<1> HIDE DEF none
<1>3. /\ t \in RxType /\ t.skb = s.skb /\ t.chain = none /\ t.done = none
      /\ t.dirty = 0 /\ t.free = 0 /\ t.cur = 0
      /\ t.dma = Idle /\ t.late = NoDcb /\ ~t.running
  BY <1>0, <1>1, <1>2 DEF RxType
<1> HIDE DEF t
<1>4. InUse(t) = {} /\ InUse(s) = {}
  BY <1>0, <1>3, RxFields DEF InUse, Dist, Dcbs
<1>5. RingInv(t, {})
  <2>1. 0 = Wrap(0 + 0) /\ MAX_RX_DCBS - 1 \in Dcbs
    BY DEF Wrap, Dcbs
  <2> QED
    BY <1>2, <1>3, <1>4, <2>1 DEF RingInv, RingOK, SkbsOK
<1> QED
  BY <1>2, <1>3, <1>5 DEF AtStart, Halted, NoneDone, t

-----------------------------------------------------------------------------
(* Unless a reset is under way, the DCBs that are done are those from      *)
(* "dirty" to where the hardware has got, except one whose write-back is   *)
(* late.                                                                   *)
HwInv ==
    ~in_reset =>
       /\ rx.dma.st # "clash"
       /\ rx.dma.st = "rx" => /\ rx.running /\ ~rx.chain_complete /\ ~rx.chain_done
                              /\ rx.dirty <= rx.dma.idx
       /\ Active => rx.free >= MAX_RX_DCBS - rx.dirty
       /\ \A i \in Dcbs : rx.done[i] <=> rx.dirty <= i /\ i < End /\ i # rx.late
       /\ rx.late # NoDcb => rx.dirty <= rx.late /\ rx.late = End - 1

ResetInv ==
    in_reset => /\ ~rx.running /\ rx.dma.st = "idle" /\ rx.late = NoDcb /\ rx.free = 0
                /\ h.pc = "idle"

(* Only who has called it last is left of a handler that has ended.        *)
AtRest(g) ==
    /\ g \in HandlerType
    /\ g.pc = "idle" /\ g.stat = FALSE /\ g.retry = 0 /\ g.left = 0 /\ g.sync = FALSE

(* What the handler knows while it has the lock, or has just given it up.  *)
(* Once it counts its rounds, all the DCBs left of a channel that has      *)
(* stopped are done, and it may take them all: it cannot run out of rounds *)
(* with a packet left in the ring.                                         *)
HandlerInv ==
    /\ h.pc = "idle" => AtRest(h)
    /\ h.pc \in {"rx", "mirror", "deliver"} => rx.running
    /\ Handing => h.idx = rx.dirty /\ rx.done[rx.dirty] /\ h.left > 0
                  /\ (rx.chain_complete <=> rx.dirty = MAX_RX_DCBS - 1)
    /\ h.stat => rx.dma.st # "rx"
    /\ h.retry > 0 => h.stat
    /\ h.retry > 0 /\ rx.running =>
          /\ rx.late = NoDcb
          /\ rx.chain_complete \/ (h.pc # "chain" /\ h.left >= MAX_RX_DCBS - rx.dirty)

RxIInv ==
    /\ TypeOK
    /\ RingInv(rx, Window)
    /\ rx.dma.st = "idle" => rx.dma = Idle
    /\ HwInv
    /\ ResetInv
    /\ HandlerInv

(* What a step does to the packets in the ring: nothing, there is one more *)
(* or one is taken, or all are dropped.  "Upto" is the DCB behind the last *)
(* one that is done.                                                       *)
Upto == IF rx.late # NoDcb THEN rx.late
        ELSE IF End > rx.dirty THEN End ELSE rx.dirty

Silent ==
    /\ UNCHANGED <<in_reset, resets>>
    /\ \/ rx'.dirty = rx.dirty /\ rx'.free = rx.free /\ rx'.done = rx.done
       \/ NoneDone(rx) /\ NoneDone(rx')

Grown ==
    /\ UNCHANGED <<in_reset, resets>> /\ ~in_reset
    /\ rx'.dirty = rx.dirty /\ (Upto' = Upto \/ Upto' = Upto + 1)

Took ==
    /\ UNCHANGED <<in_reset, resets>> /\ ~in_reset
    /\ rx.dirty < Upto
    /\ \/ rx'.dirty = rx.dirty + 1 /\ Upto' = Upto
       \/ rx.dirty + 1 = Upto /\ Upto' = rx'.dirty

Dropped == resets' = resets + 1 /\ (in_reset' \/ NoneDone(rx'))

LEMMA HandlerFields ==
    ASSUME NEW k \in HandlerType
    PROVE  /\ k.pc \in {"idle", "rx", "mirror", "deliver", "chain"}
           /\ k.by \in {"isr", "open"} /\ k.stat \in BOOLEAN /\ k.sync \in BOOLEAN
           /\ k.left \in 0 .. MAX_RX_DCBS /\ k.retry \in 0 .. rx_sync_retry + 1
           /\ k.idx \in Dcbs
BY DEF HandlerType

LEMMA HandlerIdleFacts ==
    /\ HandlerIdle \in HandlerType
    /\ AtRest(HandlerIdle)
    /\ \A by \in {"isr", "open"} : AtRest([HandlerIdle EXCEPT !.by = by])
<1>1. HandlerIdle \in HandlerType
  BY RingAssumption, BudgetAssumption DEF HandlerIdle, HandlerType, Dcbs
<1>2. AtRest(HandlerIdle)
  BY <1>1 DEF HandlerIdle, AtRest
<1>3. ASSUME NEW by \in {"isr", "open"}
      PROVE  AtRest([HandlerIdle EXCEPT !.by = by])
  BY <1>1, <1>2, <1>3 DEF AtRest, HandlerType
<1> QED
  BY <1>1, <1>2, <1>3

(* The parts of the invariant in a state where nothing they are about has  *)
(* changed.                                                                *)
LEMMA RingFrame ==
    ASSUME RingInv(rx, Window), rx' \in RxType, Window' = Window,
           rx'.skb = rx.skb, rx'.chain = rx.chain, rx'.cur = rx.cur,
           rx'.dirty = rx.dirty, rx'.free = rx.free
    PROVE  RingInv(rx', Window')
<1>1. InUse(rx') = InUse(rx)
  BY DEF InUse
<1> QED
  BY <1>1, Zenon DEF RingInv, RingOK, SkbsOK

LEMMA HwFrame ==
    ASSUME HwInv, rx.dma.st = "idle" => rx.dma = Idle,
           SameHw(rx, rx'), rx'.free = rx.free, in_reset' = in_reset, Handing' <=> Handing
    PROVE  HwInv' /\ (rx'.dma.st = "idle" => rx'.dma = Idle)
<1>1. Active' <=> Active
  BY DEF Active, SameHw
<1>2. End' = End
  BY <1>1 DEF End, SameHw
<1> QED
  BY <1>1, <1>2 DEF HwInv, SameHw

LEMMA RxFrame ==
    ASSUME RxIInv, rx' \in RxType, SameHw(rx, rx'),
           rx'.skb = rx.skb, rx'.chain = rx.chain, rx'.cur = rx.cur, rx'.free = rx.free,
           h' = h, in_reset' = in_reset, base_up' \in BOOLEAN, resets' \in 0 .. MAX_RESETS
    PROVE  RxIInv'
<1>1. TypeOK'
  BY DEF RxIInv, TypeOK
<1>2. RingInv(rx', Window')
  <2>1. Window' = Window
    BY DEF Window
  <2> QED
    BY <2>1, RingFrame DEF RxIInv, SameHw
<1>3. HwInv' /\ (rx'.dma.st = "idle" => rx'.dma = Idle)
  BY HwFrame DEF RxIInv, Handing
<1>4. ResetInv'
  BY DEF RxIInv, ResetInv, SameHw
<1>5. HandlerInv'
  BY DEF RxIInv, HandlerInv, SameHw, Handing
<1> QED
  BY <1>1, <1>2, <1>3, <1>4, <1>5 DEF RxIInv

(* After the channel was filled and restarted, or could not be.            *)
StartInv ==
    /\ AtStart(rx) /\ AtRest(h) /\ ~in_reset
    /\ base_up \in BOOLEAN /\ resets \in 0 .. MAX_RESETS /\ in_reset \in BOOLEAN

LEMMA StartInvOK == StartInv => RxIInv
<1> SUFFICES ASSUME StartInv PROVE RxIInv
  OBVIOUS
<1>0. rx \in RxType /\ ~Handing /\ Window = {}
  BY HandlerIdleFacts DEF StartInv, AtStart, RingInv, Handing, Window, AtRest
<1>1. TypeOK
  BY <1>0, HandlerIdleFacts DEF StartInv, TypeOK, AtRest
<1>2. RingInv(rx, Window)
  BY <1>0 DEF StartInv, AtStart
<1>3. HwInv /\ (rx.dma.st = "idle" => rx.dma = Idle)
  <2>1. rx.dirty \in 0 .. MAX_RX_DCBS - 1 /\ rx.free \in 0 .. MAX_RX_DCBS
    BY <1>0, RxFields
  <2>2. CASE Halted(rx)
    <3>1. ~Active /\ End = 0
      BY <2>2 DEF Halted, Active, End
    <3> QED
      BY <2>1, <2>2, <3>1 DEF StartInv, Halted, NoneDone, HwInv, Idle, Dcbs
  <2>3. CASE Fresh(rx)
    <3>1. Active /\ End = rx.dirty
      BY <2>3 DEF Fresh, Active, End
    <3> QED
      BY <2>1, <2>3, <3>1 DEF StartInv, Fresh, NoneDone, HwInv, Dcbs
  <2> QED
    BY <2>2, <2>3 DEF StartInv, AtStart
<1>4. ResetInv /\ HandlerInv
  BY <1>0, HandlerIdleFacts DEF StartInv, ResetInv, HandlerInv, AtRest
<1> QED
  BY <1>1, <1>2, <1>3, <1>4 DEF RxIInv

LEMMA StartInvNext == StartInv' => RxIInv'
BY StartInvOK, PTL

(* A channel that has stopped, or reached the end of its chain with        *)
(* nothing left in it.                                                     *)
LEMMA StoppedFacts ==
    ASSUME RxIInv, ~in_reset, ~Active, rx.dma.st # "rx"
    PROVE  rx.dma = Idle /\ NoneDone(rx)
<1>1. rx.late \in Dcbs \cup {NoDcb} /\ rx.dma.st \in {"idle", "rx", "clash"} /\ End = 0
  BY RxFields DEF RxIInv, TypeOK, End
<1> QED
  BY <1>1 DEF RxIInv, HwInv, NoneDone, Dcbs, NoDcb

-----------------------------------------------------------------------------
(* The steps of the hardware. *)

LEMMA ChainedToEnd ==
    ASSUME RxIInv, ~in_reset, Active, NEW i \in Dcbs, rx.dirty <= i
    PROVE  rx.chain[i] <=> i < MAX_RX_DCBS - 1
<1>1. rx \in RxType /\ rx.free >= MAX_RX_DCBS - rx.dirty
  BY DEF RxIInv, TypeOK, HwInv
<1>2. CASE i < MAX_RX_DCBS - 1
  <2>1. i + 1 \in Dcbs /\ rx.dirty <= i + 1 /\ i \in 0 .. MAX_RX_DCBS - 2
    BY <1>1, <1>2, RxFields DEF Dcbs
  <2>2. i + 1 \in InUse(rx)
    BY <1>1, <2>1, UpToEnd
  <2> QED
    BY <1>2, <2>1, <2>2 DEF RxIInv, RingInv, RingOK
<1>3. CASE i = MAX_RX_DCBS - 1
  BY <1>3 DEF RxIInv, RingInv, RingOK
<1> QED
  BY <1>2, <1>3 DEF Dcbs

LEMMA HwRxDoneStep ==
    ASSUME RxIInv, HwRxDone
    PROVE  RxIInv' /\ Grown
<1> DEFINE i == rx.dma.idx
           late == IF rx.posted THEN i ELSE NoDcb
           done == [rx.done EXCEPT ![i] = ~rx.posted]
           last == ~rx.chain[i]
           dma == IF last THEN Idle ELSE [st |-> "rx", idx |-> i + 1]
<1>0. /\ rx \in RxType /\ i \in 0 .. MAX_RX_DCBS - 1 /\ i \in Dcbs
      /\ rx.dirty \in 0 .. MAX_RX_DCBS - 1 /\ rx.dma.st = "rx" /\ rx.late = NoDcb
      /\ rx.posted \in BOOLEAN
  BY RxFields DEF RxIInv, TypeOK, Dcbs, HwRxDone
<1>1. ~in_reset /\ rx.running /\ ~rx.chain_complete /\ rx.dirty <= i /\ Active /\ End = i
  BY <1>0 DEF RxIInv, ResetInv, HwInv, Active, End
<1>2. last <=> i = MAX_RX_DCBS - 1
  BY <1>0, <1>1, ChainedToEnd
<1>3. rx' = [rx EXCEPT !.late = late, !.done = done, !.desc_done = TRUE, !.dma = dma,
                       !.chain_done = @ \/ last]
  <2>1. CASE last
    BY <1>0, <2>1 DEF HwRxDone, RxType
  <2>2. CASE ~last
    <3>1. rx.dma \in [st : {"idle", "rx", "clash"}, idx : Dcbs] /\ rx.chain_done \in BOOLEAN
      BY <1>0, RxFields
    <3>2. dma = [rx.dma EXCEPT !.idx = i + 1] /\ (rx.chain_done \/ last) = rx.chain_done
      BY <1>0, <2>2, <3>1
    <3>3. rx' = [rx EXCEPT !.late = late, !.done = done, !.desc_done = TRUE,
                           !.dma = [rx.dma EXCEPT !.idx = i + 1]]
      BY <1>0, <2>2 DEF HwRxDone, RxType
    <3> HIDE DEF dma, late, done, last
    <3> QED
      BY <1>0, <3>2, <3>3 DEF RxType
  <2> QED
    BY <2>1, <2>2
<1>4. UNCHANGED <<h, base_up, in_reset, resets>>
  BY DEF HwRxDone
<1>5. /\ dma \in [st : {"idle", "rx", "clash"}, idx : Dcbs]
      /\ late \in Dcbs \cup {NoDcb} /\ done \in [Dcbs -> BOOLEAN]
      /\ (rx.chain_done \/ last) \in BOOLEAN
  BY <1>0, <1>2, RxFields DEF Dcbs, Idle
<1>6. /\ dma.st = IF last THEN "idle" ELSE "rx"
      /\ ~last => dma.idx = i + 1
      /\ last => dma = Idle
  BY DEF Idle
<1>7. \A j \in Dcbs : done[j] <=> IF j = i THEN ~rx.posted ELSE rx.done[j]
  BY <1>0, RxFields
<1> HIDE DEF late, done, dma
<1>8. /\ rx' \in RxType
      /\ rx'.late = late /\ rx'.done = done /\ rx'.dma = dma
      /\ rx'.chain_done <=> (rx.chain_done \/ last)
      /\ rx'.skb = rx.skb /\ rx'.chain = rx.chain /\ rx'.cur = rx.cur
      /\ rx'.dirty = rx.dirty /\ rx'.free = rx.free
      /\ rx'.running = rx.running /\ rx'.chain_complete = rx.chain_complete
  BY <1>0, <1>3, <1>5 DEF RxType
<1>9. TypeOK'
  BY <1>4, <1>8 DEF RxIInv, TypeOK
<1>10. RingInv(rx', Window')
  <2>1. Window' = Window
    BY <1>4 DEF Window
  <2> QED
    BY <1>8, <2>1, RingFrame DEF RxIInv
<1>11. Active' /\ End' = i + 1
  <2>1. Active'
    BY <1>1, <1>4, <1>8 DEF Active, Handing
  <2>2. CASE last
    BY <1>2, <1>6, <1>8, <2>1, <2>2 DEF End
  <2>3. CASE ~last
    BY <1>6, <1>8, <2>1, <2>3 DEF End
  <2> QED
    BY <2>1, <2>2, <2>3
<1>12. late = IF rx.posted THEN i ELSE NoDcb
  BY DEF late
<1>13. HwInv' /\ (rx'.dma.st = "idle" => rx'.dma = Idle)
  <2>3. \A j \in Dcbs : rx'.done[j] <=> rx'.dirty <= j /\ j < End' /\ j # rx'.late
    <3> SUFFICES ASSUME NEW j \in Dcbs
                 PROVE  done[j] <=> rx.dirty <= j /\ j < i + 1 /\ j # late
      BY <1>8, <1>11
    <3>1. rx.done[j] <=> rx.dirty <= j /\ j < i
      BY <1>0, <1>1 DEF RxIInv, HwInv, NoDcb, Dcbs
    <3> QED
      BY <1>0, <1>1, <1>7, <1>12, <3>1 DEF Dcbs, NoDcb
  <2>4. rx'.late # NoDcb => rx'.dirty <= rx'.late /\ rx'.late = End' - 1
    BY <1>0, <1>1, <1>8, <1>11, <1>12
  <2>5. rx'.free >= MAX_RX_DCBS - rx'.dirty
    BY <1>1, <1>8 DEF RxIInv, HwInv
  <2>6. /\ rx'.dma.st # "clash"
        /\ rx'.dma.st = "idle" => rx'.dma = Idle
        /\ rx'.dma.st = "rx" => /\ rx'.running /\ ~rx'.chain_complete /\ ~rx'.chain_done
                                /\ rx'.dirty <= rx'.dma.idx
    <3>1. ~rx.chain_done
      BY <1>0, <1>1 DEF RxIInv, HwInv
    <3> QED
      BY <1>0, <1>1, <1>6, <1>8, <3>1
  <2> QED
    BY <2>3, <2>4, <2>5, <2>6 DEF HwInv
<1>14. ResetInv'
  BY <1>1, <1>4 DEF ResetInv
<1>15. HandlerInv'
  <2>1. ~h.stat /\ h.retry = 0
    BY <1>0, HandlerFields DEF RxIInv, TypeOK, HandlerInv
  <2>2. Handing => rx'.done[rx'.dirty]
    <3>1. Handing => rx.done[rx.dirty] /\ rx.dirty \in Dcbs
      BY <1>0 DEF RxIInv, HandlerInv, Dcbs
    <3>2. rx.dirty \in Dcbs /\ rx.done[rx.dirty] => rx.dirty < i
      BY <1>1 DEF RxIInv, HwInv
    <3> QED
      BY <1>0, <1>7, <1>8, <3>1, <3>2
  <2> QED
    BY <1>4, <1>8, <2>1, <2>2 DEF RxIInv, HandlerInv, Handing
<1>16. Grown
  <2>1. Upto = i
    BY <1>0, <1>1 DEF Upto
  <2>2. Upto' = IF rx.posted THEN i ELSE i + 1
    BY <1>0, <1>1, <1>8, <1>11, <1>12 DEF Upto, NoDcb, Dcbs
  <2> QED
    BY <1>1, <1>4, <1>8, <2>1, <2>2 DEF Grown
<1> QED
  BY <1>9, <1>10, <1>13, <1>14, <1>15, <1>16 DEF RxIInv

LEMMA HwWriteBackStep ==
    ASSUME RxIInv, HwWriteBack
    PROVE  RxIInv' /\ Grown
<1> DEFINE done == [rx.done EXCEPT ![rx.late] = TRUE]
<1>0. /\ rx \in RxType /\ rx.late \in Dcbs /\ rx.dirty \in 0 .. MAX_RX_DCBS - 1
      /\ rx.done \in [Dcbs -> BOOLEAN] /\ rx.dma \in [st : {"idle", "rx", "clash"}, idx : Dcbs]
  BY RxFields DEF RxIInv, TypeOK, HwWriteBack
<1>1. ~in_reset /\ rx.dirty <= rx.late /\ rx.late = End - 1
  BY <1>0 DEF RxIInv, ResetInv, HwInv, HwWriteBack
<1>2. rx' = [rx EXCEPT !.done = done, !.late = NoDcb]
  BY <1>0 DEF HwWriteBack, RxType
<1>3. UNCHANGED <<h, base_up, in_reset, resets>>
  BY DEF HwWriteBack
<1>4. /\ done \in [Dcbs -> BOOLEAN]
      /\ \A j \in Dcbs : done[j] <=> j = rx.late \/ rx.done[j]
  BY <1>0
<1> HIDE DEF done
<1>5. /\ rx' \in RxType /\ rx'.done = done /\ rx'.late = NoDcb
      /\ rx'.skb = rx.skb /\ rx'.chain = rx.chain /\ rx'.cur = rx.cur
      /\ rx'.dirty = rx.dirty /\ rx'.free = rx.free /\ rx'.dma = rx.dma
      /\ rx'.running = rx.running /\ rx'.chain_complete = rx.chain_complete
      /\ rx'.chain_done = rx.chain_done
  BY <1>0, <1>2, <1>4 DEF RxType
<1>6. TypeOK'
  BY <1>3, <1>5 DEF RxIInv, TypeOK
<1>7. RingInv(rx', Window')
  <2>1. Window' = Window
    BY <1>3 DEF Window
  <2> QED
    BY <1>5, <2>1, RingFrame DEF RxIInv
<1>8. (Active' <=> Active) /\ End' = End /\ End = rx.late + 1
  <2>1. (Active' <=> Active) /\ End' = End
    BY <1>3, <1>5 DEF Active, End, Handing
  <2> QED
    BY <1>0, <1>1, <2>1 DEF Dcbs, End, Idle
<1>9. HwInv' /\ (rx'.dma.st = "idle" => rx'.dma = Idle)
  <2>2. \A j \in Dcbs : rx'.done[j] <=> rx'.dirty <= j /\ j < End' /\ j # rx'.late
    <3> SUFFICES ASSUME NEW j \in Dcbs
                 PROVE  done[j] <=> rx.dirty <= j /\ j < End /\ j # NoDcb
      BY <1>5, <1>8
    <3>1. rx.done[j] <=> rx.dirty <= j /\ j < End /\ j # rx.late
      BY <1>1 DEF RxIInv, HwInv
    <3> QED
      BY <1>0, <1>1, <1>4, <1>8, <3>1 DEF Dcbs, NoDcb
  <2> QED
    BY <1>1, <1>3, <1>5, <1>8, <2>2 DEF RxIInv, HwInv
<1>10. ResetInv' /\ HandlerInv'
  BY <1>0, <1>1, <1>3, <1>4, <1>5 DEF RxIInv, ResetInv, HandlerInv, Handing, Dcbs
<1>11. Grown
  BY <1>0, <1>1, <1>3, <1>5, <1>8 DEF Grown, Upto, Dcbs, NoDcb
<1> QED
  BY <1>6, <1>7, <1>9, <1>10, <1>11 DEF RxIInv

-----------------------------------------------------------------------------
(* The steps of the handler. *)

LEMMA BeginDmaStep ==
    ASSUME RxIInv, ~in_reset, h.pc = "idle", NEW by \in {"isr", "open"}, BeginDma(by),
           in_reset' = in_reset, resets' = resets, base_up' \in BOOLEAN
    PROVE  RxIInv' /\ Silent
<1>1. PICK b \in Budgets, polled \in BOOLEAN :
         /\ rx' = [rx EXCEPT !.desc_done = FALSE, !.poll = polled /\ rx.running]
         /\ h' = [HandlerIdle EXCEPT !.pc = IF polled /\ rx.running THEN "rx" ELSE "chain",
                                     !.by = by, !.stat = rx.chain_done, !.left = b]
  BY Zenon DEF BeginDma
<1>2. rx \in RxType /\ rx.running \in BOOLEAN /\ rx.chain_done \in BOOLEAN
  BY RxFields DEF RxIInv, TypeOK
<1>3. /\ rx' \in RxType /\ SameHw(rx, rx')
      /\ rx'.skb = rx.skb /\ rx'.chain = rx.chain /\ rx'.cur = rx.cur
      /\ rx'.dirty = rx.dirty /\ rx'.free = rx.free
  <2> DEFINE p == polled /\ rx.running
  <2>1. p \in BOOLEAN /\ rx' = [rx EXCEPT !.desc_done = FALSE, !.poll = p]
    BY <1>1
  <2> HIDE DEF p
  <2> QED
    BY <1>2, <2>1 DEF RxType, SameHw
<1>4. /\ h' \in HandlerType /\ h'.pc \in {"rx", "chain"}
      /\ h'.pc = "rx" => rx.running
      /\ h'.stat = rx.chain_done /\ h'.retry = 0
  <2> DEFINE pc == IF polled /\ rx.running THEN "rx" ELSE "chain"
  <2>1. pc \in {"rx", "chain"} /\ (pc = "rx" => rx.running)
    OBVIOUS
  <2>2. h' = [HandlerIdle EXCEPT !.pc = pc, !.by = by, !.stat = rx.chain_done, !.left = b]
    BY <1>1
  <2>3. b \in 0 .. MAX_RX_DCBS
    OBVIOUS
  <2> HIDE DEF pc
  <2> QED
    BY <1>2, <2>1, <2>2, <2>3, HandlerIdleFacts DEF HandlerType, AtRest
<1>5. TypeOK'
  BY <1>3, <1>4 DEF RxIInv, TypeOK
<1>6. RingInv(rx', Window')
  <2>1. Window' = Window
    BY <1>4 DEF Window
  <2> QED
    BY <1>3, <2>1, RingFrame DEF RxIInv
<1>7. HwInv' /\ (rx'.dma.st = "idle" => rx'.dma = Idle)
  BY <1>3, <1>4, HwFrame DEF RxIInv, Handing
<1>8. ResetInv' /\ HandlerInv'
  <2>1. rx.chain_done => rx.dma.st # "rx"
    BY DEF RxIInv, HwInv
  <2> QED
    BY <1>3, <1>4, <2>1 DEF ResetInv, HandlerInv, Handing, SameHw
<1> QED
  BY <1>3, <1>5, <1>6, <1>7, <1>8 DEF RxIInv, Silent, SameHw

(* What the handler knows about a DCB that is done.                        *)
LEMMA DoneFacts ==
    ASSUME RxIInv, ~in_reset, rx.done[rx.dirty]
    PROVE  /\ rx \in RxType /\ rx.dirty \in 0 .. MAX_RX_DCBS - 1 /\ rx.dirty \in Dcbs
           /\ rx.free \in 1 .. MAX_RX_DCBS /\ rx.free >= MAX_RX_DCBS - rx.dirty
           /\ Active /\ rx.dirty < End /\ rx.dirty # rx.late
           /\ End \in 0 .. MAX_RX_DCBS
           /\ rx.late \in 0 .. MAX_RX_DCBS
           /\ rx.chain[rx.dirty] <=> rx.dirty < MAX_RX_DCBS - 1
<1>1. rx \in RxType /\ rx.dirty \in 0 .. MAX_RX_DCBS - 1 /\ rx.dirty \in Dcbs
      /\ rx.free \in 0 .. MAX_RX_DCBS /\ rx.late \in 0 .. MAX_RX_DCBS
      /\ rx.dma.idx \in 0 .. MAX_RX_DCBS - 1
  BY RxFields DEF RxIInv, TypeOK, Dcbs, NoDcb
<1>2. rx.dirty < End /\ rx.dirty # rx.late
  BY <1>1 DEF RxIInv, HwInv
<1>3. Active
  BY <1>1, <1>2 DEF End
<1>4. rx.free >= MAX_RX_DCBS - rx.dirty
  BY <1>3 DEF RxIInv, HwInv
<1>5. End \in 0 .. MAX_RX_DCBS
  BY <1>1 DEF End
<1>6. rx.chain[rx.dirty] <=> rx.dirty < MAX_RX_DCBS - 1
  BY <1>1, <1>3, ChainedToEnd
<1> QED
  BY <1>1, <1>2, <1>3, <1>4, <1>5, <1>6

Takes(skb) ==
    /\ LET last == rx.dirty = MAX_RX_DCBS - 1 IN
       rx' = DcbDone([rx EXCEPT !.skb = skb, !.chain_complete = last], rx.dirty)
    /\ h' = [h EXCEPT !.pc = "rx", !.left = @ - 1]

(* do_skb_rx is done with a DCB: the rest of the ring is as it was, and    *)
(* "chain_complete" says whether that was the last DCB of the chain.       *)
LEMMA TakenStep ==
    ASSUME RxIInv, ~in_reset, h.pc # "idle", h.pc # "chain", h.left > 0,
           rx.done[rx.dirty],
           NEW skb \in [Dcbs -> {"none", "buf", "gone"}], skb[rx.dirty] # "gone",
           \A i \in Dcbs : i # rx.dirty => skb[i] = rx.skb[i],
           Takes(skb),
           UNCHANGED <<base_up, in_reset, resets>>
    PROVE  RxIInv' /\ Took
<1> DEFINE i == rx.dirty
           done == [rx.done EXCEPT ![i] = FALSE]
           dirty == Wrap(i + 1)
           c == i = MAX_RX_DCBS - 1
<1>0. /\ rx \in RxType /\ i \in 0 .. MAX_RX_DCBS - 1 /\ i \in Dcbs
      /\ rx.free \in 1 .. MAX_RX_DCBS /\ rx.free >= MAX_RX_DCBS - i
      /\ Active /\ i < End /\ i # rx.late
      /\ End \in 0 .. MAX_RX_DCBS
      /\ rx.late \in 0 .. MAX_RX_DCBS
  BY DoneFacts
<1>1. /\ done \in [Dcbs -> BOOLEAN]
      /\ \A j \in Dcbs : done[j] <=> j # i /\ rx.done[j]
  BY <1>0, RxFields
<1>2. /\ dirty \in Dcbs /\ rx.free - 1 \in 0 .. MAX_RX_DCBS
      /\ c => dirty = 0
      /\ ~c => dirty = i + 1
  <2>1. /\ dirty \in Dcbs /\ rx.free - 1 \in 0 .. MAX_RX_DCBS
        /\ i = MAX_RX_DCBS - 1 => dirty = 0
        /\ i # MAX_RX_DCBS - 1 => dirty = i + 1
    BY <1>0 DEF Dcbs, Wrap
  <2> QED
    BY <2>1
<1>3. rx' = [rx EXCEPT !.skb = skb, !.chain_complete = c, !.done = done,
                       !.dirty = dirty, !.free = rx.free - 1]
  <2> HIDE DEF c, dirty
  <2>1. rx' = DcbDone([rx EXCEPT !.skb = skb, !.chain_complete = c], i)
    BY DEF Takes, c
  <2> QED
    BY <1>0, <2>1 DEF DcbDone, RxType, dirty, done
<1> HIDE DEF done, dirty
<1>4. /\ rx' \in RxType /\ rx'.skb = skb /\ (rx'.chain_complete <=> c) /\ rx'.done = done
      /\ rx'.dirty = dirty /\ rx'.free = rx.free - 1
      /\ rx'.cur = rx.cur /\ rx'.chain = rx.chain /\ rx'.running = rx.running
      /\ rx'.dma = rx.dma /\ rx'.late = rx.late /\ rx'.chain_done = rx.chain_done
  <2>1. rx \in RxType
    BY <1>0
  <2>2. c \in BOOLEAN
    OBVIOUS
  <2> HIDE DEF c
  <2> QED
    BY <1>1, <1>2, <1>3, <2>1, <2>2 DEF RxType
<1>5. /\ h \in HandlerType /\ h.left - 1 \in 0 .. MAX_RX_DCBS
      /\ h' = [h EXCEPT !.pc = "rx", !.left = h.left - 1]
  <2>1. h \in HandlerType
    BY DEF RxIInv, TypeOK
  <2>2. h.left - 1 \in 0 .. MAX_RX_DCBS
    BY <2>1, HandlerFields
  <2> QED
    BY <2>1, <2>2, Zenon DEF Takes
<1>6. /\ h' \in HandlerType /\ h'.pc = "rx" /\ h'.left = h.left - 1
      /\ h'.stat = h.stat /\ h'.retry = h.retry
  BY <1>5 DEF HandlerType
<1>7. TypeOK'
  BY <1>4, <1>6 DEF RxIInv, TypeOK
<1>8. RingInv(rx', Window')
  <2>1. Window' = {} /\ \A j \in Window : j = i
    BY <1>6 DEF Window, RxIInv, HandlerInv, Handing
  <2>2. \A j \in InUse(rx') : j \in InUse(rx) /\ j # i
    BY <1>0, <1>4, DoneArith DEF InUse, dirty
  <2>3. SkbsOK(rx', {})
    <3> SUFFICES ASSUME NEW j \in Dcbs
                 PROVE  skb[j] # "gone" /\ (j \in InUse(rx') => skb[j] = "buf")
      BY <1>4 DEF SkbsOK
    <3>1. CASE j = i
      BY <2>2, <3>1
    <3>2. CASE j # i
      BY <2>1, <2>2, <3>2 DEF RxIInv, RingInv, SkbsOK
    <3> QED
      BY <3>1, <3>2
  <2>4. RingOK(rx')
    <3>1. rx.cur = Wrap(dirty + (rx.free - 1))
      BY <1>0, DoneArith DEF RxIInv, RingInv, RingOK, dirty
    <3> QED
      BY <1>4, <2>2, <3>1 DEF RxIInv, RingInv, RingOK
  <2> QED
    BY <1>4, <2>1, <2>3, <2>4 DEF RingInv
<1>9. Active' <=> ~c
  BY <1>0, <1>4, <1>6 DEF Active, Handing
<1>10. ASSUME c
       PROVE  End' = 0 /\ i = MAX_RX_DCBS - 1 /\ End = MAX_RX_DCBS /\ rx.late = NoDcb
  <2>1. End' = 0 /\ i = MAX_RX_DCBS - 1 /\ End = MAX_RX_DCBS
    BY <1>0, <1>9, <1>10 DEF End
  <2> QED
    BY <1>0, <2>1 DEF RxIInv, HwInv
<1>11. ASSUME ~c
       PROVE  End' = End /\ (rx.late # NoDcb => i + 1 <= rx.late /\ rx.late = End - 1)
  <2>1. End' = End
    BY <1>0, <1>4, <1>9, <1>11 DEF End
  <2> QED
    BY <1>0, <2>1 DEF RxIInv, HwInv
<1>12. HwInv' /\ (rx'.dma.st = "idle" => rx'.dma = Idle)
  <2>2. rx.dma.st = "rx" => End = rx.dma.idx /\ rx.dma.idx \in 0 .. MAX_RX_DCBS - 1
    BY <1>0, RxFields DEF End, Dcbs
  <2>3. rx.dma.st = "rx" => ~c /\ i + 1 <= rx.dma.idx
    <3>1. rx.dma.st = "rx" => i # MAX_RX_DCBS - 1 /\ i + 1 <= rx.dma.idx
      BY <1>0, <2>2
    <3> QED
      BY <3>1
  <2>4. CASE c
    <3>3. \A j \in Dcbs : ~done[j]
      BY <1>0, <1>1, <1>10, <2>4 DEF RxIInv, HwInv, Dcbs
    <3> QED
      BY <1>4, <1>6, <1>9, <1>10, <2>3, <2>4, <3>3 DEF RxIInv, HwInv, Dcbs
  <2>5. CASE ~c
    <3>2. \A j \in Dcbs : done[j] <=> i + 1 <= j /\ j < End /\ j # rx.late
      BY <1>0, <1>1 DEF RxIInv, HwInv, Dcbs
    <3>4. rx.free - 1 >= MAX_RX_DCBS - (i + 1)
      BY <1>0
    <3> QED
      BY <1>2, <1>4, <1>6, <1>11, <2>3, <2>5, <3>2, <3>4 DEF RxIInv, HwInv
  <2> QED
    BY <2>4, <2>5
<1>13. ResetInv'
  BY DEF ResetInv
<1>14. HandlerInv'
  <2>1. h.retry > 0 => rx.late = NoDcb /\ (c \/ h.left - 1 >= MAX_RX_DCBS - (i + 1))
    <3>1. rx.running /\ h.left \in 0 .. MAX_RX_DCBS
      BY <1>0, <1>5, HandlerFields DEF Active
    <3>2. rx.chain_complete => c
      BY <1>0 DEF RxIInv, HandlerInv, Active
    <3> QED
      BY <1>0, <3>1, <3>2 DEF RxIInv, HandlerInv
  <2>2. rx.running
    BY <1>0 DEF Active
  <2>3. h'.retry > 0 /\ rx'.running =>
          /\ rx'.late = NoDcb
          /\ rx'.chain_complete \/ (h'.pc # "chain" /\ h'.left >= MAX_RX_DCBS - rx'.dirty)
    <3>1. CASE c
      BY <1>4, <1>6, <2>1, <3>1
    <3>2. CASE ~c
      BY <1>2, <1>4, <1>6, <2>1, <3>2
    <3> QED
      BY <3>1, <3>2
  <2> QED
    BY <1>4, <1>6, <2>2, <2>3 DEF RxIInv, HandlerInv, Handing
<1>15. Took
  <2>1. rx.dirty < Upto
    BY <1>0, <1>10, <1>11 DEF Upto
  <2>2. CASE c
    <3>1. rx.dirty + 1 = Upto /\ Upto' = rx'.dirty
      BY <1>0, <1>2, <1>4, <1>10, <2>2 DEF Upto
    <3> QED
      BY <2>1, <3>1 DEF Took
  <2>3. CASE ~c
    <3>1. rx'.dirty = rx.dirty + 1 /\ rx'.late = rx.late /\ End' = End
      BY <1>2, <1>4, <1>11, <2>3
    <3>2. Upto' = Upto
      <4>1. rx.dirty \in 0 .. MAX_RX_DCBS - 1 /\ End \in 0 .. MAX_RX_DCBS /\ rx.dirty < End
        BY <1>0
      <4>2. Upto = IF rx.late # NoDcb THEN rx.late ELSE End
        BY <4>1 DEF Upto
      <4>3. Upto' = IF rx.late # NoDcb THEN rx.late
                    ELSE IF End > rx.dirty + 1 THEN End ELSE rx.dirty + 1
        BY <3>1 DEF Upto
      <4> QED
        BY <4>1, <4>2, <4>3
    <3> QED
      BY <2>1, <3>1, <3>2 DEF Took
  <2> QED
    BY <2>2, <2>3
<1> QED
  BY <1>7, <1>8, <1>12, <1>13, <1>14, <1>15 DEF RxIInv

(* The DCB at "dirty" is done, and its packet is found to be for the stack. *)
LEMMA RxDcbStep ==
    ASSUME RxIInv, RxDcb
    PROVE  RxIInv' /\ (Took \/ Silent)
<1> DEFINE i == rx.dirty
           c == i = MAX_RX_DCBS - 1
           s == [rx EXCEPT !.chain_complete = c]
<1>0. /\ rx \in RxType /\ h \in HandlerType /\ h.pc = "rx" /\ h.left > 0 /\ rx.done[i]
      /\ UNCHANGED <<base_up, in_reset, resets>>
  BY DEF RxIInv, TypeOK, RxDcb
<1>1. ~in_reset
  BY <1>0 DEF RxIInv, ResetInv
<1>2. /\ i \in Dcbs /\ i \in 0 .. MAX_RX_DCBS - 1 /\ Active
      /\ rx.chain[i] <=> i < MAX_RX_DCBS - 1
  BY <1>0, <1>1, DoneFacts
<1>3. ~rx.chain_complete
  BY <1>0, <1>2 DEF Active, Handing
<1>4. [rx EXCEPT !.chain_complete = rx.chain_complete \/ ~rx.chain[i]] = s
  <2>1. (rx.chain_complete \/ ~rx.chain[i]) <=> c
    BY <1>2, <1>3
  <2>2. (rx.chain_complete \/ ~rx.chain[i]) = c
    BY <2>1, Zenon
  <2> QED
    BY <2>2, Zenon
<1>5. \/ rx' = DcbDone(s, i) /\ h' = [h EXCEPT !.left = @ - 1]
      \/ rx' = DcbDone([s EXCEPT !.skb[i] = "none"], i) /\ h' = [h EXCEPT !.left = @ - 1]
      \/ rx' = s /\ h' = [h EXCEPT !.pc = "mirror", !.idx = i]
      \/ rx' = [s EXCEPT !.skb[i] = "gone"] /\ h' = [h EXCEPT !.pc = "deliver", !.idx = i]
  BY <1>4, Zenon DEF RxDcb
<1>6. [h EXCEPT !.left = @ - 1] = [h EXCEPT !.pc = "rx", !.left = @ - 1]
  BY <1>0 DEF HandlerType
<1>7. CASE rx' = DcbDone(s, i) /\ h' = [h EXCEPT !.left = @ - 1]
  <2>1. s = [rx EXCEPT !.skb = rx.skb, !.chain_complete = c]
    BY <1>0 DEF RxType
  <2>2. Takes(rx.skb)
    BY <1>6, <1>7, <2>1, Zenon DEF Takes
  <2>3. rx.skb \in [Dcbs -> {"none", "buf", "gone"}] /\ rx.skb[i] # "gone"
    BY <1>0, <1>2, RxFields DEF RxIInv, RingInv, SkbsOK, Window
  <2> QED
    BY <1>0, <1>1, <2>2, <2>3, TakenStep
<1>8. CASE /\ rx' = DcbDone([s EXCEPT !.skb[i] = "none"], i)
           /\ h' = [h EXCEPT !.left = @ - 1]
  <2> DEFINE skb == [rx.skb EXCEPT ![i] = "none"]
  <2>1. [s EXCEPT !.skb[i] = "none"] = [rx EXCEPT !.skb = skb, !.chain_complete = c]
    BY <1>0 DEF RxType
  <2>2. Takes(skb)
    BY <1>6, <1>8, <2>1, Zenon DEF Takes
  <2>3. /\ skb \in [Dcbs -> {"none", "buf", "gone"}] /\ skb[i] # "gone"
        /\ \A j \in Dcbs : j # i => skb[j] = rx.skb[j]
    BY <1>0, <1>2, RxFields
  <2> HIDE DEF skb
  <2> QED
    BY <1>0, <1>1, <2>2, <2>3, TakenStep
<1>9. ASSUME NEW skb \in [Dcbs -> {"none", "buf", "gone"}], NEW pc \in {"mirror", "deliver"},
             \A j \in Dcbs : j # i \/ pc = "mirror" => skb[j] = rx.skb[j],
             rx' = [rx EXCEPT !.skb = skb, !.chain_complete = c],
             h' = [h EXCEPT !.pc = pc, !.idx = i]
      PROVE  RxIInv' /\ Silent
  <2>1. /\ rx' \in RxType /\ rx'.skb = skb /\ (rx'.chain_complete <=> c)
        /\ rx'.done = rx.done /\ rx'.dirty = rx.dirty /\ rx'.free = rx.free
        /\ rx'.cur = rx.cur /\ rx'.chain = rx.chain /\ rx'.running = rx.running
        /\ rx'.dma = rx.dma /\ rx'.late = rx.late /\ rx'.chain_done = rx.chain_done
    <3>1. c \in BOOLEAN
      OBVIOUS
    <3> HIDE DEF c
    <3> QED
      BY <1>0, <1>9, <3>1 DEF RxType
  <2>2. /\ h' \in HandlerType /\ h'.pc = pc /\ h'.idx = i /\ h'.left = h.left
        /\ h'.stat = h.stat /\ h'.retry = h.retry
    BY <1>0, <1>2, <1>9 DEF HandlerType
  <2>3. TypeOK'
    BY <1>0, <2>1, <2>2 DEF RxIInv, TypeOK
  <2>4. RingInv(rx', Window')
    <3>1. InUse(rx') = InUse(rx) /\ Window = {} /\ (Window' = IF pc = "deliver" THEN {i} ELSE {})
      BY <1>0, <2>1, <2>2 DEF InUse, Window
    <3> QED
      BY <1>9, <2>1, <3>1 DEF RxIInv, RingInv, RingOK, SkbsOK
  <2>5. Active' /\ End' = End
    BY <1>2, <2>1, <2>2 DEF Active, Handing, End
  <2>6. rx.dma.st = "rx" => ~c
    <3>1. i < End /\ rx.dma \in [st : {"idle", "rx", "clash"}, idx : Dcbs]
      BY <1>0, <1>1, DoneFacts, RxFields
    <3>2. rx.dma.st = "rx" => End = rx.dma.idx /\ rx.dma.idx \in 0 .. MAX_RX_DCBS - 1
      BY <1>2, <3>1 DEF End, Dcbs
    <3> QED
      BY <1>2, <3>1, <3>2
  <2>7. HwInv' /\ (rx'.dma.st = "idle" => rx'.dma = Idle)
    BY <1>0, <1>1, <1>2, <2>1, <2>5, <2>6 DEF RxIInv, HwInv
  <2>8. ResetInv'
    BY <1>0, <1>1 DEF ResetInv
  <2>9. HandlerInv'
    <3>1. rx.running /\ (rx.late = NoDcb <=> rx'.late = NoDcb)
      BY <1>2, <2>1 DEF Active
    <3> QED
      BY <1>0, <1>3, <2>1, <2>2, <3>1 DEF RxIInv, HandlerInv, Handing
  <2> QED
    BY <1>0, <2>1, <2>3, <2>4, <2>7, <2>8, <2>9 DEF RxIInv, Silent
<1>10. CASE rx' = s /\ h' = [h EXCEPT !.pc = "mirror", !.idx = i]
  <2>1. rx' = [rx EXCEPT !.skb = rx.skb, !.chain_complete = c]
    BY <1>0, <1>10 DEF RxType
  <2>2. rx.skb \in [Dcbs -> {"none", "buf", "gone"}]
    BY <1>0, RxFields
  <2> QED
    BY <1>9, <1>10, <2>1, <2>2
<1>11. CASE /\ rx' = [s EXCEPT !.skb[i] = "gone"]
            /\ h' = [h EXCEPT !.pc = "deliver", !.idx = i]
  <2> DEFINE skb == [rx.skb EXCEPT ![i] = "gone"]
  <2>1. rx' = [rx EXCEPT !.skb = skb, !.chain_complete = c]
    BY <1>0, <1>11 DEF RxType
  <2>2. /\ skb \in [Dcbs -> {"none", "buf", "gone"}]
        /\ \A j \in Dcbs : j # i => skb[j] = rx.skb[j]
    BY <1>0, <1>2, RxFields
  <2> HIDE DEF skb
  <2> QED
    BY <1>9, <1>11, <2>1, <2>2
<1> QED
  BY <1>5, <1>7, <1>8, <1>10, <1>11

LEMMA MirroredStep ==
    ASSUME RxIInv, Mirrored
    PROVE  RxIInv' /\ Silent
<1> DEFINE i == rx.dirty
           skb == [rx.skb EXCEPT ![i] = "gone"]
<1>0. /\ rx \in RxType /\ h \in HandlerType /\ h.pc = "mirror" /\ h.idx = i /\ i \in Dcbs
      /\ UNCHANGED <<base_up, in_reset, resets>>
  BY RxFields DEF RxIInv, TypeOK, Mirrored, HandlerInv, Handing, Dcbs
<1>1. /\ rx' = [rx EXCEPT !.skb = skb] /\ h' = [h EXCEPT !.pc = "deliver"]
  BY <1>0 DEF Mirrored, RxType
<1>2. /\ skb \in [Dcbs -> {"none", "buf", "gone"}]
      /\ \A j \in Dcbs : j # i => skb[j] = rx.skb[j]
  BY <1>0, RxFields
<1> HIDE DEF skb
<1>3. /\ rx' \in RxType /\ rx'.skb = skb /\ SameHw(rx, rx')
      /\ rx'.chain = rx.chain /\ rx'.cur = rx.cur /\ rx'.free = rx.free
      /\ rx'.dirty = rx.dirty
  BY <1>0, <1>1, <1>2 DEF RxType, SameHw
<1>4. /\ h' \in HandlerType /\ h'.pc = "deliver" /\ h'.idx = i /\ h'.left = h.left
      /\ h'.stat = h.stat /\ h'.retry = h.retry
  BY <1>0, <1>1 DEF HandlerType
<1>5. TypeOK'
  BY <1>0, <1>3, <1>4 DEF RxIInv, TypeOK
<1>6. RingInv(rx', Window')
  <2>1. InUse(rx') = InUse(rx) /\ Window = {} /\ Window' = {i}
    BY <1>0, <1>3, <1>4 DEF InUse, Window
  <2> QED
    BY <1>2, <1>3, <2>1 DEF RxIInv, RingInv, RingOK, SkbsOK
<1>7. HwInv' /\ (rx'.dma.st = "idle" => rx'.dma = Idle)
  BY <1>0, <1>3, <1>4, HwFrame DEF RxIInv, Handing
<1>8. ResetInv' /\ HandlerInv'
  BY <1>0, <1>3, <1>4 DEF RxIInv, ResetInv, HandlerInv, Handing, SameHw
<1> QED
  BY <1>0, <1>3, <1>5, <1>6, <1>7, <1>8 DEF RxIInv, Silent, SameHw

LEMMA DeliveredStep ==
    ASSUME RxIInv, Delivered
    PROVE  RxIInv' /\ Took
<1> DEFINE i == rx.dirty
           skb == [rx.skb EXCEPT ![i] = "none"]
           c == i = MAX_RX_DCBS - 1
<1>0. /\ rx \in RxType /\ h.pc = "deliver" /\ h.idx = i /\ i \in Dcbs
      /\ h.left > 0 /\ rx.done[i] /\ (rx.chain_complete <=> c)
      /\ rx.chain_complete \in BOOLEAN
      /\ UNCHANGED <<base_up, in_reset, resets>>
  BY RxFields DEF RxIInv, TypeOK, Delivered, HandlerInv, Handing, Dcbs
<1>1. ~in_reset
  BY <1>0 DEF RxIInv, ResetInv
<1>2. /\ skb \in [Dcbs -> {"none", "buf", "gone"}] /\ skb[i] # "gone"
      /\ \A j \in Dcbs : j # i => skb[j] = rx.skb[j]
  BY <1>0, RxFields
<1>3. Takes(skb)
  <2>1. rx.chain_complete = c
    BY <1>0
  <2>2. [rx EXCEPT !.skb[i] = "none"] = [rx EXCEPT !.skb = skb, !.chain_complete = rx.chain_complete]
    BY <1>0 DEF RxType
  <2>3. /\ rx' = DcbDone([rx EXCEPT !.skb[i] = "none"], i)
        /\ h' = [h EXCEPT !.pc = "rx", !.left = @ - 1]
    BY <1>0, Zenon DEF Delivered
  <2> QED
    BY <2>1, <2>2, <2>3, Zenon DEF Takes
<1> HIDE DEF skb
<1> QED
  BY <1>0, <1>1, <1>2, <1>3, TakenStep

LEMMA RxEndStep ==
    ASSUME RxIInv, RxEnd
    PROVE  RxIInv' /\ Silent
<1>0. /\ rx \in RxType /\ h \in HandlerType /\ h.pc = "rx" /\ rx.running
      /\ h.left > 0 => ~rx.done[rx.dirty]
      /\ UNCHANGED <<base_up, in_reset, resets>>
  BY DEF RxIInv, TypeOK, RxEnd, HandlerInv
<1>1. /\ rx' \in RxType /\ SameHw(rx, rx')
      /\ rx'.skb = rx.skb /\ rx'.chain = rx.chain /\ rx'.cur = rx.cur
      /\ rx'.dirty = rx.dirty /\ rx'.free = rx.free
  <2> DEFINE p == IF h.sync THEN rx.poll ELSE h.left = 0
  <2>1. p \in BOOLEAN
    BY <1>0, RxFields
  <2>2. rx' = [rx EXCEPT !.poll = p]
    BY DEF RxEnd
  <2> HIDE DEF p
  <2> QED
    BY <1>0, <2>1, <2>2 DEF RxType, SameHw
<1>2. /\ h' \in HandlerType /\ h'.pc = "chain" /\ h'.left = h.left
      /\ h'.stat = h.stat /\ h'.retry = h.retry
  BY <1>0 DEF RxEnd, HandlerType
<1>3. TypeOK'
  BY <1>0, <1>1, <1>2 DEF RxIInv, TypeOK
<1>4. RingInv(rx', Window')
  <2>1. Window' = Window
    BY <1>0, <1>2 DEF Window
  <2> QED
    BY <1>1, <2>1, RingFrame DEF RxIInv
<1>5. HwInv' /\ (rx'.dma.st = "idle" => rx'.dma = Idle)
  BY <1>0, <1>1, <1>2, HwFrame DEF RxIInv, Handing
<1>6. ResetInv'
  BY <1>0, <1>1 DEF RxIInv, ResetInv
<1>7. h.retry > 0 => rx.late = NoDcb /\ rx.chain_complete
  <2> SUFFICES ASSUME h.retry > 0, ~rx.chain_complete
               PROVE  FALSE
    BY <1>0 DEF RxIInv, HandlerInv
  <2>1. rx.dirty \in 0 .. MAX_RX_DCBS - 1 /\ rx.dirty \in Dcbs /\ h.left \in 0 .. MAX_RX_DCBS
    BY <1>0, RxFields, HandlerFields DEF Dcbs
  <2>2. rx.late = NoDcb /\ h.left >= MAX_RX_DCBS - rx.dirty /\ rx.dma.st # "rx"
    BY <1>0 DEF RxIInv, HandlerInv
  <2>3. End = MAX_RX_DCBS /\ ~in_reset
    BY <1>0, <2>2 DEF End, Active, RxIInv, ResetInv
  <2>4. rx.done[rx.dirty]
    BY <2>1, <2>2, <2>3 DEF RxIInv, HwInv, NoDcb
  <2> QED
    BY <1>0, <2>1, <2>2, <2>4
<1>8. HandlerInv'
  BY <1>0, <1>1, <1>2, <1>7 DEF RxIInv, HandlerInv, Handing, SameHw
<1> QED
  BY <1>0, <1>1, <1>3, <1>4, <1>5, <1>6, <1>8 DEF RxIInv, Silent, SameHw

LEMMA RxSyncStep ==
    ASSUME RxIInv, RxSync
    PROVE  RxIInv' /\ Silent
<1> DEFINE pc == IF rx.running THEN "rx" ELSE "chain"
           retry == IF rx.late = NoDcb THEN h.retry + 1 ELSE h.retry
           cd == rx.chain_done /\ h.sync
<1>0. /\ rx \in RxType /\ h \in HandlerType /\ h.pc = "chain" /\ h.stat
      /\ ~rx.chain_complete /\ h.retry \in 0 .. rx_sync_retry + 1 /\ ~(h.retry > rx_sync_retry)
      /\ UNCHANGED <<base_up, in_reset, resets>>
  BY HandlerFields DEF RxIInv, TypeOK, RxSync, SyncOver
<1>1. ~in_reset /\ rx.dma.st # "rx"
  BY <1>0 DEF RxIInv, ResetInv, HandlerInv
<1>2. /\ rx' \in RxType /\ (rx'.chain_done <=> cd)
      /\ rx'.skb = rx.skb /\ rx'.chain = rx.chain /\ rx'.cur = rx.cur
      /\ rx'.dirty = rx.dirty /\ rx'.free = rx.free /\ rx'.done = rx.done
      /\ rx'.dma = rx.dma /\ rx'.late = rx.late
      /\ rx'.running = rx.running /\ rx'.chain_complete = rx.chain_complete
  <2>1. cd \in BOOLEAN /\ rx' = [rx EXCEPT !.chain_done = cd]
    BY DEF RxSync
  <2> HIDE DEF cd
  <2> QED
    BY <1>0, <2>1 DEF RxType
<1>3. /\ pc \in {"rx", "chain"} /\ (pc = "rx" <=> rx.running)
      /\ retry \in 0 .. rx_sync_retry + 1
      /\ retry > 0 => rx.late = NoDcb \/ h.retry > 0
  BY <1>0
<1>4. /\ h' \in HandlerType /\ h'.pc = pc /\ h'.left = MAX_RX_DCBS
      /\ h'.stat = h.stat /\ h'.retry = retry
  <2>1. h' = [h EXCEPT !.pc = pc, !.sync = TRUE, !.left = MAX_RX_DCBS, !.retry = retry]
    BY DEF RxSync
  <2>2. /\ h \in HandlerType /\ MAX_RX_DCBS \in 0 .. MAX_RX_DCBS
        /\ pc \in {"idle", "rx", "mirror", "deliver", "chain"}
        /\ retry \in 0 .. rx_sync_retry + 1
    BY <1>0, <1>3
  <2> HIDE DEF pc, retry
  <2> QED
    BY <2>1, <2>2 DEF HandlerType
<1> HIDE DEF pc, retry, cd
<1>5. TypeOK'
  BY <1>0, <1>2, <1>4 DEF RxIInv, TypeOK
<1>6. RingInv(rx', Window')
  <2>1. Window' = Window
    BY <1>0, <1>3, <1>4 DEF Window
  <2> QED
    BY <1>2, <2>1, RingFrame DEF RxIInv
<1>7. HwInv' /\ (rx'.dma.st = "idle" => rx'.dma = Idle)
  <2>1. (Active' <=> Active) /\ End' = End
    BY <1>0, <1>2, <1>3, <1>4 DEF Active, End, Handing
  <2> QED
    BY <1>0, <1>1, <1>2, <2>1 DEF RxIInv, HwInv
<1>8. ResetInv'
  BY <1>0, <1>1 DEF ResetInv
<1>9. HandlerInv'
  <2>1. retry > 0 /\ rx.running => rx.late = NoDcb
    BY <1>3 DEF RxIInv, HandlerInv
  <2>2. MAX_RX_DCBS >= MAX_RX_DCBS - rx.dirty
    BY <1>0, RxFields
  <2> QED
    BY <1>0, <1>1, <1>2, <1>3, <1>4, <2>1, <2>2 DEF HandlerInv, Handing
<1> QED
  BY <1>0, <1>2, <1>5, <1>6, <1>7, <1>8, <1>9 DEF RxIInv, Silent

(* Filling and starting a channel with no packet in it.                    *)
LEMMA SilentStart ==
    ASSUME NoneDone(rx), AtStart(rx'), AtRest(h'), ~in_reset',
           base_up' \in BOOLEAN, resets' \in 0 .. MAX_RESETS, in_reset' \in BOOLEAN,
           UNCHANGED <<in_reset, resets>>
    PROVE  RxIInv' /\ Silent
<1>1. RxIInv'
  BY StartInvNext DEF StartInv
<1>2. NoneDone(rx')
  BY DEF AtStart, Halted, Fresh
<1> QED
  BY <1>1, <1>2 DEF Silent

LEMMA NoChainDoneStep ==
    ASSUME RxIInv, NoChainDone
    PROVE  RxIInv' /\ Silent
<1>0. /\ rx \in RxType /\ h.pc = "chain"
      /\ UNCHANGED <<base_up, in_reset, resets>> /\ AtRest(h')
  BY HandlerIdleFacts DEF RxIInv, TypeOK, NoChainDone, EndDma, HandlerType
<1>1. ~in_reset /\ base_up' \in BOOLEAN /\ resets' \in 0 .. MAX_RESETS /\ in_reset' \in BOOLEAN
  BY <1>0 DEF RxIInv, ResetInv, TypeOK
<1>2. ASSUME rx' \in RxType, SameHw(rx, rx'),
             rx'.skb = rx.skb, rx'.chain = rx.chain, rx'.cur = rx.cur, rx'.free = rx.free
      PROVE  RxIInv' /\ Silent
  <2>1. TypeOK'
    BY <1>0, <1>1, <1>2, HandlerIdleFacts DEF TypeOK, AtRest
  <2>2. RingInv(rx', Window')
    <3>1. Window' = Window
      BY <1>0, HandlerIdleFacts DEF Window, AtRest
    <3> QED
      BY <1>2, <3>1, RingFrame DEF RxIInv, SameHw
  <2>3. HwInv' /\ (rx'.dma.st = "idle" => rx'.dma = Idle)
    BY <1>0, <1>2, HandlerIdleFacts, HwFrame DEF RxIInv, Handing, AtRest
  <2>4. ResetInv' /\ HandlerInv'
    BY <1>0, <1>1, HandlerIdleFacts DEF ResetInv, HandlerInv, Handing, AtRest
  <2> QED
    BY <1>0, <1>2, <2>1, <2>2, <2>3, <2>4 DEF RxIInv, Silent, SameHw
<1>3. CASE h.by # "open"
  <2>1. rx' = rx
    BY <1>3 DEF NoChainDone, EndDma
  <2> QED
    BY <1>0, <1>2, <2>1 DEF SameHw
<1>4. CASE h.by = "open"
  <2>1. rx' = Resume(rx)
    BY <1>4 DEF NoChainDone, EndDma
  <2>2. CASE rx.running
    <3>1. rx' = [rx EXCEPT !.basedev_suspended = FALSE]
      BY <1>0, <2>1, <2>2 DEF Resume, bkn_rx_restart, RxType
    <3>2. /\ rx' \in RxType /\ SameHw(rx, rx')
          /\ rx'.skb = rx.skb /\ rx'.chain = rx.chain /\ rx'.cur = rx.cur /\ rx'.free = rx.free
      BY <1>0, <3>1 DEF RxType, SameHw
    <3> QED
      BY <1>2, <3>2
  <2>3. CASE ~rx.running
    <3>1. ~Active /\ rx.dma.st # "rx" /\ Window = {}
      BY <1>0, <1>1, <2>3 DEF Active, RxIInv, HwInv, Window
    <3>2. AtStart(rx) /\ NoneDone(rx)
      BY <1>1, <2>3, <3>1, StoppedFacts DEF AtStart, Halted, RxIInv
    <3>3. AtStart(rx')
      BY <2>1, <3>2, ResumeOK
    <3> QED
      BY <1>0, <1>1, <3>2, <3>3, SilentStart
  <2> QED
    BY <2>2, <2>3
<1> QED
  BY <1>3, <1>4

(* The end of do_dma, with "chain_done" cleared: bkn_rx_chain_done fills   *)
(* the channel again.                                                      *)
LEMMA ChainDoneStep ==
    ASSUME RxIInv, bkn_rx_chain_done
    PROVE  RxIInv' /\ Silent
<1> DEFINE cd == rx.chain_done /\ h.sync
           r == [rx EXCEPT !.chain_complete = TRUE, !.running = FALSE, !.chain_done = cd]
<1>0. /\ rx \in RxType /\ h.pc = "chain" /\ h.stat
      /\ rx.chain_complete \/ h.retry > 0
      /\ UNCHANGED <<base_up, in_reset, resets>> /\ AtRest(h')
  <2>1. h.retry \in 0 .. rx_sync_retry + 1
    BY HandlerFields DEF RxIInv, TypeOK
  <2> QED
    BY <2>1, HandlerIdleFacts DEF RxIInv, TypeOK, bkn_rx_chain_done, EndDma, SyncOver, HandlerType
<1>1. ~in_reset /\ base_up' \in BOOLEAN /\ resets' \in 0 .. MAX_RESETS /\ in_reset' \in BOOLEAN
  BY <1>0 DEF RxIInv, ResetInv, TypeOK
<1>2. ~Active /\ rx.dma.st # "rx" /\ Window = {}
  BY <1>0 DEF Active, RxIInv, HandlerInv, Handing, Window
<1>3. rx.dma = Idle /\ NoneDone(rx)
  BY <1>1, <1>2, StoppedFacts
<1>4. AtStart(r) /\ ~r.running
  <2>1. cd \in BOOLEAN
    OBVIOUS
  <2> HIDE DEF cd
  <2>2. /\ r \in RxType /\ ~r.running
        /\ r.skb = rx.skb /\ r.chain = rx.chain /\ r.cur = rx.cur /\ r.free = rx.free
        /\ r.dirty = rx.dirty /\ r.done = rx.done /\ r.late = rx.late /\ r.dma = rx.dma
    BY <1>0, <2>1 DEF RxType
  <2> HIDE DEF r
  <2>3. InUse(r) = InUse(rx)
    BY <2>2 DEF InUse
  <2>4. RingInv(r, {})
    BY <1>2, <2>2, <2>3 DEF RxIInv, RingInv, RingOK, SkbsOK
  <2> QED
    BY <1>3, <2>2, <2>4 DEF AtStart, Halted, NoneDone
<1>5. PICK s \in bkn_rx_refill(r) :
         EndDma([bkn_rx_restart(s) EXCEPT !.timer_queued = @ \/ RestartFails(s)])
  BY Zenon DEF bkn_rx_chain_done
<1> HIDE DEF r
<1> DEFINE u == bkn_rx_restart(s)
           q == u.timer_queued \/ RestartFails(s)
           v == [u EXCEPT !.timer_queued = q]
<1>6. AtStart(u)
  BY <1>4, <1>5, RefillAtStart, RestartOK
<1>7. EndDma(v)
  <2>1. u \in RxType
    BY <1>6 DEF AtStart, RingInv
  <2>2. [u EXCEPT !.timer_queued = @ \/ RestartFails(s)] = v
    BY <2>1 DEF RxType
  <2> QED
    BY <1>5, <2>2, Zenon
<1>8. AtStart(v)
  <2>1. q \in BOOLEAN
    OBVIOUS
  <2> HIDE DEF q, u
  <2> QED
    BY <1>6, <2>1, TimerQueued
<1> HIDE DEF v
<1>9. AtStart(rx')
  <2>1. rx' = v \/ rx' = Resume(v)
    BY <1>7 DEF EndDma
  <2> QED
    BY <1>8, <2>1, ResumeOK
<1> QED
  BY <1>0, <1>1, <1>3, <1>9, SilentStart

-----------------------------------------------------------------------------
(* The timers. *)

LEMMA NotRunningAtStart ==
    ASSUME RxIInv, ~in_reset, LockFree, ~rx.running
    PROVE  AtStart(rx) /\ AtRest(h) /\ NoneDone(rx)
<1>1. h.pc = "idle" /\ AtRest(h)
  BY DEF LockFree, RxIInv, HandlerInv
<1>2. ~Active /\ rx.dma.st # "rx" /\ Window = {}
  BY <1>1 DEF Active, RxIInv, HwInv, Window
<1> QED
  BY <1>1, <1>2, StoppedFacts DEF AtStart, Halted, RxIInv

LEMMA TimerStep ==
    ASSUME RxIInv, bkn_timer_func, QuietReset
    PROVE  RxIInv' /\ Silent
<1>0. /\ rx \in RxType /\ LockFree /\ ~in_reset
      /\ UNCHANGED <<h, base_up, in_reset, resets>>
      /\ base_up' \in BOOLEAN /\ resets' \in 0 .. MAX_RESETS /\ in_reset' \in BOOLEAN
  BY DEF RxIInv, TypeOK, bkn_timer_func, Awake
<1>1. CASE rx' = [rx EXCEPT !.timer_queued = FALSE]
  <2>1. /\ rx' \in RxType /\ SameHw(rx, rx')
        /\ rx'.skb = rx.skb /\ rx'.chain = rx.chain /\ rx'.cur = rx.cur /\ rx'.free = rx.free
    BY <1>0, <1>1 DEF RxType, SameHw
  <2> QED
    BY <1>0, <2>1, RxFrame DEF Silent, SameHw
<1>2. ASSUME ~rx.running, NEW s \in bkn_rx_refill(rx),
             rx' = [bkn_rx_restart(s) EXCEPT !.timer_queued = RestartFails(s)]
      PROVE  RxIInv' /\ Silent
  <2>1. AtStart(rx) /\ AtRest(h) /\ NoneDone(rx)
    BY <1>0, <1>2, NotRunningAtStart
  <2>2. AtStart(bkn_rx_restart(s))
    BY <1>2, <2>1, RefillAtStart, RestartOK
  <2>3. RestartFails(s) \in BOOLEAN
    BY DEF RestartFails
  <2>4. AtStart(rx')
    BY <1>2, <2>2, <2>3, TimerQueued, Zenon
  <2> QED
    BY <1>0, <2>1, <2>4, SilentStart
<1> QED
  BY <1>1, <1>2, Zenon DEF bkn_timer_func

LEMMA TickStep ==
    ASSUME RxIInv, bkn_rxtick, QuietReset
    PROVE  RxIInv' /\ Silent
<1> DEFINE more == rx.tokens + TOKENS_PER_TICK
           t == IF more > burst_max THEN burst_max ELSE more
           s1 == [rx EXCEPT !.tokens = t]
<1>0. /\ rx \in RxType /\ LockFree /\ ~in_reset
      /\ UNCHANGED <<h, base_up, in_reset, resets>>
      /\ base_up' \in BOOLEAN /\ resets' \in 0 .. MAX_RESETS /\ in_reset' \in BOOLEAN
  BY DEF RxIInv, TypeOK, bkn_rxtick, Awake
<1>1. t \in 0 .. burst_max
  BY <1>0, RxFields
<1>2. \/ rx.running /\ rx' = s1
      \/ ~rx.running /\ \E s \in bkn_rx_refill(s1) : rx' = bkn_rx_restart(s)
  BY Zenon DEF bkn_rxtick
<1> HIDE DEF t
<1>3. /\ s1 \in RxType /\ SameHw(rx, s1)
      /\ s1.skb = rx.skb /\ s1.chain = rx.chain /\ s1.cur = rx.cur /\ s1.free = rx.free
  BY <1>0, <1>1 DEF RxType, SameHw
<1> HIDE DEF s1
<1>4. CASE rx' = s1
  BY <1>0, <1>3, <1>4, RxFrame DEF Silent, SameHw
<1>5. ASSUME ~rx.running, NEW s \in bkn_rx_refill(s1), rx' = bkn_rx_restart(s)
      PROVE  RxIInv' /\ Silent
  <2>1. AtStart(rx) /\ AtRest(h) /\ NoneDone(rx)
    BY <1>0, <1>5, NotRunningAtStart
  <2>2. AtStart(s1) /\ ~s1.running
    BY <1>3, <1>5, <2>1, AtStartFrame DEF SameHw
  <2>3. AtStart(rx')
    BY <1>5, <2>2, RefillAtStart, RestartOK
  <2> QED
    BY <1>0, <2>1, <2>3, SilentStart
<1> QED
  BY <1>2, <1>4, <1>5

-----------------------------------------------------------------------------
(* The commands, and the base device. *)

LEMMA HwResetStep ==
    ASSUME RxIInv, ~ResetRaces, NEW stale \in BOOLEAN, bkn_knet_hw_reset(stale)
    PROVE  RxIInv' /\ Dropped
<1>0. /\ h.pc = "idle" /\ h' = h /\ AtRest(h) /\ Window = {} /\ h \in HandlerType
      /\ base_up' \in BOOLEAN /\ resets' \in 0 .. MAX_RESETS /\ in_reset' = TRUE
      /\ resets' = resets + 1
  BY DEF RxIInv, TypeOK, bkn_knet_hw_reset, MayReset, HandlerInv, Window
<1>1. /\ RingInv(rx', {})
      /\ ~rx'.running /\ rx'.dma = Idle /\ rx'.late = NoDcb /\ rx'.free = 0
  BY <1>0, CleanOK DEF RxIInv, bkn_knet_hw_reset
<1>2. TypeOK'
  BY <1>0, <1>1 DEF TypeOK, RingInv
<1>3. Window' = {} /\ ~Handing'
  BY <1>0 DEF Window, Handing
<1>4. HwInv' /\ ResetInv' /\ HandlerInv'
  BY <1>0, <1>1, <1>3, HandlerIdleFacts DEF HwInv, ResetInv, HandlerInv, Idle, AtRest
<1> QED
  BY <1>0, <1>1, <1>2, <1>3, <1>4 DEF RxIInv, Dropped

LEMMA HwInitStep ==
    ASSUME RxIInv, ~ResetRaces, NEW stale \in BOOLEAN, bkn_knet_hw_init(stale)
    PROVE  RxIInv' /\ Dropped
<1> DEFINE b == rx.basedev_suspended
           s1 == bkn_clean_rx_dcbs(bkn_dma_abort_rx(rx, stale))
           susp == s1.basedev_suspended \/ (basedev_suspend /\ ~base_up)
           s2 == bkn_init_dcbs([s1 EXCEPT !.basedev_suspended = susp])
<1>0. /\ h.pc = "idle" /\ h' = h /\ AtRest(h) /\ Window = {}
      /\ base_up' \in BOOLEAN /\ resets' \in 0 .. MAX_RESETS /\ in_reset' = FALSE
      /\ resets' = resets + 1
  BY DEF RxIInv, TypeOK, bkn_knet_hw_init, MayReset, HandlerInv, Window
<1>1. RingInv(s1, {}) /\ ~s1.running /\ s1.dma = Idle /\ s1.late = NoDcb /\ s1.free = 0
  BY <1>0, CleanOK DEF RxIInv
<1>2. \E s \in bkn_rx_refill(s2) : rx' = bkn_rx_restart(s)
  <2>1. [s1 EXCEPT !.basedev_suspended = @ \/ (basedev_suspend /\ ~base_up)]
           = [s1 EXCEPT !.basedev_suspended = susp]
    BY <1>1 DEF RingInv, RxType
  <2> QED
    BY <2>1, Zenon DEF bkn_knet_hw_init
<1>3. susp \in BOOLEAN
  OBVIOUS
<1> HIDE DEF s1, susp
<1>4. AtStart(s2) /\ ~s2.running
  BY <1>1, <1>3, InitDcbsOK
<1> HIDE DEF s2
<1>5. AtStart(rx')
  BY <1>2, <1>4, RefillAtStart, RestartOK
<1> QED
  BY <1>0, <1>5, StartInvNext DEF StartInv, AtStart, Halted, Fresh, Dropped

LEMMA OpenBaseStep ==
    ASSUME RxIInv, OpenBase, QuietReset
    PROVE  RxIInv' /\ Silent
<1>0. /\ rx \in RxType /\ h.pc = "idle" /\ ~in_reset /\ UNCHANGED <<in_reset, resets>>
      /\ base_up' \in BOOLEAN /\ resets' \in 0 .. MAX_RESETS
  BY DEF RxIInv, TypeOK, OpenBase, Awake
<1>1. CASE UNCHANGED <<rx, h>>
  BY <1>0, <1>1, RxFrame DEF Silent, SameHw
<1>2. CASE BeginDma("open")
  BY <1>0, <1>2, BeginDmaStep
<1> QED
  BY <1>1, <1>2, Zenon DEF OpenBase

LEMMA StopBaseStep ==
    ASSUME RxIInv, StopBase
    PROVE  RxIInv' /\ Silent
<1> DEFINE b == rx.basedev_suspended \/ basedev_suspend
<1>0. /\ rx \in RxType /\ UNCHANGED <<h, in_reset, resets>>
      /\ base_up' \in BOOLEAN /\ resets' \in 0 .. MAX_RESETS
  BY DEF RxIInv, TypeOK, StopBase
<1>1. b \in BOOLEAN /\ rx' = [rx EXCEPT !.basedev_suspended = b]
  BY <1>0 DEF StopBase, RxType
<1> HIDE DEF b
<1>2. /\ rx' \in RxType /\ SameHw(rx, rx')
      /\ rx'.skb = rx.skb /\ rx'.chain = rx.chain /\ rx'.cur = rx.cur /\ rx'.free = rx.free
  BY <1>0, <1>1 DEF RxType, SameHw
<1> QED
  BY <1>0, <1>2, RxFrame DEF Silent, SameHw

-----------------------------------------------------------------------------
(* The theorems. *)

LEMMA InitInv ==
    ASSUME Init
    PROVE  RxIInv /\ NoneDone(rx)
<1> DEFINE susp == basedev_suspend /\ ~base_up
           none == [i \in Dcbs |-> FALSE]
           noskb == [i \in Dcbs |-> "none"]
           r(p) == [free |-> 0, cur |-> 0, dirty |-> 0,
                    skb |-> noskb, chain |-> none, done |-> none,
                    running |-> FALSE, chain_complete |-> FALSE, tokens |-> burst_max,
                    timer_queued |-> FALSE, basedev_suspended |-> susp,
                    poll |-> FALSE, irq |-> FALSE, desc_done |-> FALSE, chain_done |-> FALSE,
                    posted |-> p, late |-> NoDcb, dma |-> Idle, shortages |-> 0]
<1>1. PICK posted \in BOOLEAN : rx = bkn_rx_restart(Fill(r(posted), MAX_RX_DCBS))
  BY Zenon DEF Init
<1> DEFINE s == r(posted)
<1>2. /\ susp \in BOOLEAN /\ none \in [Dcbs -> BOOLEAN]
      /\ noskb \in [Dcbs -> {"none", "buf", "gone"}]
      /\ \A i \in Dcbs : ~none[i] /\ noskb[i] = "none"
      /\ 0 \in Dcbs /\ MAX_RX_DCBS - 1 \in Dcbs /\ 0 = Wrap(0 + 0)
      /\ Idle \in [st : {"idle", "rx", "clash"}, idx : Dcbs]
  BY DEF Dcbs, Wrap, Idle
<1> HIDE DEF susp, none, noskb
<1>3. s \in RxType
  BY <1>1, <1>2 DEF RxType, Dcbs, NoDcb
<1>4. /\ s.free = 0 /\ s.cur = 0 /\ s.dirty = 0 /\ s.skb = noskb /\ s.chain = none
      /\ s.done = none /\ ~s.running /\ s.late = NoDcb /\ s.dma = Idle
      /\ s.tokens = burst_max
  OBVIOUS
<1> HIDE DEF r
<1>5. InUse(s) = {}
  BY <1>4 DEF InUse, Dist, Dcbs
<1>6. RingInv(s, {}) /\ Halted(s)
  BY <1>2, <1>3, <1>4, <1>5 DEF RingInv, RingOK, SkbsOK, Halted, NoneDone
<1> DEFINE t == Fill(s, MAX_RX_DCBS)
<1>7. RingInv(t, {}) /\ SameHw(s, t)
  <2>1. MAX_RX_DCBS \in 0 .. MAX_RX_DCBS - s.free /\ MAX_RX_DCBS <= s.tokens
    BY <1>4
  <2> QED
    BY <1>3, <1>6, <2>1, FillOK, FillSame
<1> HIDE DEF t
<1>8. AtStart(t)
  BY <1>6, <1>7 DEF AtStart, Halted, NoneDone, SameHw
<1>9. AtStart(rx)
  BY <1>1, <1>8, RestartOK DEF t
<1>10. /\ AtRest(h) /\ ~in_reset
       /\ base_up \in BOOLEAN /\ resets \in 0 .. MAX_RESETS /\ in_reset \in BOOLEAN
  <2>1. AtRest(h) /\ in_reset = FALSE /\ base_up \in BOOLEAN /\ resets = 0
    BY HandlerIdleFacts, Zenon DEF Init
  <2>2. 0 \in 0 .. MAX_RESETS
    OBVIOUS
  <2> QED
    BY <2>1, <2>2, Zenon
<1> QED
  BY <1>9, <1>10, StartInvOK DEF StartInv, AtStart, Halted, Fresh

LEMMA NextInv ==
    ASSUME RxIInv, Next, ~ResetRaces, QuietReset
    PROVE  RxIInv' /\ (Silent \/ Grown \/ Took \/ Dropped)
<1>1. CASE HwRxDone
  BY <1>1, HwRxDoneStep
<1>2. CASE HwWriteBack
  BY <1>2, HwWriteBackStep
<1>3. CASE DoDma
  <2>1. /\ ~in_reset /\ h.pc = "idle" /\ BeginDma("isr")
        /\ UNCHANGED <<base_up, in_reset, resets>> /\ base_up' \in BOOLEAN
    BY <1>3 DEF DoDma, Awake, RxIInv, TypeOK
  <2> QED
    BY <2>1, BeginDmaStep
<1>4. CASE RxDcb
  BY <1>4, RxDcbStep
<1>5. CASE Mirrored
  BY <1>5, MirroredStep
<1>6. CASE Delivered
  BY <1>6, DeliveredStep
<1>7. CASE RxEnd
  BY <1>7, RxEndStep
<1>8. CASE NoChainDone
  BY <1>8, NoChainDoneStep
<1>9. CASE RxSync
  BY <1>9, RxSyncStep
<1>10. CASE bkn_rx_chain_done
  BY <1>10, ChainDoneStep
<1>11. CASE bkn_timer_func
  BY <1>11, TimerStep
<1>12. CASE bkn_rxtick
  BY <1>12, TickStep
<1>13. ASSUME NEW stale \in BOOLEAN,
              bkn_knet_hw_reset(stale) \/ bkn_knet_hw_init(stale)
       PROVE  RxIInv' /\ Dropped
  BY <1>13, HwResetStep, HwInitStep
<1>14. CASE OpenBase
  BY <1>14, OpenBaseStep
<1>15. CASE StopBase
  BY <1>15, StopBaseStep
<1> QED
  BY <1>1, <1>2, <1>3, <1>4, <1>5, <1>6, <1>7, <1>8, <1>9, <1>10, <1>11, <1>12, <1>13,
     <1>14, <1>15 DEF Next

LEMMA StutterInv ==
    ASSUME RxIInv, UNCHANGED vars
    PROVE  RxIInv'
BY RxFrame DEF vars, SameHw, RxIInv, TypeOK

LEMMA RxInvariant ==
    ASSUME ~ResetRaces, QuietReset
    PROVE  Spec => []RxIInv
<1>1. Init => RxIInv
  BY InitInv
<1>2. RxIInv /\ [Next]_vars => RxIInv'
  BY NextInv, StutterInv
<1> QED
  BY <1>1, <1>2, PTL DEF Spec

(* Every variable has its type: the counts of the ring stay in their range *)
(* (bkn_rx_refill, do_skb_rx) and so do the tokens (bkn_rxtick).           *)
THEOREM RxTypeCorrect ==
    ASSUME ~ResetRaces, QuietReset
    PROVE  Spec => []TypeOK
<1>1. RxIInv => TypeOK
  BY DEF RxIInv
<1> QED
  BY <1>1, RxInvariant, PTL

(* The driver owns the skb of every DCB in use and keeps no pointer to one *)
(* that it has handed to the stack (do_skb_rx, bkn_rx_refill,              *)
(* bkn_clean_rx_dcbs).                                                     *)
THEOREM RxBufferOwned ==
    ASSUME ~ResetRaces, QuietReset
    PROVE  Spec => []BufferOwned
<1>1. RxIInv => BufferOwned
  BY DEF RxIInv, RingInv, SkbsOK, BufferOwned
<1> QED
  BY <1>1, RxInvariant, PTL

(* The hardware works only on a DCB that is in use and not done yet, and   *)
(* the channel is started only when it is idle (bkn_rx_restart).           *)
THEOREM RxHwOnFilledDcb ==
    ASSUME ~ResetRaces, QuietReset
    PROVE  Spec => []HwOnFilledDcb
<1>1. RxIInv => HwOnFilledDcb
  <2> SUFFICES ASSUME RxIInv, ~in_reset
               PROVE  /\ rx.dma.st # "clash"
                      /\ rx.dma.st = "rx" =>
                            rx.running /\ rx.dma.idx \in InUse(rx) /\ ~rx.done[rx.dma.idx]
    BY DEF HwOnFilledDcb
  <2>1. rx.dma.st # "clash"
    BY DEF RxIInv, HwInv
  <2>2. CASE rx.dma.st = "rx"
    <3>1. rx \in RxType /\ rx.dma.idx \in Dcbs /\ rx.dma.idx \in 0 .. MAX_RX_DCBS - 1
      BY RxFields DEF RxIInv, TypeOK, Dcbs
    <3>2. /\ rx.running /\ rx.dirty <= rx.dma.idx /\ Active
          /\ rx.free >= MAX_RX_DCBS - rx.dirty
      BY <2>2 DEF RxIInv, HwInv, Active
    <3>3. End = rx.dma.idx /\ ~(rx.dma.idx < rx.dma.idx)
      BY <2>2, <3>1, <3>2 DEF End
    <3>4. ~rx.done[rx.dma.idx]
      BY <3>1, <3>3 DEF RxIInv, HwInv
    <3> QED
      BY <2>1, <3>1, <3>2, <3>4, UpToEnd
  <2> QED
    BY <2>1, <2>2
<1> QED
  BY <1>1, RxInvariant, PTL

(* Nobody touches the ring while a packet is handed to the stack with the  *)
(* lock released (bkn_timer_func, bkn_rxtick, bkn_open, bkn_stop).         *)
THEOREM RxDeliveryUndisturbed ==
    ASSUME ~ResetRaces, QuietReset
    PROVE  Spec => DeliveryUndisturbed
<1> DEFINE Untouched == UNCHANGED <<rx.dirty, rx.free, rx.cur, rx.skb>>
<1>1. ASSUME RxIInv, Next, Handing, h' = h
      PROVE  Untouched
  <2>0. rx \in RxType /\ rx.running /\ h.pc # "idle"
    BY <1>1 DEF RxIInv, TypeOK, HandlerInv, Handing
  <2>1. CASE HwRxDone
    BY <2>0, <2>1 DEF HwRxDone, RxType
  <2>2. CASE HwWriteBack
    BY <2>0, <2>2 DEF HwWriteBack, RxType
  <2>3. CASE bkn_timer_func
    <3>1. rx' = [rx EXCEPT !.timer_queued = FALSE]
      BY <2>0, <2>3, Zenon DEF bkn_timer_func
    <3> QED
      BY <2>0, <3>1 DEF RxType
  <2>4. CASE bkn_rxtick
    <3>1. PICK t : rx' = [rx EXCEPT !.tokens = t]
      BY <2>0, <2>4, Zenon DEF bkn_rxtick
    <3> QED
      BY <2>0, <3>1 DEF RxType
  <2>5. CASE StopBase
    BY <2>0, <2>5 DEF StopBase, RxType
  <2>6. ASSUME DoDma \/ OpenBase \/ RxDcb \/ RxEnd \/ NoChainDone \/ RxSync
                 \/ bkn_rx_chain_done
                 \/ \E stale \in BOOLEAN : bkn_knet_hw_reset(stale) \/ bkn_knet_hw_init(stale)
        PROVE  FALSE
    BY <1>1, <2>0, <2>6
    DEF DoDma, OpenBase, RxDcb, RxEnd, NoChainDone, RxSync, bkn_rx_chain_done,
        bkn_knet_hw_reset, bkn_knet_hw_init, MayReset, Handing
  <2>7. ASSUME Mirrored \/ Delivered
        PROVE  FALSE
    <3>1. h \in HandlerType
      BY <1>1 DEF RxIInv, TypeOK
    <3>2. h'.pc # h.pc
      BY <2>7, <3>1 DEF Mirrored, Delivered, HandlerType
    <3> QED
      BY <1>1, <3>2
  <2> QED
    BY <1>1, <2>1, <2>2, <2>3, <2>4, <2>5, <2>6, <2>7, Zenon DEF Next
<1>2. RxIInv /\ [Next]_vars => [Handing /\ h' = h => Untouched]_vars
  BY <1>1
<1>3. [][Handing /\ h' = h => Untouched]_vars => DeliveryUndisturbed
  BY DEF DeliveryUndisturbed, Handing
<1>4. Spec => [][Next]_vars
  BY PTL DEF Spec
<1> QED
  BY <1>2, <1>3, <1>4, RxInvariant, PTL

-----------------------------------------------------------------------------
(* The ring implements the queue of PacketQueue.                           *)

(* The DCBs from a to b - 1, in order. *)
Line(a, b) == [k \in 1 .. b - a |-> a + k - 1]

LEMMA LineFacts ==
    ASSUME NEW a \in 0 .. MAX_RX_DCBS, NEW b \in a .. MAX_RX_DCBS
    PROVE  /\ Line(a, b) \in Seq(Int) /\ Len(Line(a, b)) = b - a
           /\ a = b => Line(a, b) = <<>>
           /\ Line(a, b + 1) = Append(Line(a, b), b)
           /\ a < b => Line(a, b) # <<>> /\ Line(a + 1, b) = Tail(Line(a, b))
<1>1. Line(a, b) \in Seq(Int) /\ Len(Line(a, b)) = b - a
  BY DEF Line
<1>2. a = b => Line(a, b) = <<>>
  BY DEF Line
<1>3. Line(a, b + 1) = Append(Line(a, b), b)
  BY <1>1 DEF Line
<1>4. ASSUME a < b
      PROVE  Line(a, b) # <<>> /\ Line(a + 1, b) = Tail(Line(a, b))
  <2>1. Line(a, b) # <<>>
    BY <1>1, <1>4
  <2>2. /\ Tail(Line(a, b)) \in Seq(Int) /\ Len(Tail(Line(a, b))) = Len(Line(a, b)) - 1
        /\ \A k \in 1 .. Len(Tail(Line(a, b))) : Tail(Line(a, b))[k] = Line(a, b)[k + 1]
    BY <1>1, <2>1, HeadTailProperties, Zenon
  <2>3. Line(a + 1, b) \in Seq(Int) /\ Len(Line(a + 1, b)) = b - (a + 1)
    BY <1>4 DEF Line
  <2>4. Len(Line(a + 1, b)) = Len(Tail(Line(a, b)))
    BY <1>1, <2>2, <2>3
  <2>5. ASSUME NEW k \in 1 .. b - (a + 1)
        PROVE  Line(a + 1, b)[k] = Line(a, b)[k + 1]
    BY DEF Line
  <2>6. \A k \in 1 .. Len(Line(a + 1, b)) : Line(a + 1, b)[k] = Tail(Line(a, b))[k]
    BY <2>2, <2>3, <2>4, <2>5, Zenon
  <2> QED
    BY <2>1, <2>2, <2>3, <2>4, <2>6, SeqEqual, Zenon
<1> QED
  BY <1>1, <1>2, <1>3, <1>4

LEMMA UptoFacts ==
    ASSUME RxIInv, ~in_reset
    PROVE  /\ rx.dirty \in 0 .. MAX_RX_DCBS - 1 /\ Upto \in rx.dirty .. MAX_RX_DCBS
           /\ DoneDcbs = rx.dirty .. Upto - 1
<1>1. /\ rx \in RxType
      /\ rx.dirty \in 0 .. MAX_RX_DCBS - 1 /\ rx.late \in 0 .. MAX_RX_DCBS
      /\ rx.dma.idx \in 0 .. MAX_RX_DCBS - 1
  BY RxFields DEF RxIInv, TypeOK, Dcbs, NoDcb
<1>2. End \in 0 .. MAX_RX_DCBS
  BY <1>1 DEF End
<1>3. rx.late # NoDcb => rx.dirty <= rx.late /\ rx.late = End - 1
  BY DEF RxIInv, HwInv
<1>4. Upto \in rx.dirty .. MAX_RX_DCBS
  BY <1>1, <1>2, <1>3 DEF Upto
<1>5. \A i \in Dcbs : rx.done[i] <=> rx.dirty <= i /\ i < Upto
  BY <1>1, <1>2, <1>3 DEF RxIInv, HwInv, Upto, Dcbs, NoDcb
<1>6. \A i \in Dcbs : rx.dirty <= i /\ i < Upto => i \in InUse(rx)
  <2> SUFFICES ASSUME NEW i \in Dcbs, rx.dirty <= i, i < Upto
               PROVE  i \in InUse(rx)
    OBVIOUS
  <2>1. Active
    BY <1>1, <1>2, <1>3 DEF Upto, End, Dcbs, NoDcb
  <2> QED
    BY <1>1, <2>1, UpToEnd DEF RxIInv, HwInv
<1> QED
  BY <1>1, <1>4, <1>5, <1>6 DEF DoneDcbs, InUse, Dcbs

LEMMA ReceivedIsLine ==
    ASSUME RxIInv, ~in_reset
    PROVE  Received = Line(rx.dirty, Upto)
<1> DEFINE a == rx.dirty
           b == Upto
<1>1. a \in 0 .. MAX_RX_DCBS - 1 /\ b \in a .. MAX_RX_DCBS /\ DoneDcbs = a .. b - 1
  BY UptoFacts
<1> HIDE DEF a, b
<1>2. Cardinality(DoneDcbs) = b - a
  <2>1. Cardinality(a .. b - 1) = b - a
    <3>1. a \in Int /\ b - 1 \in Int /\ (a > b - 1 => b - a = 0) /\ b - 1 - a + 1 = b - a
      BY <1>1
    <3>2. Cardinality(a .. b - 1) = IF a > b - 1 THEN 0 ELSE b - 1 - a + 1
      BY <3>1, FS_Interval, Zenon
    <3> QED
      BY <3>1, <3>2
  <2> QED
    BY <1>1, <2>1, Zenon
<1>3. ASSUME NEW i \in DoneDcbs
      PROVE  Rank(i) = i - a + 1
  <2>1. {j \in DoneDcbs : Dist(rx.dirty, j) <= Dist(rx.dirty, i)} = a .. i
    BY <1>1, <1>3 DEF Dist, a
  <2>2. Cardinality(a .. i) = i - a + 1
    <3>1. a \in Int /\ i \in Int /\ ~(a > i)
      BY <1>1, <1>3
    <3> QED
      BY <3>1, FS_Interval
  <2> QED
    BY <2>1, <2>2, Zenon DEF Rank
<1>4. ASSUME NEW k \in 1 .. b - a
      PROVE  (CHOOSE i \in DoneDcbs : Rank(i) = k) = a + k - 1
  <2>1. a + k - 1 \in DoneDcbs /\ \A i \in DoneDcbs : Rank(i) = k <=> i = a + k - 1
    BY <1>1, <1>3
  <2> QED
    BY <2>1
<1> QED
  BY <1>2, <1>4 DEF Received, Line, a, b

(* What the abstract queue is, in this state and in the next.              *)
Queue == IF in_reset THEN <<>> ELSE Received

QueueLine ==
    ~in_reset =>
        /\ Queue = Line(rx.dirty, Upto)
        /\ rx.dirty \in 0 .. MAX_RX_DCBS - 1 /\ Upto \in rx.dirty .. MAX_RX_DCBS

LEMMA QueueIsLine == RxIInv => QueueLine
BY ReceivedIsLine, UptoFacts DEF Queue, QueueLine

LEMMA QueueIsLineNext == RxIInv' => QueueLine'
BY QueueIsLine, PTL

QueueNone == NoneDone(rx) => Queue = <<>>

LEMMA QueueEmpty == QueueNone
<1> SUFFICES ASSUME NoneDone(rx)
             PROVE  Received = <<>>
  BY DEF Queue, QueueNone
<1>1. DoneDcbs = {}
  BY DEF NoneDone, DoneDcbs, InUse
<1>2. Cardinality(DoneDcbs) = 0
  BY <1>1, FS_EmptySet
<1> QED
  BY <1>2 DEF Received

LEMMA QueueEmptyNext == QueueNone'
BY QueueEmpty, PTL

LEMMA QueueStep ==
    ASSUME RxIInv, RxIInv', Silent \/ Grown \/ Took \/ Dropped
    PROVE  [Ring!Next]_(Ring!vars)
<1>0. /\ Ring!vars = <<Queue, resets>> /\ Ring!vars' = <<Queue', resets'>>
      /\ Ring!Send <=> Queue # <<>> /\ Queue' = Tail(Queue) /\ resets' = resets
      /\ Ring!DropAll <=> Queue' = <<>> /\ resets' = resets + 1
      /\ \A p : Ring!Accept(p) <=>
                   /\ Len(Queue) < MAX_RX_DCBS
                   /\ \A i \in 1 .. Len(Queue) : Queue[i] # p
                   /\ Queue' = Append(Queue, p) /\ resets' = resets
  BY DEF Ring!vars, Ring!Send, Ring!DropAll, Ring!Accept, Queue
<1>1. CASE Silent
  <2>1. CASE rx'.dirty = rx.dirty /\ rx'.free = rx.free /\ rx'.done = rx.done
    <3>1. DoneDcbs' = DoneDcbs
      BY <2>1 DEF DoneDcbs, InUse
    <3>2. Received' = Received
      BY <2>1, <3>1 DEF Received, Rank
    <3> QED
      BY <1>0, <1>1, <3>2 DEF Silent, Queue
  <2>2. CASE NoneDone(rx) /\ NoneDone(rx')
    BY <1>0, <1>1, <2>2, QueueEmpty, QueueEmptyNext DEF Silent, QueueNone
  <2> QED
    BY <1>1, <2>1, <2>2 DEF Silent
<1>2. CASE Grown
  <2>0. ~in_reset /\ ~in_reset' /\ resets' = resets
    BY <1>2 DEF Grown
  <2>1. /\ rx'.dirty = rx.dirty /\ rx.dirty \in 0 .. MAX_RX_DCBS
        /\ Upto \in rx.dirty .. MAX_RX_DCBS /\ Upto' \in rx.dirty .. MAX_RX_DCBS
        /\ Queue = Line(rx.dirty, Upto) /\ Queue' = Line(rx.dirty, Upto')
    BY <1>2, <2>0, QueueIsLine, QueueIsLineNext DEF Grown, Line, QueueLine
  <2>2. CASE Upto' = Upto
    BY <1>0, <2>0, <2>1, <2>2
  <2>3. CASE Upto' = Upto + 1
    <3>1. Upto \in Dcbs
      BY <2>1, <2>3 DEF Dcbs
    <3>2. /\ Len(Queue) = Upto - rx.dirty /\ Queue' = Append(Queue, Upto)
          /\ \A i \in 1 .. Len(Queue) : Queue[i] # Upto
      <4>1. /\ Len(Line(rx.dirty, Upto)) = Upto - rx.dirty
            /\ Line(rx.dirty, Upto + 1) = Append(Line(rx.dirty, Upto), Upto)
        BY <2>1, LineFacts
      <4>2. \A i \in 1 .. Upto - rx.dirty : Line(rx.dirty, Upto)[i] = rx.dirty + i - 1
        BY DEF Line
      <4>3. \A i \in 1 .. Upto - rx.dirty : rx.dirty + i - 1 # Upto
        BY <2>1
      <4> QED
        BY <2>1, <2>3, <4>1, <4>2, <4>3
    <3>3. Len(Queue) < MAX_RX_DCBS
      BY <2>1, <2>3, <3>2
    <3>4. Ring!Accept(Upto)
      BY <1>0, <2>0, <3>2, <3>3
    <3> QED
      BY <3>1, <3>4 DEF Ring!Next
  <2> QED
    BY <1>2, <2>2, <2>3 DEF Grown
<1>3. CASE Took
  <2>0. ~in_reset /\ ~in_reset' /\ resets' = resets
    BY <1>3 DEF Took
  <2>1. /\ rx.dirty \in 0 .. MAX_RX_DCBS /\ Upto \in rx.dirty .. MAX_RX_DCBS
        /\ rx'.dirty \in 0 .. MAX_RX_DCBS /\ Upto' \in rx'.dirty .. MAX_RX_DCBS
        /\ rx.dirty < Upto
        /\ Queue = Line(rx.dirty, Upto) /\ Queue' = Line(rx'.dirty, Upto')
    BY <1>3, <2>0, QueueIsLine, QueueIsLineNext DEF Took, Line, QueueLine
  <2>2. Queue # <<>> /\ Line(rx.dirty + 1, Upto) = Tail(Queue)
    BY <2>1, LineFacts
  <2>3. Queue' = Line(rx.dirty + 1, Upto)
    <3>1. CASE rx'.dirty = rx.dirty + 1 /\ Upto' = Upto
      BY <2>1, <3>1
    <3>2. CASE rx.dirty + 1 = Upto /\ Upto' = rx'.dirty
      <4>1. Line(rx'.dirty, Upto') = <<>>
        BY <2>1, <3>2, LineFacts
      <4>2. rx.dirty + 1 \in 0 .. MAX_RX_DCBS /\ Upto \in rx.dirty + 1 .. MAX_RX_DCBS
        BY <2>1, <3>2
      <4>3. Line(rx.dirty + 1, Upto) = <<>>
        BY <3>2, <4>2, LineFacts
      <4> QED
        BY <2>1, <4>1, <4>3
    <3> QED
      BY <1>3, <3>1, <3>2 DEF Took
  <2> QED
    BY <1>0, <2>0, <2>2, <2>3 DEF Ring!Next
<1>4. CASE Dropped
  <2>1. Queue' = <<>>
    BY <1>4, QueueEmptyNext DEF Dropped, Queue, QueueNone
  <2> QED
    BY <1>0, <1>4, <2>1 DEF Dropped, Ring!Next
<1> QED
  BY <1>1, <1>2, <1>3, <1>4

(* Packets are taken once each and in the order the hardware received      *)
(* them (bkn_do_skb_rx, bkn_rx_chain_done, bkn_rx_restart): every step of  *)
(* the driver and of the hardware is one of the queue, or none.            *)
THEOREM RxReceivedInOrder ==
    ASSUME ~ResetRaces, QuietReset
    PROVE  Spec => ReceivedInOrder
<1>1. Init => Ring!Init
  <2> SUFFICES ASSUME Init
               PROVE  Ring!Init
    OBVIOUS
  <2>1. NoneDone(rx) /\ resets = 0
    BY InitInv, Zenon DEF Init
  <2> QED
    BY <2>1, QueueEmpty DEF Ring!Init, Queue, QueueNone
<1>2. RxIInv /\ [Next]_vars => [Ring!Next]_(Ring!vars)
  <2> SUFFICES ASSUME RxIInv, [Next]_vars
               PROVE  [Ring!Next]_(Ring!vars)
    OBVIOUS
  <2>1. CASE Next
    BY <2>1, NextInv, QueueStep
  <2>2. CASE UNCHANGED vars
    <3>1. Silent
      BY <2>2 DEF vars, Silent
    <3> QED
      BY <2>2, <3>1, StutterInv, QueueStep
  <2> QED
    BY <2>1, <2>2
<1> QED
  BY <1>1, <1>2, RxInvariant, PTL DEF Spec, ReceivedInOrder, Ring!Spec

=============================================================================
