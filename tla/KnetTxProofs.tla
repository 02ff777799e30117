---------------------------- MODULE KnetTxProofs ----------------------------
(* Proofs about KnetTx for every ring size, set of skbs and interfaces: of  *)
(* the skbs in the ring, of the DMA channel, and that it implements the     *)
(* queue of PacketQueue.                                                    *)
EXTENDS KnetTx, FiniteSetTheorems, SequenceTheorems, WellFoundedInduction, TLAPS

USE RingAssumption, SkbAssumption, ParamAssumption, BoundAssumption

(***************************************************************************)
(* The inductive invariant of type correctness and skb ownership: cur is   *)
(* where the free DCBs begin, one DCB at least is free, and the last DCB   *)
(* of the ring is never chained (the hardware would run off the ring).     *)
(***************************************************************************)
RingOK(s) ==
    /\ s \in SinfoType
    /\ s.free >= 1
    /\ s.cur = Wrap(s.dirty + Used(s))
    /\ ~s.chain[MAX_TX_DCBS - 1]

(* The skbs of the driver are in the ring, in the PTP queue or in X. *)
Owns(s, X) ==
    /\ \A i \in InUse(s) : s.skb[i] \in Skbs
    /\ \A i, j \in InUse(s) : s.skb[i] = s.skb[j] => i = j
    /\ RingSkbs(s) \cap s.tx_ptp_queue = {}
    /\ X \cap (RingSkbs(s) \cup s.tx_ptp_queue) = {}
    /\ s.owned = RingSkbs(s) \cup s.tx_ptp_queue \cup X

OneSkbEach == \A d, e \in Netifs : inflight[d] = inflight[e] => d = e \/ inflight[d] = NoSkb

RingIInv == TypeOK /\ RingOK(sinfo) /\ Owns(sinfo, InFlightSkbs) /\ OneSkbEach

(* What most functions leave alone: where the skbs are. *)
SameRing(s, t) ==
    /\ t \in SinfoType
    /\ t.free = s.free /\ t.cur = s.cur /\ t.dirty = s.dirty
    /\ t.skb = s.skb
    /\ t.chain[MAX_TX_DCBS - 1] = s.chain[MAX_TX_DCBS - 1]
    /\ t.tx_ptp_queue = s.tx_ptp_queue /\ t.owned = s.owned

LEMMA SameRingKeeps ==
    ASSUME NEW s \in SinfoType, NEW t, SameRing(s, t)
    PROVE  /\ RingOK(s) => RingOK(t)
           /\ \A X : Owns(s, X) => Owns(t, X)
BY DEF SameRing, RingOK, Owns, Used, InUse, Oldest, Pos, RingSkbs

LEMMA SameRingTrans ==
    ASSUME NEW s, NEW t, NEW u, SameRing(s, t), SameRing(t, u)
    PROVE  SameRing(s, u)
BY DEF SameRing

-----------------------------------------------------------------------------
(* The functions that leave the ring alone. *)

LEMMA DcbFacts == /\ 0 \in Dcbs
                  /\ MAX_TX_DCBS - 1 \in Dcbs
                  /\ Idle \in DmaStates
BY DEF Dcbs, Idle, DmaStates

LEMMA StartDmaFrame ==
    ASSUME NEW s \in SinfoType, NEW st \in {"skb", "api"}, NEW i \in Dcbs
    PROVE  SameRing(s, StartDma(s, st, i))
BY DcbFacts DEF SameRing, StartDma, SinfoType, DmaStates, Idle

LEMMA SuspendFrame ==
    ASSUME NEW s \in SinfoType
    PROVE  SameRing(s, bkn_suspend_tx(s))
BY DEF SameRing, bkn_suspend_tx, SinfoType

LEMMA ResumeFrame ==
    ASSUME NEW s \in SinfoType
    PROVE  SameRing(s, bkn_resume_tx(s))
BY DEF SameRing, bkn_resume_tx, SinfoType

LEMMA ApiTxFrame ==
    ASSUME NEW s \in SinfoType
    PROVE  SameRing(s, bkn_api_tx(s))
<1> DEFINE t == [s EXCEPT !.api_active = TRUE, !.api_dcb_list = @ - 1]
<1>1. CASE s.api_dcb_list = 0
  BY <1>1 DEF SameRing, bkn_api_tx, SinfoType
<1>2. CASE s.api_dcb_list # 0
  <2>1. s.api_dcb_list - 1 \in 0 .. MAX_API_CHAINS
    BY <1>2 DEF SinfoType
  <2>2. SameRing(s, t)
    BY <2>1 DEF SameRing, SinfoType
  <2>3. SameRing(t, StartDma(t, "api", 0))
    BY <2>2, DcbFacts, StartDmaFrame DEF SameRing
  <2> QED
    BY <1>2, <2>2, <2>3, SameRingTrans DEF bkn_api_tx
<1> QED
  BY <1>1, <1>2

LEMMA CheckResourcesFrame ==
    ASSUME NEW s \in SinfoType
    PROVE  SameRing(s, CheckResources(s))
BY SuspendFrame DEF CheckResources, SameRing

LEMMA DmaStartFrame ==
    ASSUME NEW s \in SinfoType
    PROVE  SameRing(s, bkn_tx_dma_start(s))
<1>1. s.cur \in Dcbs
  BY DEF SinfoType
<1> QED
  BY <1>1, StartDmaFrame DEF bkn_tx_dma_start, SameRing

LEMMA ChainPendingFrame ==
    ASSUME NEW s \in SinfoType
    PROVE  SameRing(s, ChainPending(s))
<1> DEFINE f == [i \in Dcbs |->
                   s.chain[i] \/ (i - s.dirty \in 0 .. Used(s) - 2 /\ i < MAX_TX_DCBS - 1)]
<1>1. s.chain \in [Dcbs -> BOOLEAN]
  BY DEF SinfoType
<1>2. f \in [Dcbs -> BOOLEAN] /\ f[MAX_TX_DCBS - 1] = s.chain[MAX_TX_DCBS - 1]
  BY <1>1, DcbFacts
<1>3. ChainPending(s) = [s EXCEPT !.chain = f]
  BY DEF ChainPending, SinfoType
<1> QED
  BY <1>2, <1>3 DEF SameRing, SinfoType

LEMMA AbortFrame ==
    ASSUME NEW s \in SinfoType, NEW stale \in BOOLEAN
    PROVE  SameRing(s, bkn_dma_abort_tx(s, stale))
<1>1. (stale /\ s.chain_done /\ s.dma = Idle) \in BOOLEAN
  OBVIOUS
<1>2. 0 \in 0 .. MAX_API_CHAINS
  OBVIOUS
<1> QED
  BY <1>1, <1>2, DcbFacts DEF SameRing, bkn_dma_abort_tx, SinfoType

LEMMA ChainDoneFrame ==
    ASSUME NEW s \in SinfoType
    PROVE  SameRing(s, bkn_tx_chain_done(s))
<1> DEFINE s1 == [s EXCEPT !.irq = FALSE]
           s0 == [s1 EXCEPT !.api_done_event = TRUE]
           s2 == IF s.api_active THEN bkn_api_tx(s0) ELSE s1
           s3 == bkn_api_tx(s2)
           c == ChainPending(s2)
           t == StartDma(c, "skb", s2.dirty)
<1>1. SameRing(s, s1)
  BY DEF SameRing, SinfoType
<1>2. SameRing(s, s0)
  BY DEF SameRing, SinfoType
<1>3. SameRing(s, s2)
  <2>1. SameRing(s0, bkn_api_tx(s0))
    BY <1>2, ApiTxFrame DEF SameRing
  <2> QED
    BY <1>1, <1>2, <2>1, SameRingTrans
<1> HIDE DEF s2
<1>4. SameRing(s, s3)
  BY <1>3, ApiTxFrame, SameRingTrans DEF SameRing
<1>5. SameRing(s, bkn_resume_tx(s3))
  BY <1>4, ResumeFrame, SameRingTrans DEF SameRing
<1>6. SameRing(s, c)
  BY <1>3, ChainPendingFrame, SameRingTrans DEF SameRing
<1>7. SameRing(s, t)
  <2>1. s2.dirty \in Dcbs
    BY <1>3 DEF SameRing, SinfoType
  <2>2. SameRing(c, t)
    BY <1>6, <2>1, StartDmaFrame DEF SameRing
  <2> QED
    BY <1>6, <2>2, SameRingTrans
<1>8. SameRing(s, bkn_resume_tx(t))
  BY <1>7, ResumeFrame, SameRingTrans DEF SameRing
<1> QED
  BY <1>3, <1>4, <1>5, <1>8 DEF bkn_tx_chain_done, s2

-----------------------------------------------------------------------------
(* The arithmetic of the ring. *)

LEMMA RingRange ==
    ASSUME NEW s, RingOK(s)
    PROVE  /\ s.free \in 1 .. MAX_TX_DCBS
           /\ s.dirty \in 0 .. MAX_TX_DCBS - 1
           /\ s.cur \in 0 .. MAX_TX_DCBS - 1
           /\ s.skb \in [Dcbs -> Skbs \cup {NoSkb}]
           /\ s.chain \in [Dcbs -> BOOLEAN]
           /\ s.done \in [Dcbs -> BOOLEAN]
           /\ s.tx_ptp_queue \subseteq Skbs
           /\ s.owned \subseteq Skbs
BY DEF RingOK, SinfoType, Dcbs

LEMMA RingFacts ==
    ASSUME NEW s, RingOK(s)
    PROVE  /\ Used(s) \in 0 .. MAX_TX_DCBS - 1
           /\ s.cur \in Dcbs /\ s.dirty \in Dcbs
           /\ s.cur \notin InUse(s)
           /\ \A i \in Dcbs : Pos(s, i) \in Dcbs
           /\ \A i \in Dcbs : Wrap(s.dirty + Pos(s, i)) = i
           /\ \A i, j \in Dcbs : Pos(s, i) = Pos(s, j) => i = j
           /\ InUse(s) \subseteq Dcbs
<1>1. s.cur = Wrap(s.dirty + Used(s))
  BY DEF RingOK
<1>2. s.cur \notin InUse(s)
  BY <1>1, RingRange DEF Dcbs, Used, Wrap, Pos, InUse, Oldest
<1>3. \A i \in Dcbs : Pos(s, i) \in Dcbs /\ Wrap(s.dirty + Pos(s, i)) = i
  BY RingRange DEF Dcbs, Wrap, Pos
<1>4. \A i, j \in Dcbs : Pos(s, i) = Pos(s, j) => i = j
  BY RingRange DEF Dcbs, Pos
<1> QED
  BY <1>2, <1>3, <1>4, RingRange DEF Dcbs, Used, InUse, Oldest

(* Reclaiming n DCBs. *)
LEMMA ReclaimRing ==
    ASSUME NEW s, RingOK(s), NEW n \in 0 .. Used(s)
    PROVE  LET t == Reclaim(s, n)
           IN  /\ RingOK(t)
               /\ t.free = s.free + n /\ t.dirty = Wrap(s.dirty + n)
               /\ InUse(t) = InUse(s) \ Oldest(s, n)
               /\ \A i \in InUse(t) : Pos(t, i) = Pos(s, i) - n
<1> DEFINE t == Reclaim(s, n)
           skbs == {s.skb[i] : i \in Oldest(s, n)} \ {NoSkb}
           f == [i \in Dcbs |-> IF i \in Oldest(s, n) THEN NoSkb ELSE s.skb[i]]
           g == [i \in Dcbs |-> s.done[i] /\ i \notin Oldest(s, n)]
           q == s.tx_ptp_queue \cup (skbs \cap TsSkbs)
           o == s.owned \ (skbs \ TsSkbs)
           e == Wrap(s.dirty + n)
           k == s.free + n
<1>1. e \in Dcbs /\ k \in 0 .. MAX_TX_DCBS /\ k >= 1
  BY RingRange DEF Dcbs, Used, Wrap
<1>2. q \in SUBSET Skbs /\ o \in SUBSET Skbs
  BY RingRange
<1>3. f \in [Dcbs -> Skbs \cup {NoSkb}] /\ g \in [Dcbs -> BOOLEAN]
  BY RingRange
<1>4. t = [s EXCEPT !.skb = f, !.done = g, !.tx_ptp_queue = q, !.owned = o,
                    !.dirty = e, !.free = k]
  BY DEF Reclaim, RingOK, SinfoType
<1> HIDE DEF f, g, q, o, e, k, t
<1>5. t \in SinfoType
  BY <1>1, <1>2, <1>3, <1>4 DEF RingOK, SinfoType
<1>6. t.free = k /\ t.dirty = e /\ t.cur = s.cur /\ t.chain = s.chain
  BY <1>4 DEF RingOK, SinfoType
<1>7. RingOK(t)
  <2>1. s.cur = Wrap(s.dirty + Used(s)) /\ ~s.chain[MAX_TX_DCBS - 1]
    BY DEF RingOK
  <2>2. Wrap(s.dirty + Used(s)) = Wrap(e + (MAX_TX_DCBS - k))
    BY RingRange DEF Used, Wrap, e, k
  <2> QED
    BY <1>1, <1>5, <1>6, <2>1, <2>2 DEF RingOK, Used
<1>8. ASSUME NEW i \in Dcbs
      PROVE  /\ Pos(t, i) < Used(t) <=> Pos(s, i) < Used(s) /\ ~(Pos(s, i) < n)
             /\ Pos(t, i) < Used(t) => Pos(t, i) = Pos(s, i) - n
  <2>1. /\ s.free \in 1 .. MAX_TX_DCBS /\ s.dirty \in 0 .. MAX_TX_DCBS - 1
        /\ n \in 0 .. MAX_TX_DCBS - s.free /\ i \in 0 .. MAX_TX_DCBS - 1
    BY RingRange DEF Dcbs, Used
  <2>2. t.dirty = Wrap(s.dirty + n) /\ Used(t) = MAX_TX_DCBS - (s.free + n)
    BY <1>6 DEF Used, e, k
  <2> DEFINE p == IF i >= s.dirty THEN i - s.dirty ELSE i - s.dirty + MAX_TX_DCBS
             w == Wrap(s.dirty + n)
             r == IF i >= w THEN i - w ELSE i - w + MAX_TX_DCBS
  <2>3. /\ r < MAX_TX_DCBS - (s.free + n) <=> p < MAX_TX_DCBS - s.free /\ ~(p < n)
        /\ r < MAX_TX_DCBS - (s.free + n) => r = p - n
    <3> DEFINE fr == s.free
               di == s.dirty
    <3> fr \in 1 .. MAX_TX_DCBS /\ di \in 0 .. MAX_TX_DCBS - 1 /\ n \in 0 .. MAX_TX_DCBS - fr
      BY <2>1
    <3> HIDE DEF fr, di
    <3> QED
      BY <2>1 DEF Wrap
  <2>4. Pos(s, i) = p /\ Pos(t, i) = r /\ Used(s) = MAX_TX_DCBS - s.free
    BY <2>2 DEF Pos, Used
  <2> HIDE DEF p, w, r
  <2> QED
    BY <2>2, <2>3, <2>4
<1>9. InUse(t) = InUse(s) \ Oldest(s, n)
  BY <1>8 DEF InUse, Oldest
<1> QED
  BY <1>6, <1>7, <1>8, <1>9 DEF t, e, k, InUse, Oldest

LEMMA CleanRing ==
    ASSUME NEW s, RingOK(s)
    PROVE  LET t == bkn_clean_tx_dcbs(s)
           IN  RingOK(t) /\ t.free = MAX_TX_DCBS
<1> DEFINE t == bkn_clean_tx_dcbs(s)
           f == [i \in Dcbs |-> IF i \in InUse(s) THEN NoSkb ELSE s.skb[i]]
<1>1. Wrap(s.dirty + Used(s)) \in Dcbs /\ MAX_TX_DCBS \in 0 .. MAX_TX_DCBS
  BY RingRange DEF Dcbs, Used, Wrap
<1>2. f \in [Dcbs -> Skbs \cup {NoSkb}] /\ s.owned \ RingSkbs(s) \in SUBSET Skbs
  BY RingRange
<1>3. t = [s EXCEPT !.skb = f, !.owned = s.owned \ RingSkbs(s),
                    !.dirty = Wrap(s.dirty + Used(s)),
                    !.free = MAX_TX_DCBS, !.api_active = FALSE]
  BY DEF bkn_clean_tx_dcbs, RingOK, SinfoType
<1> HIDE DEF f
<1>4. /\ t \in SinfoType
      /\ t.free = MAX_TX_DCBS /\ t.dirty = Wrap(s.dirty + Used(s))
      /\ t.cur = s.cur /\ t.chain = s.chain
  BY <1>1, <1>2, <1>3 DEF RingOK, SinfoType
<1> HIDE DEF t
<1> QED
  BY <1>1, <1>4, RingRange DEF t, RingOK, Dcbs, Used, Wrap

-----------------------------------------------------------------------------
(* The functions that move skbs. *)

LEMMA TakeSkb ==
    ASSUME NEW s, NEW X, RingOK(s), Owns(s, X), NEW p \in Skbs, p \notin s.owned
    PROVE  LET t == [s EXCEPT !.owned = @ \cup {p}]
           IN  RingOK(t) /\ Owns(t, X \cup {p})
<1> DEFINE t == [s EXCEPT !.owned = @ \cup {p}]
<1>1. s.owned \cup {p} \in SUBSET Skbs
  BY RingRange
<1>2. /\ t \in SinfoType /\ t.owned = s.owned \cup {p}
      /\ t.free = s.free /\ t.cur = s.cur /\ t.dirty = s.dirty /\ t.skb = s.skb
      /\ t.chain = s.chain /\ t.tx_ptp_queue = s.tx_ptp_queue
  BY <1>1 DEF RingOK, SinfoType
<1> HIDE DEF t
<1>3. RingOK(t) /\ InUse(t) = InUse(s) /\ RingSkbs(t) = RingSkbs(s)
  BY <1>2 DEF RingOK, Used, InUse, Oldest, Pos, RingSkbs
<1>4. Owns(t, X \cup {p})
  BY <1>2, <1>3 DEF Owns
<1> QED
  BY <1>3, <1>4 DEF t

LEMMA GiveSkbBack ==
    ASSUME NEW s, NEW X, RingOK(s), Owns(s, X), NEW p \in X
    PROVE  RingOK(FreeSkb(s, p)) /\ Owns(FreeSkb(s, p), X \ {p})
<1> DEFINE t == FreeSkb(s, p)
<1>1. s.owned \ {p} \in SUBSET Skbs
  BY RingRange
<1>2. /\ t \in SinfoType /\ t.owned = s.owned \ {p}
      /\ t.free = s.free /\ t.cur = s.cur /\ t.dirty = s.dirty /\ t.skb = s.skb
      /\ t.chain = s.chain /\ t.tx_ptp_queue = s.tx_ptp_queue
  BY <1>1 DEF RingOK, SinfoType, FreeSkb
<1> HIDE DEF t
<1>3. RingOK(t) /\ InUse(t) = InUse(s) /\ RingSkbs(t) = RingSkbs(s)
  BY <1>2 DEF RingOK, Used, InUse, Oldest, Pos, RingSkbs
<1>4. Owns(t, X \ {p})
  BY <1>2, <1>3 DEF Owns
<1> QED
  BY <1>3, <1>4 DEF t

(* What bkn_tx writes into the descriptor and the DCB at cur. *)
ClearDcb(s) == [s EXCEPT !.chain[s.cur] = FALSE, !.done[s.cur] = FALSE]
FillDcb(s, p) == [s EXCEPT !.skb[s.cur] = p, !.chain[s.cur] = FALSE, !.done[s.cur] = FALSE]
TakeDcb(s) == [s EXCEPT !.cur = Wrap(@ + 1), !.free = @ - 1]

LEMMA ClearDcbRing ==
    ASSUME NEW s, NEW X, RingOK(s), Owns(s, X)
    PROVE  RingOK(ClearDcb(s)) /\ Owns(ClearDcb(s), X)
<1> DEFINE t == ClearDcb(s)
<1>1. /\ s \in SinfoType /\ s.cur \in Dcbs
      /\ s.chain \in [Dcbs -> BOOLEAN] /\ s.done \in [Dcbs -> BOOLEAN]
  BY RingRange DEF RingOK, Dcbs
<1>2. /\ [s.chain EXCEPT ![s.cur] = FALSE] \in [Dcbs -> BOOLEAN]
      /\ [s.done EXCEPT ![s.cur] = FALSE] \in [Dcbs -> BOOLEAN]
  BY <1>1
<1>3. t = [s EXCEPT !.chain = [s.chain EXCEPT ![s.cur] = FALSE],
                    !.done = [s.done EXCEPT ![s.cur] = FALSE]]
  BY <1>1 DEF ClearDcb, SinfoType
<1>4. ~[s.chain EXCEPT ![s.cur] = FALSE][MAX_TX_DCBS - 1]
  BY <1>1, DcbFacts DEF RingOK
<1> DEFINE c == [s.chain EXCEPT ![s.cur] = FALSE]
           d == [s.done EXCEPT ![s.cur] = FALSE]
<1> HIDE DEF t, c, d
<1>5. /\ t \in SinfoType /\ t.owned = s.owned
      /\ t.free = s.free /\ t.cur = s.cur /\ t.dirty = s.dirty /\ t.skb = s.skb
      /\ t.chain = c /\ t.tx_ptp_queue = s.tx_ptp_queue
  BY <1>1, <1>2, <1>3 DEF SinfoType, c, d
<1>6. RingOK(t) /\ InUse(t) = InUse(s) /\ RingSkbs(t) = RingSkbs(s)
  BY <1>4, <1>5 DEF RingOK, Used, InUse, Oldest, Pos, RingSkbs, c
<1>7. Owns(t, X)
  BY <1>5, <1>6 DEF Owns
<1> QED
  BY <1>6, <1>7 DEF t

LEMMA FillDcbRing ==
    ASSUME NEW s, NEW X, RingOK(s), Owns(s, X), NEW p \in Skbs
    PROVE  LET t == FillDcb(s, p)
           IN  /\ RingOK(t) /\ Owns(t, X)
               /\ t.skb = [s.skb EXCEPT ![s.cur] = p]
               /\ t.free = s.free /\ t.cur = s.cur /\ t.dirty = s.dirty
<1> DEFINE t == FillDcb(s, p)
           c == [s.chain EXCEPT ![s.cur] = FALSE]
           d == [s.done EXCEPT ![s.cur] = FALSE]
           f == [s.skb EXCEPT ![s.cur] = p]
<1>1. /\ s \in SinfoType /\ s.cur \in Dcbs /\ s.cur \notin InUse(s)
      /\ s.chain \in [Dcbs -> BOOLEAN] /\ s.done \in [Dcbs -> BOOLEAN]
      /\ s.skb \in [Dcbs -> Skbs \cup {NoSkb}]
  BY RingRange, RingFacts DEF RingOK
<1>2. /\ c \in [Dcbs -> BOOLEAN] /\ d \in [Dcbs -> BOOLEAN]
      /\ f \in [Dcbs -> Skbs \cup {NoSkb}]
  BY <1>1
<1>3. t = [s EXCEPT !.skb = f, !.chain = c, !.done = d]
  BY <1>1 DEF FillDcb, SinfoType
<1>4. ~c[MAX_TX_DCBS - 1] /\ \A i \in InUse(s) : f[i] = s.skb[i]
  BY <1>1, DcbFacts, RingFacts DEF RingOK
<1> HIDE DEF t, c, d, f
<1>5. /\ t \in SinfoType /\ t.owned = s.owned
      /\ t.free = s.free /\ t.cur = s.cur /\ t.dirty = s.dirty /\ t.skb = f
      /\ t.chain = c /\ t.tx_ptp_queue = s.tx_ptp_queue
  BY <1>1, <1>2, <1>3 DEF SinfoType
<1>6. RingOK(t) /\ InUse(t) = InUse(s)
  BY <1>4, <1>5 DEF RingOK, Used, InUse, Oldest, Pos
<1>7. RingSkbs(t) = RingSkbs(s)
  BY <1>4, <1>5, <1>6 DEF RingSkbs
<1>8. Owns(t, X)
  BY <1>4, <1>5, <1>6, <1>7 DEF Owns
<1> QED
  BY <1>5, <1>6, <1>8 DEF t, f

(* The DCB at cur joins the ring with its skb. *)
LEMMA TakeDcbRing ==
    ASSUME NEW s, NEW X, RingOK(s), Owns(s, X), s.free > 1,
           NEW p \in X, p \in Skbs, s.skb[s.cur] = p
    PROVE  LET t == TakeDcb(s)
           IN  /\ RingOK(t) /\ Owns(t, X \ {p})
               /\ InUse(t) = InUse(s) \cup {s.cur}
<1> DEFINE t == TakeDcb(s)
<1>1. /\ s \in SinfoType /\ s.cur \in Dcbs /\ s.cur \notin InUse(s)
      /\ s.cur = Wrap(s.dirty + Used(s))
  BY RingRange, RingFacts DEF RingOK
<1>2. Wrap(s.cur + 1) \in Dcbs /\ s.free - 1 \in 0 .. MAX_TX_DCBS /\ s.free - 1 >= 1
  BY RingRange DEF Dcbs, Wrap
<1>3. /\ t \in SinfoType /\ t.owned = s.owned
      /\ t.free = s.free - 1 /\ t.cur = Wrap(s.cur + 1) /\ t.dirty = s.dirty
      /\ t.skb = s.skb /\ t.chain = s.chain /\ t.tx_ptp_queue = s.tx_ptp_queue
  BY <1>1, <1>2 DEF SinfoType, TakeDcb
<1> HIDE DEF t
<1>4. Wrap(s.cur + 1) = Wrap(s.dirty + Used(t))
  BY <1>1, <1>3, RingRange DEF Wrap, Used
<1>5. RingOK(t)
  BY <1>2, <1>3, <1>4 DEF RingOK
<1>6. \A i \in Dcbs : Pos(s, i) < Used(t) <=> Pos(s, i) < Used(s) \/ i = s.cur
  <2>1. Used(t) = Used(s) + 1 /\ Used(s) \in 0 .. MAX_TX_DCBS - 1
    BY <1>3, RingRange DEF Used
  <2>2. Pos(s, s.cur) = Used(s)
    BY <1>1, RingRange DEF Wrap, Used, Pos
  <2>3. \A i \in Dcbs : Pos(s, i) = Used(s) => i = s.cur
    BY <1>1, <2>2, RingFacts
  <2>4. \A i \in Dcbs : Pos(s, i) \in 0 .. MAX_TX_DCBS - 1
    BY RingFacts DEF Dcbs
  <2> QED
    BY <2>1, <2>2, <2>3, <2>4
<1>7. InUse(t) = InUse(s) \cup {s.cur}
  BY <1>1, <1>3, <1>6 DEF InUse, Oldest, Pos
<1>8. RingSkbs(t) = RingSkbs(s) \cup {p}
  BY <1>3, <1>7 DEF RingSkbs
<1>9. \A i, j \in InUse(t) : t.skb[i] = t.skb[j] => i = j
  <2>1. p \notin RingSkbs(s)
    BY DEF Owns
  <2>2. \A i \in InUse(s) : s.skb[i] # p
    BY <2>1 DEF RingSkbs
  <2> QED
    BY <1>3, <1>7, <2>2 DEF Owns
<1>10. Owns(t, X \ {p})
  BY <1>3, <1>7, <1>8, <1>9 DEF Owns
<1> QED
  BY <1>5, <1>7, <1>10 DEF t

LEMMA ReclaimOwns ==
    ASSUME NEW s, NEW X, RingOK(s), Owns(s, X), NEW n \in 0 .. Used(s)
    PROVE  Owns(Reclaim(s, n), X)
<1> DEFINE t == Reclaim(s, n)
           skbs == {s.skb[i] : i \in Oldest(s, n)} \ {NoSkb}
<1>1. /\ t.skb = [i \in Dcbs |-> IF i \in Oldest(s, n) THEN NoSkb ELSE s.skb[i]]
      /\ t.tx_ptp_queue = s.tx_ptp_queue \cup (skbs \cap TsSkbs)
      /\ t.owned = s.owned \ (skbs \ TsSkbs)
  BY DEF Reclaim, RingOK, SinfoType
<1>2. InUse(t) = InUse(s) \ Oldest(s, n)
  BY ReclaimRing
<1> HIDE DEF t
<1>3. Oldest(s, n) \subseteq InUse(s) /\ InUse(s) \subseteq Dcbs
  BY RingRange, RingFacts DEF Oldest, InUse, Used, Pos, Dcbs
<1>4. \A i \in InUse(t) : t.skb[i] = s.skb[i]
  BY <1>1, <1>2, <1>3
<1>5. skbs \subseteq RingSkbs(s)
  BY <1>3 DEF RingSkbs
<1>6. RingSkbs(t) = RingSkbs(s) \ skbs
  <2>1. ASSUME NEW i \in InUse(t) PROVE s.skb[i] \notin skbs
    BY <1>2, <1>3 DEF Owns
  <2> HIDE DEF skbs
  <2>2. RingSkbs(t) \subseteq RingSkbs(s) \ skbs
    BY <1>2, <1>4, <2>1 DEF RingSkbs
  <2>3. RingSkbs(s) \ skbs \subseteq RingSkbs(t)
    BY <1>2, <1>4 DEF RingSkbs, skbs
  <2> QED
    BY <2>2, <2>3
<1> HIDE DEF skbs
<1>7. \A i \in InUse(t) : t.skb[i] \in Skbs
  BY <1>2, <1>4 DEF Owns
<1>8. \A i, j \in InUse(t) : t.skb[i] = t.skb[j] => i = j
  BY <1>2, <1>4 DEF Owns
<1> QED
  BY <1>1, <1>5, <1>6, <1>7, <1>8 DEF Owns, t

LEMMA CleanOwns ==
    ASSUME NEW s, NEW X, RingOK(s), Owns(s, X)
    PROVE  LET t == bkn_clean_tx_dcbs(s)
           IN  Owns(t, X) /\ t.tx_ptp_queue = s.tx_ptp_queue /\ RingSkbs(t) = {}
<1> DEFINE t == bkn_clean_tx_dcbs(s)
<1>1. /\ t.tx_ptp_queue = s.tx_ptp_queue /\ t.owned = s.owned \ RingSkbs(s)
  BY DEF bkn_clean_tx_dcbs, RingOK, SinfoType
<1>2. t.free = MAX_TX_DCBS /\ RingOK(t)
  BY CleanRing
<1> HIDE DEF t
<1>3. InUse(t) = {}
  BY <1>2, RingRange DEF InUse, Oldest, Used, Pos, Dcbs
<1>4. RingSkbs(t) = {}
  BY <1>3 DEF RingSkbs
<1> QED
  BY <1>1, <1>3, <1>4 DEF Owns, t

-----------------------------------------------------------------------------
(* The invariant holds initially and every action preserves it. *)

LEMMA RingInit == Init => RingIInv
<1> SUFFICES ASSUME Init PROVE RingIInv
  OBVIOUS
<1>1. sinfo \in SinfoType
  BY DcbFacts DEF Init, SinfoType
<1>2. RingOK(sinfo)
  BY <1>1, DcbFacts DEF Init, RingOK, Used, Wrap
<1>3. InUse(sinfo) = {}
  BY DEF Init, InUse, Oldest, Used, Pos, Dcbs
<1>4. RingSkbs(sinfo) = {} /\ InFlightSkbs = {}
  BY <1>3 DEF Init, RingSkbs, InFlightSkbs
<1>5. sinfo.owned = {} /\ sinfo.tx_ptp_queue = {}
  BY DEF Init
<1>6. Owns(sinfo, InFlightSkbs)
  BY <1>3, <1>4, <1>5 DEF Owns
<1>7. TypeOK
  <2>1. /\ inflight \in [Netifs -> Skbs \cup {NoSkb}]
        /\ netif_up \in [Netifs -> BOOLEAN]
    BY DEF Init
  <2>2. base_up \in BOOLEAN /\ latched \in BOOLEAN
    BY DEF Init
  <2>3. resets \in 0 .. MAX_RESETS
    BY DEF Init
  <2> QED
    BY <1>1, <2>1, <2>2, <2>3 DEF TypeOK
<1> QED
  BY <1>2, <1>6, <1>7 DEF RingIInv, OneSkbEach, Init

(* A step that leaves the ring and the calls in flight alone. *)
LEMMA FrameStep ==
    ASSUME RingIInv, SameRing(sinfo, sinfo'), UNCHANGED inflight,
           netif_up' \in [Netifs -> BOOLEAN], base_up' \in BOOLEAN,
           latched' \in BOOLEAN, resets' \in 0 .. MAX_RESETS
    PROVE  RingIInv'
<1>1. RingOK(sinfo') /\ Owns(sinfo', InFlightSkbs)
  BY SameRingKeeps DEF RingIInv, TypeOK
<1>2. InFlightSkbs' = InFlightSkbs
  BY DEF InFlightSkbs
<1> QED
  BY <1>1, <1>2 DEF RingIInv, TypeOK, RingOK, OneSkbEach

(* A step that changes the ring but not the calls in flight. *)
LEMMA RingStep ==
    ASSUME RingIInv, RingOK(sinfo'), Owns(sinfo', InFlightSkbs),
           UNCHANGED <<inflight, netif_up, base_up>>,
           latched' \in BOOLEAN, resets' \in 0 .. MAX_RESETS
    PROVE  RingIInv'
<1>1. InFlightSkbs' = InFlightSkbs
  BY DEF InFlightSkbs
<1> QED
  BY <1>1 DEF RingIInv, TypeOK, RingOK, OneSkbEach

LEMMA StackXmitStep ==
    ASSUME RingIInv, NEW d \in Netifs, NEW p \in Skbs, StackXmit(d, p)
    PROVE  RingIInv'
<1> USE DEF RingIInv
<1>1. RingOK(sinfo') /\ Owns(sinfo', InFlightSkbs \cup {p})
  BY TakeSkb DEF StackXmit
<1>2. inflight' = [inflight EXCEPT ![d] = p] /\ inflight[d] = NoSkb
  BY DEF StackXmit
<1>3. InFlightSkbs' = InFlightSkbs \cup {p}
  BY <1>2 DEF InFlightSkbs, TypeOK
<1>4. p \notin InFlightSkbs
  BY DEF StackXmit, Owns
<1>5. OneSkbEach'
  BY <1>2, <1>4 DEF OneSkbEach, InFlightSkbs, TypeOK
<1>6. TypeOK'
  BY <1>1, <1>2 DEF TypeOK, RingOK, StackXmit
<1> QED
  BY <1>1, <1>3, <1>5, <1>6

LEMMA bkn_txStep ==
    ASSUME RingIInv, NEW d \in Netifs, bkn_tx(d)
    PROVE  RingIInv'
<1> DEFINE p == inflight[d]
           s == sinfo
           X == InFlightSkbs
<1>1. /\ RingOK(s) /\ Owns(s, X)
      /\ p \in X /\ p \in Skbs
      /\ inflight' = [inflight EXCEPT ![d] = NoSkb]
  BY DEF RingIInv, TypeOK, InFlightSkbs, bkn_tx
<1>2. InFlightSkbs' = X \ {p}
  BY <1>1 DEF InFlightSkbs, RingIInv, OneSkbEach, TypeOK
<1>3. TxDrop(p) \/ TxMapError(p) \/ TxEnqueue(p) \/ TxNoResources(p)
  BY DEF bkn_tx
<1> SUFFICES RingOK(sinfo') /\ Owns(sinfo', X \ {p})
  <2>1. OneSkbEach'
    BY <1>1 DEF RingIInv, OneSkbEach, TypeOK
  <2> QED
    BY <1>1, <1>2, <2>1 DEF RingIInv, TypeOK, RingOK, bkn_tx
<1> HIDE DEF p, X
<1>4. CASE TxDrop(p)
  <2>1. CASE sinfo' = FreeSkb(s, p)
    BY <1>1, <2>1, GiveSkbBack
  <2>2. CASE sinfo' = FreeSkb(ClearDcb(s), p)
    <3>1. RingOK(ClearDcb(s)) /\ Owns(ClearDcb(s), X)
      BY <1>1, ClearDcbRing
    <3> QED
      BY <1>1, <2>2, <3>1, GiveSkbBack
  <2> QED
    BY <1>4, <2>1, <2>2 DEF TxDrop, ClearDcb
<1>5. CASE TxMapError(p)
  <2>1. RingOK(FillDcb(s, p)) /\ Owns(FillDcb(s, p), X)
    BY <1>1, FillDcbRing
  <2>2. sinfo' = FreeSkb(FillDcb(s, p), p)
    BY <1>5 DEF TxMapError, FillDcb
  <2> QED
    BY <1>1, <2>1, <2>2, GiveSkbBack
<1>6. CASE TxEnqueue(p)
  <2> DEFINE f == FillDcb(s, p)
             s1 == bkn_tx_dma_start(f)
             s2 == TakeDcb(s1)
  <2>1. /\ RingOK(f) /\ Owns(f, X) /\ f.free > 1 /\ f.skb[f.cur] = p
    <3>1. s.free > 1
      BY <1>6 DEF TxEnqueue
    <3>2. s.cur \in Dcbs /\ s.skb \in [Dcbs -> Skbs \cup {NoSkb}]
      BY <1>1, RingRange, RingFacts
    <3>3. /\ RingOK(f) /\ Owns(f, X)
          /\ f.skb = [s.skb EXCEPT ![s.cur] = p]
          /\ f.free = s.free /\ f.cur = s.cur
      BY <1>1, FillDcbRing
    <3> HIDE DEF f
    <3>4. f.skb[f.cur] = p
      BY <3>2, <3>3
    <3> QED
      BY <3>1, <3>3, <3>4
  <2>2. sinfo' = CheckResources(s2)
    BY <1>6 DEF TxEnqueue, FillDcb, TakeDcb
  <2> HIDE DEF f
  <2>3. SameRing(f, s1) /\ f \in SinfoType
    BY <2>1, DmaStartFrame DEF RingOK
  <2>4. RingOK(s1) /\ Owns(s1, X) /\ s1.free > 1 /\ s1.skb[s1.cur] = p
    BY <2>1, <2>3, SameRingKeeps DEF SameRing
  <2> HIDE DEF s1
  <2>5. RingOK(s2) /\ Owns(s2, X \ {p})
    BY <1>1, <2>4, TakeDcbRing
  <2> HIDE DEF s2
  <2>6. SameRing(s2, CheckResources(s2)) /\ s2 \in SinfoType
    BY <2>5, CheckResourcesFrame DEF RingOK
  <2> QED
    BY <2>2, <2>5, <2>6, SameRingKeeps
<1>7. CASE TxNoResources(p)
  <2> DEFINE f == FreeSkb(s, p)
  <2>1. RingOK(f) /\ Owns(f, X \ {p}) /\ sinfo' = CheckResources(f)
    BY <1>1, <1>7, GiveSkbBack DEF TxNoResources
  <2> HIDE DEF f
  <2>2. SameRing(f, CheckResources(f)) /\ f \in SinfoType
    BY <2>1, CheckResourcesFrame DEF RingOK
  <2> QED
    BY <2>1, <2>2, SameRingKeeps
<1> QED
  BY <1>3, <1>4, <1>5, <1>6, <1>7

LEMMA HwDcbDoneStep ==
    ASSUME RingIInv, HwDcbDone
    PROVE  RingIInv'
<1> DEFINE i == sinfo.dma.idx
           s1 == [sinfo EXCEPT !.done[i] = TRUE]
           d == [sinfo.done EXCEPT ![i] = TRUE]
<1>1. /\ sinfo \in SinfoType /\ i \in Dcbs
      /\ sinfo.dma \in DmaStates /\ sinfo.dma.st = "skb"
      /\ ~sinfo.chain[MAX_TX_DCBS - 1]
  BY DEF RingIInv, TypeOK, HwDcbDone, SinfoType, DmaStates, RingOK
<1>2. d \in [Dcbs -> BOOLEAN] /\ s1 = [sinfo EXCEPT !.done = d]
  BY <1>1 DEF SinfoType
<1>3. SameRing(sinfo, s1) /\ s1.dma = sinfo.dma
  BY <1>1, <1>2 DEF SinfoType, SameRing
<1> HIDE DEF s1
<1>4. CASE sinfo.chain[i]
  <2>1. i + 1 \in Dcbs
    BY <1>1, <1>4 DEF Dcbs
  <2>2. [s1.dma EXCEPT !.idx = i + 1] \in DmaStates
    BY <1>1, <1>3, <2>1 DEF DmaStates
  <2>3. sinfo' = [s1 EXCEPT !.dma = [s1.dma EXCEPT !.idx = i + 1]]
    BY <1>3, <1>4 DEF HwDcbDone, s1, SameRing, SinfoType
  <2> HIDE DEF i
  <2>4. SameRing(s1, sinfo')
    BY <1>3, <2>2, <2>3 DEF SameRing, SinfoType
  <2>5. SameRing(sinfo, sinfo')
    BY <1>3, <2>4, SameRingTrans
  <2> QED
    BY <2>5, FrameStep DEF HwDcbDone, RingIInv, TypeOK
<1>5. CASE ~sinfo.chain[i]
  <2>1. sinfo' = [s1 EXCEPT !.dma = Idle, !.chain_done = TRUE]
    BY <1>5 DEF HwDcbDone, s1
  <2>2. SameRing(s1, sinfo')
    BY <1>3, <2>1, DcbFacts DEF SameRing, SinfoType
  <2>3. SameRing(sinfo, sinfo')
    BY <1>3, <2>2, SameRingTrans
  <2> QED
    BY <2>3, FrameStep DEF HwDcbDone, RingIInv, TypeOK
<1> QED
  BY <1>4, <1>5

LEMMA HwApiDoneStep ==
    ASSUME RingIInv, HwApiDone
    PROVE  RingIInv'
<1>1. SameRing(sinfo, sinfo')
  BY DcbFacts DEF RingIInv, TypeOK, HwApiDone, SameRing, SinfoType
<1> QED
  BY <1>1, FrameStep DEF HwApiDone, RingIInv, TypeOK

(* do_dma for n finished DCBs. *)
LEMMA DoDmaRing ==
    ASSUME NEW s, NEW X, RingOK(s), Owns(s, X), NEW n \in 0 .. Used(s)
    PROVE  RingOK(do_dma_tx(s, n)) /\ Owns(do_dma_tx(s, n), X)
<1> DEFINE s1 == [s EXCEPT !.chain_done = FALSE]
           s2 == bkn_do_tx(s1, n)
<1>1. SameRing(s, s1) /\ s \in SinfoType
  BY DEF RingOK, SameRing, SinfoType
<1>2. RingOK(s1) /\ Owns(s1, X) /\ n \in 0 .. Used(s1)
  BY <1>1, SameRingKeeps DEF SameRing, Used
<1> HIDE DEF s1
<1>3. RingOK(s2) /\ Owns(s2, X)
  BY <1>2, ReclaimRing, ReclaimOwns DEF bkn_do_tx
<1> HIDE DEF s2
<1>4. SameRing(s2, bkn_tx_chain_done(s2)) /\ s2 \in SinfoType
  BY <1>3, ChainDoneFrame DEF RingOK
<1>5. RingOK(bkn_tx_chain_done(s2)) /\ Owns(bkn_tx_chain_done(s2), X)
  BY <1>3, <1>4, SameRingKeeps
<1> QED
  BY <1>5 DEF do_dma_tx, s2, s1

LEMMA DmaTxStep ==
    ASSUME RingIInv, DmaTx
    PROVE  RingIInv'
<1>1. PICK n \in 0 .. Used(sinfo) : sinfo' = do_dma_tx(sinfo, n)
  BY DEF DmaTx
<1>2. RingOK(sinfo') /\ Owns(sinfo', InFlightSkbs)
  BY <1>1, DoDmaRing DEF RingIInv
<1> QED
  BY <1>2, RingStep DEF DmaTx, RingIInv, TypeOK

LEMMA DmaInfoStep ==
    ASSUME RingIInv, bkn_knet_dma_info_tx
    PROVE  RingIInv'
<1> DEFINE s0 == bkn_suspend_tx(sinfo)
           s1 == [s0 EXCEPT !.api_dcb_list = @ + 1]
<1>1. sinfo \in SinfoType /\ sinfo.api_dcb_list + 1 \in 0 .. MAX_API_CHAINS
  BY DEF RingIInv, TypeOK, SinfoType, bkn_knet_dma_info_tx
<1>2. SameRing(sinfo, s0) /\ s0.api_dcb_list = sinfo.api_dcb_list
  BY <1>1, SuspendFrame DEF bkn_suspend_tx, SinfoType
<1>3. sinfo' = s1 \/ sinfo' = bkn_api_tx(s1)
  BY DEF bkn_knet_dma_info_tx
<1> HIDE DEF s0
<1>4. SameRing(s0, s1)
  BY <1>1, <1>2 DEF SameRing, SinfoType
<1> HIDE DEF s1
<1>5. SameRing(s0, bkn_api_tx(s1))
  BY <1>4, ApiTxFrame, SameRingTrans DEF SameRing
<1>6. SameRing(sinfo, sinfo')
  BY <1>2, <1>3, <1>4, <1>5, SameRingTrans
<1> QED
  BY <1>6, FrameStep DEF bkn_knet_dma_info_tx, RingIInv, TypeOK

LEMMA TakeTxEventStep ==
    ASSUME RingIInv, TakeTxEvent
    PROVE  RingIInv'
<1>1. SameRing(sinfo, sinfo')
  BY DEF RingIInv, TypeOK, TakeTxEvent, SameRing, SinfoType
<1> QED
  BY <1>1, FrameStep DEF TakeTxEvent, RingIInv, TypeOK

(* Skbs leave the PTP queue and are freed. *)
LEMMA FreePtpSkbs ==
    ASSUME NEW s, NEW X, RingOK(s), Owns(s, X), NEW Q \in SUBSET s.tx_ptp_queue
    PROVE  LET t == [s EXCEPT !.tx_ptp_queue = @ \ Q, !.owned = @ \ Q]
           IN  RingOK(t) /\ Owns(t, X)
<1> DEFINE t == [s EXCEPT !.tx_ptp_queue = @ \ Q, !.owned = @ \ Q]
<1>1. s.owned \ Q \in SUBSET Skbs /\ s.tx_ptp_queue \ Q \in SUBSET Skbs
  BY RingRange
<1>2. /\ t \in SinfoType /\ t.owned = s.owned \ Q
      /\ t.free = s.free /\ t.cur = s.cur /\ t.dirty = s.dirty /\ t.skb = s.skb
      /\ t.chain = s.chain /\ t.tx_ptp_queue = s.tx_ptp_queue \ Q
  BY <1>1 DEF RingOK, SinfoType
<1> HIDE DEF t
<1>3. RingOK(t) /\ InUse(t) = InUse(s) /\ RingSkbs(t) = RingSkbs(s)
  BY <1>2 DEF RingOK, Used, InUse, Oldest, Pos, RingSkbs
<1>4. Owns(t, X)
  BY <1>2, <1>3 DEF Owns
<1> QED
  BY <1>3, <1>4 DEF t

LEMMA TxWorkStep ==
    ASSUME RingIInv, bkn_hw_tstamp_tx_work
    PROVE  RingIInv'
<1>1. PICK p \in sinfo.tx_ptp_queue :
          sinfo' = FreeSkb([sinfo EXCEPT !.tx_ptp_queue = @ \ {p}], p)
  BY DEF bkn_hw_tstamp_tx_work
<1>2. sinfo' = [sinfo EXCEPT !.tx_ptp_queue = @ \ {p}, !.owned = @ \ {p}]
  BY <1>1 DEF FreeSkb, RingIInv, TypeOK, SinfoType
<1>3. RingOK(sinfo') /\ Owns(sinfo', InFlightSkbs)
  BY <1>2, FreePtpSkbs DEF RingIInv
<1> QED
  BY <1>3, RingStep DEF bkn_hw_tstamp_tx_work, RingIInv, TypeOK

LEMMA AbortCleanRing ==
    ASSUME NEW s, NEW X, RingOK(s), Owns(s, X), NEW stale \in BOOLEAN
    PROVE  LET t == bkn_clean_tx_dcbs(bkn_dma_abort_tx(s, stale))
           IN  /\ RingOK(t) /\ Owns(t, X)
               /\ t.tx_ptp_queue = s.tx_ptp_queue /\ RingSkbs(t) = {}
               /\ t.free = MAX_TX_DCBS
<1> DEFINE a == bkn_dma_abort_tx(s, stale)
<1>1. s \in SinfoType /\ SameRing(s, a)
  BY AbortFrame DEF RingOK
<1>2. RingOK(a) /\ Owns(a, X) /\ a.tx_ptp_queue = s.tx_ptp_queue
  BY <1>1, SameRingKeeps DEF SameRing
<1> HIDE DEF a
<1>3. /\ RingOK(bkn_clean_tx_dcbs(a)) /\ Owns(bkn_clean_tx_dcbs(a), X)
      /\ bkn_clean_tx_dcbs(a).tx_ptp_queue = s.tx_ptp_queue
      /\ RingSkbs(bkn_clean_tx_dcbs(a)) = {}
      /\ bkn_clean_tx_dcbs(a).free = MAX_TX_DCBS
  BY <1>2, CleanRing, CleanOwns
<1> QED
  BY <1>3 DEF a

LEMMA HwResetStep ==
    ASSUME RingIInv, NEW stale \in BOOLEAN, bkn_knet_hw_reset(stale)
    PROVE  RingIInv'
<1> DEFINE s1 == bkn_clean_tx_dcbs(bkn_dma_abort_tx(sinfo, stale))
           Q == sinfo.tx_ptp_queue
<1>1. RingOK(s1) /\ Owns(s1, InFlightSkbs) /\ s1.tx_ptp_queue = Q
  BY AbortCleanRing DEF RingIInv
<1>2. sinfo' = [s1 EXCEPT !.tx_ptp_queue = {}, !.owned = @ \ Q]
  BY DEF bkn_knet_hw_reset
<1> HIDE DEF s1, Q
<1>3. s1.tx_ptp_queue \ Q = {}
  BY <1>1
<1>4. sinfo' = [s1 EXCEPT !.tx_ptp_queue = @ \ Q, !.owned = @ \ Q]
  BY <1>2, <1>3
<1>5. RingOK(sinfo') /\ Owns(sinfo', InFlightSkbs)
  BY <1>1, <1>4, FreePtpSkbs
<1>6. resets' \in 0 .. MAX_RESETS
  BY DEF bkn_knet_hw_reset, MayReset, RingIInv, TypeOK
<1> QED
  BY <1>5, <1>6, RingStep DEF bkn_knet_hw_reset, RingIInv, TypeOK

LEMMA HwInitStep ==
    ASSUME RingIInv, NEW stale \in BOOLEAN, bkn_knet_hw_init(stale)
    PROVE  RingIInv'
<1> DEFINE s1 == bkn_clean_tx_dcbs(bkn_dma_abort_tx(sinfo, stale))
           b == s1.basedev_suspended \/ (basedev_suspend /\ ~base_up)
           s2 == [s1 EXCEPT !.basedev_suspended = b]
           f == [i \in Dcbs |-> FALSE]
<1>1. /\ RingOK(s1) /\ Owns(s1, InFlightSkbs)
      /\ RingSkbs(s1) = {} /\ s1.free = MAX_TX_DCBS
  BY AbortCleanRing DEF RingIInv
<1>2. sinfo' = bkn_init_dcbs(s2)
  BY DEF bkn_knet_hw_init
<1> HIDE DEF s1
<1>3. /\ b \in BOOLEAN /\ f \in [Dcbs -> BOOLEAN] /\ s1 \in SinfoType
      /\ MAX_TX_DCBS \in 0 .. MAX_TX_DCBS
  BY <1>1 DEF RingOK
<1>4. sinfo' = [s1 EXCEPT !.basedev_suspended = b, !.free = MAX_TX_DCBS, !.cur = 0,
                          !.dirty = 0, !.chain = f, !.done = f]
  BY <1>2, <1>3 DEF bkn_init_dcbs, SinfoType
<1>5. f[MAX_TX_DCBS - 1] = FALSE
  BY DcbFacts
<1> HIDE DEF b, f
<1>6. /\ sinfo' \in SinfoType /\ sinfo'.free = MAX_TX_DCBS
      /\ sinfo'.cur = 0 /\ sinfo'.dirty = 0 /\ sinfo'.chain = f
      /\ sinfo'.tx_ptp_queue = s1.tx_ptp_queue /\ sinfo'.owned = s1.owned
  BY <1>3, <1>4, DcbFacts DEF SinfoType
<1>7. RingOK(sinfo')
  BY <1>5, <1>6 DEF RingOK, Used, Wrap
<1>8. InUse(sinfo') = {} /\ RingSkbs(sinfo') = {}
  BY <1>6 DEF InUse, Oldest, Used, Pos, Dcbs, RingSkbs
<1>9. Owns(sinfo', InFlightSkbs)
  BY <1>1, <1>6, <1>8 DEF Owns
<1>10. resets' \in 0 .. MAX_RESETS
  BY DEF bkn_knet_hw_init, MayReset, RingIInv, TypeOK
<1> QED
  BY <1>7, <1>9, <1>10, RingStep DEF bkn_knet_hw_init, RingIInv, TypeOK

LEMMA NetifStep ==
    ASSUME RingIInv, NEW d \in Netifs, OpenNetif(d) \/ StopNetif(d)
    PROVE  RingIInv'
<1>1. sinfo \in SinfoType /\ sinfo.stopped \in [Netifs -> BOOLEAN]
  BY DEF RingIInv, TypeOK, SinfoType
<1>2. PICK b \in BOOLEAN : sinfo' = [sinfo EXCEPT !.stopped = [sinfo.stopped EXCEPT ![d] = b]]
  BY <1>1 DEF OpenNetif, StopNetif, SinfoType
<1>3. [sinfo.stopped EXCEPT ![d] = b] \in [Netifs -> BOOLEAN]
  BY <1>1
<1>4. SameRing(sinfo, sinfo')
  BY <1>1, <1>2, <1>3 DEF SameRing, SinfoType
<1> QED
  BY <1>4, FrameStep DEF OpenNetif, StopNetif, RingIInv, TypeOK

LEMMA UnsuspendFrame ==
    ASSUME NEW s \in SinfoType
    PROVE  SameRing(s, Unsuspend(s))
<1> DEFINE s0 == [s EXCEPT !.basedev_suspended = FALSE]
           s1 == bkn_api_tx(s0)
<1>1. SameRing(s, s0)
  BY DEF SameRing, SinfoType
<1>2. SameRing(s, s1)
  BY <1>1, ApiTxFrame, SameRingTrans DEF SameRing
<1>3. SameRing(s, bkn_resume_tx(s1))
  BY <1>2, ResumeFrame, SameRingTrans DEF SameRing
<1> QED
  BY <1>2, <1>3 DEF Unsuspend

LEMMA OpenBaseStep ==
    ASSUME RingIInv, OpenBase
    PROVE  RingIInv'
<1>1. /\ RingOK(sinfo) /\ Owns(sinfo, InFlightSkbs)
      /\ sinfo \in SinfoType
  BY DEF RingIInv, RingOK
<1>2. RingOK(sinfo') /\ Owns(sinfo', InFlightSkbs)
  <2>1. CASE UNCHANGED sinfo
    BY <1>1, <2>1
  <2>2. CASE sinfo' = Unsuspend(sinfo)
    BY <1>1, <2>2, UnsuspendFrame, SameRingKeeps
  <2>3. CASE \E n \in 0 .. Used(sinfo) : sinfo' = Unsuspend(do_dma_tx(sinfo, n))
    <3>1. PICK n \in 0 .. Used(sinfo) : sinfo' = Unsuspend(do_dma_tx(sinfo, n))
      BY <2>3
    <3> DEFINE t == do_dma_tx(sinfo, n)
    <3>2. RingOK(t) /\ Owns(t, InFlightSkbs) /\ t \in SinfoType
      BY <1>1, DoDmaRing DEF RingOK
    <3> HIDE DEF t
    <3> QED
      BY <3>1, <3>2, UnsuspendFrame, SameRingKeeps DEF t
  <2> QED
    BY <2>1, <2>2, <2>3 DEF OpenBase
<1>3. InFlightSkbs' = InFlightSkbs
  BY DEF OpenBase, InFlightSkbs
<1> QED
  BY <1>2, <1>3 DEF OpenBase, RingIInv, TypeOK, RingOK, OneSkbEach

LEMMA StopBaseStep ==
    ASSUME RingIInv, StopBase
    PROVE  RingIInv'
<1> DEFINE s0 == bkn_suspend_tx(sinfo)
<1>1. sinfo \in SinfoType /\ SameRing(sinfo, s0)
  BY SuspendFrame DEF RingIInv, TypeOK
<1> HIDE DEF s0
<1>2. SameRing(s0, [s0 EXCEPT !.basedev_suspended = TRUE])
  BY <1>1 DEF SameRing, SinfoType
<1>3. SameRing(sinfo, [s0 EXCEPT !.basedev_suspended = TRUE])
  BY <1>1, <1>2, SameRingTrans
<1>4. SameRing(sinfo, sinfo)
  BY <1>1 DEF SameRing
<1>5. SameRing(sinfo, sinfo')
  BY <1>3, <1>4 DEF StopBase, s0
<1> QED
  BY <1>5, FrameStep DEF StopBase, RingIInv, TypeOK

LEMMA RingNext == RingIInv /\ [Next]_vars => RingIInv'
<1> SUFFICES ASSUME RingIInv, [Next]_vars PROVE RingIInv'
  OBVIOUS
<1>1. CASE \E d \in Netifs : (\E p \in Skbs : StackXmit(d, p)) \/ bkn_tx(d)
  BY <1>1, StackXmitStep, bkn_txStep
<1>2. CASE DmaLatch
  <2>1. SameRing(sinfo, sinfo')
    BY <1>2 DEF DmaLatch, SameRing, RingIInv, TypeOK
  <2> QED
    BY <1>2, <2>1, FrameStep DEF DmaLatch, RingIInv, TypeOK
<1>3. CASE \E stale \in Stale : bkn_knet_hw_reset(stale) \/ bkn_knet_hw_init(stale)
  <2>1. Stale \subseteq BOOLEAN
    BY DEF Stale
  <2> QED
    BY <1>3, <2>1, HwResetStep, HwInitStep
<1>4. CASE \E d \in Netifs : OpenNetif(d) \/ StopNetif(d)
  BY <1>4, NetifStep
<1>5. CASE UNCHANGED vars
  BY <1>5 DEF vars, RingIInv, TypeOK, OneSkbEach, InFlightSkbs, RingOK, Owns, InUse,
              Oldest, Used, Pos, RingSkbs, Wrap
<1> QED
  BY <1>1, <1>2, <1>3, <1>4, <1>5, HwDcbDoneStep, HwApiDoneStep, DmaTxStep,
     DmaInfoStep, TakeTxEventStep, TxWorkStep, OpenBaseStep, StopBaseStep DEF Next

LEMMA RingAlways == Spec => []RingIInv
BY RingInit, RingNext, PTL DEF Spec

(* The Tx ring's counters and indices stay in range, and the hardware is   *)
(* never led past the last DCB, for every ring size and any resets.        *)
THEOREM TxTypeCorrect == Spec => []TypeOK
<1>1. RingIInv => TypeOK
  BY DEF RingIInv
<1> QED
  BY <1>1, RingAlways, PTL

(* Every skb the stack gave to bkn_tx is in exactly one place, and is      *)
(* freed once: nothing is lost or freed twice, whatever the resets.        *)
THEOREM TxSkbOwnership == Spec => []SkbOwnership
<1>1. RingIInv => SkbOwnership
  BY DEF RingIInv, Owns, OneSkbEach, SkbOwnership
<1> QED
  BY <1>1, RingAlways, PTL

-----------------------------------------------------------------------------
(***************************************************************************)
(* The DMA channel.  With the default module parameters and resets that    *)
(* do not hit a do_dma that is half done, an inductive invariant ties the  *)
(* channel to the ring:                                                    *)
(*   - what the hardware works on is the oldest DCB in use that is not     *)
(*     done, and no chain bit leads it past the newest;                    *)
(*   - chain done is only ever raised by an idle channel, and while it is, *)
(*     nobody starts the channel, since the ring or the API is not idle;   *)
(*   - a queue that is stopped waits for a ring or an API that is not idle.*)
(***************************************************************************)
NotIdle(s) == Used(s) > 0 \/ s.api_active

ChainsInside(s) ==
    \A i \in InUse(s) : s.chain[i] => i < MAX_TX_DCBS - 1 /\ Pos(s, i) + 1 < Used(s)

DonePrefix(s) ==
    \A i, j \in InUse(s) : s.done[j] /\ Pos(s, i) < Pos(s, j) => s.done[i]

NoneDone(s) == \A i \in InUse(s) : ~s.done[i]

Quiet(s) == s.dma = Idle /\ ~s.chain_done

(* The channel works on the ring at the DCB that comes next. *)
SkbDma(s) ==
    /\ s.dma.st = "skb" /\ ~s.chain_done /\ s.irq /\ ~s.api_active
    /\ s.dma.idx \in InUse(s)
    /\ \A i \in InUse(s) : s.done[i] <=> Pos(s, i) < Pos(s, s.dma.idx)

(* The channel works on an API chain. *)
ApiDma(s) ==
    s.dma.st = "api" /\ ~s.chain_done /\ s.irq /\ s.api_active /\ NoneDone(s)

(* The channel has stopped and waits for do_dma. *)
DoneDma(s) ==
    /\ s.dma = Idle /\ s.chain_done /\ s.irq /\ NotIdle(s) /\ DonePrefix(s)
    /\ s.api_active => NoneDone(s)

(* Nothing to send. *)
NoDma(s) == Quiet(s) /\ ~NotIdle(s)

DmaOK(s) ==
    /\ RingOK(s)
    /\ ChainsInside(s)
    /\ SkbDma(s) \/ ApiDma(s) \/ DoneDma(s) \/ NoDma(s)
    /\ s.api_dcb_list > 0 => NotIdle(s)
    /\ ~s.basedev_suspended

DmaIInv ==
    /\ RingIInv
    /\ DmaOK(sinfo)
    /\ latched => sinfo.chain_done
    /\ resets = 0 => \A d \in Netifs : netif_up[d] /\ sinfo.stopped[d] => NotIdle(sinfo)

-----------------------------------------------------------------------------
(* Steps the channel does not notice. *)

SameDma(s, t) ==
    /\ RingOK(t)
    /\ t.free = s.free /\ t.dirty = s.dirty
    /\ t.api_active = s.api_active /\ t.api_dcb_list = s.api_dcb_list
    /\ t.basedev_suspended = s.basedev_suspended
    /\ t.irq = s.irq /\ t.chain_done = s.chain_done /\ t.dma = s.dma
    /\ \A i \in InUse(s) : t.chain[i] = s.chain[i] /\ t.done[i] = s.done[i]

LEMMA SameDmaKeeps ==
    ASSUME NEW s, NEW t, DmaOK(s), SameDma(s, t)
    PROVE  DmaOK(t) /\ (NotIdle(t) <=> NotIdle(s))
<1>1. /\ InUse(t) = InUse(s) /\ Used(t) = Used(s)
      /\ \A i : Pos(t, i) = Pos(s, i)
  BY DEF SameDma, InUse, Oldest, Pos, Used
<1>2. NotIdle(t) <=> NotIdle(s)
  BY <1>1 DEF NotIdle, SameDma
<1>3. ChainsInside(t)
  BY <1>1 DEF ChainsInside, DmaOK, SameDma
<1>4. SkbDma(s) => SkbDma(t)
  BY <1>1 DEF SkbDma, SameDma
<1>5. ApiDma(s) => ApiDma(t)
  BY <1>1 DEF ApiDma, NoneDone, SameDma
<1>6. DoneDma(s) => DoneDma(t)
  BY <1>1, <1>2 DEF DoneDma, NoneDone, DonePrefix, SameDma
<1>7. NoDma(s) => NoDma(t)
  BY <1>2 DEF NoDma, Quiet, SameDma
<1> QED
  BY <1>2, <1>3, <1>4, <1>5, <1>6, <1>7 DEF DmaOK, SameDma

-----------------------------------------------------------------------------
(* do_dma: an idle channel with no finished DCB left. *)

Ready(s) ==
    /\ RingOK(s) /\ ChainsInside(s) /\ NoneDone(s)
    /\ s.dma = Idle /\ ~s.chain_done /\ ~s.basedev_suspended

LEMMA StartFields ==
    ASSUME NEW s, s \in SinfoType, NEW st \in {"skb", "api"}, NEW i \in Dcbs, s.dma = Idle
    PROVE  LET t == StartDma(s, st, i)
           IN  /\ t.dma = [st |-> st, idx |-> i] /\ t.irq /\ ~t.chain_done
               /\ t.free = s.free /\ t.cur = s.cur /\ t.dirty = s.dirty
               /\ t.chain = s.chain /\ t.done = s.done
               /\ t.api_active = s.api_active /\ t.api_dcb_list = s.api_dcb_list
               /\ t.basedev_suspended = s.basedev_suspended
               /\ t.stopped = s.stopped
BY DEF StartDma, SinfoType

(* The API has a chain to send: it gets the channel. *)
LEMMA ApiTxStarts ==
    ASSUME NEW s, Ready(s), s.api_dcb_list # 0
    PROVE  LET t == bkn_api_tx(s)
           IN  DmaOK(t) /\ t.api_active
<1> DEFINE t == bkn_api_tx(s)
           u == [s EXCEPT !.api_active = TRUE, !.api_dcb_list = @ - 1]
<1>1. RingOK(t)
  BY ApiTxFrame, SameRingKeeps DEF Ready, RingOK
<1>2. s.api_dcb_list - 1 \in 0 .. MAX_API_CHAINS /\ s \in SinfoType
  <2>1. s \in SinfoType /\ s.api_dcb_list \in 0 .. MAX_API_CHAINS
    BY DEF Ready, RingOK, SinfoType
  <2> QED
    BY <2>1
<1>3. /\ u \in SinfoType /\ u.dma = s.dma /\ u.api_active
      /\ u.free = s.free /\ u.dirty = s.dirty /\ u.chain = s.chain /\ u.done = s.done
      /\ u.basedev_suspended = s.basedev_suspended
  BY <1>2 DEF SinfoType
<1>4. t = StartDma(u, "api", 0)
  BY DEF bkn_api_tx
<1> HIDE DEF u, t
<1>5. /\ t.dma.st = "api" /\ t.irq /\ ~t.chain_done /\ t.api_active
      /\ t.free = s.free /\ t.dirty = s.dirty /\ t.chain = s.chain /\ t.done = s.done
      /\ ~t.basedev_suspended
  <2>1. u.dma = Idle /\ ~s.basedev_suspended
    BY <1>3 DEF Ready
  <2>2. u \in SinfoType /\ 0 \in Dcbs /\ "api" \in {"skb", "api"}
    BY <1>3, DcbFacts
  <2>3. /\ t.dma = [st |-> "api", idx |-> 0] /\ t.irq /\ ~t.chain_done
        /\ t.free = u.free /\ t.dirty = u.dirty
        /\ t.chain = u.chain /\ t.done = u.done
        /\ t.api_active = u.api_active
        /\ t.basedev_suspended = u.basedev_suspended
    BY <1>4, <2>1, <2>2, StartFields
  <2> QED
    BY <1>3, <2>1, <2>3
<1>6. /\ InUse(t) = InUse(s) /\ Used(t) = Used(s)
      /\ \A i : Pos(t, i) = Pos(s, i)
  BY <1>5 DEF InUse, Oldest, Pos, Used
<1>7. ChainsInside(t) /\ NoneDone(t)
  BY <1>5, <1>6 DEF Ready, ChainsInside, NoneDone
<1> QED
  BY <1>1, <1>5, <1>7 DEF DmaOK, ApiDma, NotIdle, t

(* The API has nothing to send: it gives the channel up. *)
LEMMA ApiTxGivesUp ==
    ASSUME NEW s, Ready(s), s.api_dcb_list = 0
    PROVE  LET t == bkn_api_tx(s)
           IN  /\ Ready(t) /\ ~t.api_active /\ t.api_dcb_list = 0
               /\ t.free = s.free /\ t.stopped = s.stopped
<1> DEFINE t == bkn_api_tx(s)
<1>1. RingOK(t)
  BY ApiTxFrame, SameRingKeeps DEF Ready, RingOK
<1>2. /\ ~t.api_active /\ t.api_dcb_list = 0 /\ t.dma = s.dma /\ t.chain_done = s.chain_done
      /\ t.free = s.free /\ t.dirty = s.dirty /\ t.chain = s.chain /\ t.done = s.done
      /\ t.basedev_suspended = s.basedev_suspended /\ t.stopped = s.stopped
  BY DEF Ready, RingOK, bkn_api_tx, SinfoType
<1> HIDE DEF t
<1>3. /\ InUse(t) = InUse(s) /\ Used(t) = Used(s)
      /\ \A i : Pos(t, i) = Pos(s, i)
  BY <1>2 DEF InUse, Oldest, Pos, Used
<1> QED
  BY <1>1, <1>2, <1>3 DEF Ready, ChainsInside, NoneDone, t

(* The ring has packets: they are chained and the channel starts on them. *)
LEMMA RestartRing ==
    ASSUME NEW s, Ready(s), ~s.api_active, s.free < MAX_TX_DCBS
    PROVE  LET t == StartDma(ChainPending(s), "skb", s.dirty)
           IN  DmaOK(t) /\ NotIdle(t)
<1> DEFINE c == ChainPending(s)
           t == StartDma(c, "skb", s.dirty)
<1>1. /\ s \in SinfoType /\ c \in SinfoType /\ s.dirty \in Dcbs
      /\ RingOK(s) /\ RingOK(c) /\ RingOK(t)
  <2>1. s \in SinfoType /\ s.dirty \in Dcbs /\ RingOK(s)
    BY RingFacts DEF Ready, RingOK
  <2>2. c \in SinfoType /\ RingOK(c)
    BY <2>1, ChainPendingFrame, SameRingKeeps DEF SameRing
  <2> QED
    BY <2>1, <2>2, StartDmaFrame, SameRingKeeps
<1>2. /\ c.chain = [i \in Dcbs |-> s.chain[i] \/ (i - s.dirty \in 0 .. Used(s) - 2
                                                 /\ i < MAX_TX_DCBS - 1)]
      /\ c.dma = s.dma /\ c.free = s.free /\ c.dirty = s.dirty /\ c.done = s.done
      /\ c.api_active = s.api_active /\ c.basedev_suspended = s.basedev_suspended
  BY <1>1 DEF ChainPending, SinfoType
<1> HIDE DEF c
<1>3. /\ t.dma = [st |-> "skb", idx |-> s.dirty] /\ t.irq /\ ~t.chain_done
      /\ t.free = s.free /\ t.dirty = s.dirty /\ t.chain = c.chain /\ t.done = s.done
      /\ ~t.api_active /\ ~t.basedev_suspended
  BY <1>1, <1>2, StartFields DEF Ready
<1> HIDE DEF t
<1>4. /\ InUse(t) = InUse(s) /\ Used(t) = Used(s)
      /\ \A i : Pos(t, i) = Pos(s, i)
  BY <1>3 DEF InUse, Oldest, Pos, Used
<1>5. Used(t) > 0 /\ Used(s) \in 0 .. MAX_TX_DCBS - 1
  <2>1. s.free \in 1 .. MAX_TX_DCBS /\ s.free < MAX_TX_DCBS
    BY <1>1, RingRange
  <2> QED
    BY <1>4, <2>1 DEF Used
<1>6. ChainsInside(t)
  <2> SUFFICES ASSUME NEW i \in InUse(s), t.chain[i]
               PROVE  i < MAX_TX_DCBS - 1 /\ Pos(s, i) + 1 < Used(s)
    BY <1>4 DEF ChainsInside
  <2>1. i \in Dcbs
    BY <1>1, RingFacts
  <2>2. CASE s.chain[i]
    BY <2>2 DEF Ready, ChainsInside
  <2>3. CASE i - s.dirty \in 0 .. Used(s) - 2 /\ i < MAX_TX_DCBS - 1
    BY <1>1, <1>5, <2>1, <2>3, RingRange DEF Pos, Dcbs
  <2> QED
    BY <1>2, <1>3, <2>1, <2>2, <2>3
<1>7. Pos(s, s.dirty) = 0
  BY <1>1, RingRange DEF Pos
<1>8. s.dirty \in InUse(s)
  BY <1>1, <1>4, <1>5, <1>7 DEF InUse, Oldest
<1>9. \A i \in InUse(s) : ~s.done[i] /\ ~(Pos(s, i) < 0)
  BY <1>1, RingFacts DEF Ready, NoneDone, Dcbs
<1>10. SkbDma(t)
  BY <1>3, <1>4, <1>7, <1>8, <1>9 DEF SkbDma
<1> QED
  BY <1>1, <1>3, <1>5, <1>6, <1>10 DEF DmaOK, NotIdle, t, c

LEMMA ResumeDma ==
    ASSUME NEW s, DmaOK(s)
    PROVE  LET t == bkn_resume_tx(s)
           IN  /\ DmaOK(t)
               /\ \A d \in Netifs : t.stopped[d] => NotIdle(t)
<1> DEFINE t == bkn_resume_tx(s)
<1>1. s \in SinfoType /\ RingOK(s) /\ RingOK(t)
  BY ResumeFrame, SameRingKeeps DEF DmaOK, RingOK
<1>2. /\ t.free = s.free /\ t.dirty = s.dirty /\ t.chain = s.chain /\ t.done = s.done
      /\ t.api_active = s.api_active /\ t.api_dcb_list = s.api_dcb_list
      /\ t.basedev_suspended = s.basedev_suspended
      /\ t.irq = s.irq /\ t.chain_done = s.chain_done /\ t.dma = s.dma
      /\ t.stopped = [d \in Netifs |-> s.stopped[d] /\ s.free <= 1]
  BY <1>1 DEF bkn_resume_tx, SinfoType
<1> HIDE DEF t
<1>3. SameDma(s, t)
  BY <1>1, <1>2 DEF SameDma
<1>4. DmaOK(t)
  BY <1>3, SameDmaKeeps
<1>5. ASSUME NEW d \in Netifs, t.stopped[d] PROVE NotIdle(t)
  <2>1. s.free \in 1 .. MAX_TX_DCBS /\ s.free <= 1
    BY <1>1, <1>2, <1>5, RingRange
  <2> QED
    BY <1>2, <2>1 DEF NotIdle, Used
<1> QED
  BY <1>4, <1>5 DEF t

LEMMA ChainDoneDma ==
    ASSUME NEW s, Ready(s)
    PROVE  LET t == bkn_tx_chain_done(s)
           IN  /\ DmaOK(t)
               /\ \A d \in Netifs : t.stopped[d] => NotIdle(t)
<1> DEFINE s1 == [s EXCEPT !.irq = FALSE]
           s0 == [s1 EXCEPT !.api_done_event = TRUE]
           s2 == IF s.api_active THEN bkn_api_tx(s0) ELSE s1
           s3 == bkn_api_tx(s2)
           r == StartDma(ChainPending(s2), "skb", s2.dirty)
           t == bkn_tx_chain_done(s)
<1>1. t = IF s2.api_active THEN s2
          ELSE IF s2.free < MAX_TX_DCBS THEN bkn_resume_tx(r)
          ELSE IF s3.api_active THEN s3 ELSE bkn_resume_tx(s3)
  <2>1. s1.api_active = s.api_active
    BY DEF Ready, RingOK, SinfoType
  <2> QED
    BY <2>1 DEF bkn_tx_chain_done
<1>2. Ready(s1) /\ Ready(s0) /\ s1.api_active = s.api_active
  <2>1. SameRing(s, s1) /\ SameRing(s, s0) /\ s \in SinfoType
    BY DEF Ready, RingOK, SameRing, SinfoType
  <2>2. RingOK(s1) /\ RingOK(s0)
    BY <2>1, SameRingKeeps DEF Ready
  <2>3. ASSUME NEW u \in {s1, s0}
        PROVE  /\ u.free = s.free /\ u.dirty = s.dirty /\ u.chain = s.chain
               /\ u.done = s.done /\ u.dma = s.dma /\ u.chain_done = s.chain_done
               /\ u.basedev_suspended = s.basedev_suspended
               /\ u.api_active = s.api_active
    BY <2>1 DEF SinfoType
  <2> HIDE DEF s1, s0
  <2>4. ASSUME NEW u \in {s1, s0}
        PROVE  InUse(u) = InUse(s) /\ Used(u) = Used(s) /\ \A i : Pos(u, i) = Pos(s, i)
    BY <2>3 DEF InUse, Oldest, Pos, Used
  <2>5. ASSUME NEW u \in {s1, s0} PROVE ChainsInside(u) /\ NoneDone(u)
    BY <2>3, <2>4 DEF Ready, ChainsInside, NoneDone
  <2> QED
    BY <2>2, <2>3, <2>5 DEF Ready
<1> HIDE DEF s1, s0
<1>3. (s2.api_active /\ DmaOK(s2)) \/ (~s2.api_active /\ Ready(s2))
  BY <1>2, ApiTxStarts, ApiTxGivesUp
<1> HIDE DEF s2
<1>4. CASE s2.api_active
  <2>1. NotIdle(s2)
    BY <1>4 DEF NotIdle
  <2> QED
    BY <1>1, <1>3, <1>4, <2>1
<1>5. CASE ~s2.api_active /\ s2.free < MAX_TX_DCBS
  <2>1. DmaOK(r)
    BY <1>3, <1>5, RestartRing
  <2> HIDE DEF r
  <2> QED
    BY <1>1, <1>5, <2>1, ResumeDma
<1>6. CASE ~s2.api_active /\ ~(s2.free < MAX_TX_DCBS) /\ s2.api_dcb_list # 0
  <2>1. DmaOK(s3) /\ s3.api_active
    BY <1>3, <1>6, ApiTxStarts
  <2>2. NotIdle(s3)
    BY <2>1 DEF NotIdle
  <2> QED
    BY <1>1, <1>6, <2>1, <2>2
<1>7. CASE ~s2.api_active /\ ~(s2.free < MAX_TX_DCBS) /\ s2.api_dcb_list = 0
  <2>1. /\ Ready(s3) /\ ~s3.api_active /\ s3.api_dcb_list = 0
        /\ s3.free = s2.free
    BY <1>3, <1>7, ApiTxGivesUp
  <2> HIDE DEF s3
  <2>2. Used(s3) = 0
    <3>1. s3.free \in 1 .. MAX_TX_DCBS /\ ~(s3.free < MAX_TX_DCBS)
      BY <1>7, <2>1, RingRange DEF Ready
    <3> QED
      BY <3>1 DEF Used
  <2>3. DmaOK(s3)
    BY <2>1, <2>2 DEF DmaOK, Ready, NoDma, Quiet, NotIdle
  <2> QED
    BY <1>1, <1>7, <2>1, <2>3, ResumeDma
<1> QED
  BY <1>4, <1>5, <1>6, <1>7

LEMMA ReclaimReady ==
    ASSUME NEW s, DmaOK(s), DoneDma(s), NEW n \in 0 .. Used(s), IsDonePrefix(s, n)
    PROVE  Ready(bkn_do_tx([s EXCEPT !.chain_done = FALSE], n))
<1> DEFINE s1 == [s EXCEPT !.chain_done = FALSE]
           t == Reclaim(s1, n)
<1>1. s \in SinfoType /\ RingOK(s)
  BY DEF DmaOK, RingOK
<1>2. /\ s1.free = s.free /\ s1.dirty = s.dirty /\ s1.chain = s.chain /\ s1.done = s.done
      /\ s1.dma = Idle /\ ~s1.chain_done /\ ~s1.basedev_suspended
      /\ s1.api_active = s.api_active
  BY <1>1 DEF SinfoType, DmaOK, DoneDma
<1>3. RingOK(s1)
  <2>1. SameRing(s, s1)
    BY <1>1 DEF SameRing, SinfoType
  <2> QED
    BY <1>1, <2>1, SameRingKeeps
<1> HIDE DEF s1
<1>4. /\ InUse(s1) = InUse(s) /\ Used(s1) = Used(s) /\ Oldest(s1, n) = Oldest(s, n)
      /\ \A i : Pos(s1, i) = Pos(s, i)
  BY <1>2 DEF InUse, Oldest, Pos, Used
<1>5. ChainsInside(s1)
  BY <1>2, <1>4 DEF ChainsInside, DmaOK
<1>6. CASE s.api_active
  <2>1. NoneDone(s1)
    BY <1>2, <1>4, <1>6 DEF NoneDone, DoneDma
  <2> QED
    BY <1>2, <1>3, <1>5, <1>6, <2>1 DEF bkn_do_tx, Ready, s1
<1>7. CASE ~s.api_active
  <2>1. /\ RingOK(t) /\ t.free = s.free + n
        /\ InUse(t) = InUse(s) \ Oldest(s, n)
        /\ \A i \in InUse(t) : Pos(t, i) = Pos(s, i) - n
    BY <1>2, <1>3, <1>4, ReclaimRing
  <2>2. /\ t.chain = s.chain /\ t.dma = Idle /\ ~t.chain_done /\ ~t.basedev_suspended
        /\ t.done = [i \in Dcbs |-> s.done[i] /\ i \notin Oldest(s, n)]
    BY <1>2, <1>3, <1>4 DEF Reclaim, RingOK, SinfoType
  <2> HIDE DEF t
  <2>3. InUse(s) \subseteq Dcbs /\ \A i \in Dcbs : Pos(s, i) \in Dcbs
    BY <1>1, RingFacts
  <2>4. ChainsInside(t)
    <3> SUFFICES ASSUME NEW i \in InUse(t), t.chain[i]
                 PROVE  i < MAX_TX_DCBS - 1 /\ Pos(t, i) + 1 < Used(t)
      BY DEF ChainsInside
    <3>1. i \in InUse(s) /\ i < MAX_TX_DCBS - 1 /\ Pos(s, i) + 1 < Used(s)
      BY <2>1, <2>2 DEF DmaOK, ChainsInside
    <3>2. Used(t) = Used(s) - n
      BY <1>1, <2>1, RingRange DEF Used
    <3>3. Pos(t, i) = Pos(s, i) - n /\ Pos(s, i) \in Int /\ Used(s) \in Int
      BY <1>1, <2>1, <2>3, <3>1, RingFacts DEF Dcbs
    <3> QED
      BY <3>1, <3>2, <3>3
  <2>5. NoneDone(t)
    <3> SUFFICES ASSUME NEW i \in InUse(t), s.done[i] PROVE FALSE
      BY <2>1, <2>2, <2>3 DEF NoneDone
    <3>1. i \in InUse(s) /\ ~(Pos(s, i) < n) /\ Pos(s, i) \in Dcbs
      BY <2>1, <2>3 DEF Oldest
    <3>2. Pos(s, i) # n
      BY <3>1 DEF IsDonePrefix
    <3> DEFINE j == Wrap(s.dirty + n)
    <3>3. n < Pos(s, i) /\ n \in 0 .. MAX_TX_DCBS - 1
      BY <1>1, <3>1, <3>2, RingFacts DEF Dcbs
    <3>4. j \in Dcbs /\ Pos(s, j) = n
      <4>1. s.dirty \in 0 .. MAX_TX_DCBS - 1
        BY <1>1, RingRange
      <4>2. j \in 0 .. MAX_TX_DCBS - 1
        BY <3>3, <4>1 DEF Wrap
      <4>3. j = IF s.dirty + n >= MAX_TX_DCBS THEN s.dirty + n - MAX_TX_DCBS ELSE s.dirty + n
        BY <4>1 DEF Wrap
      <4> HIDE DEF j
      <4> QED
        BY <3>3, <4>1, <4>2, <4>3 DEF Dcbs, Pos
    <3>5. j \in InUse(s)
      <4>1. Pos(s, i) < Used(s)
        BY <3>1 DEF InUse, Oldest
      <4>2. n < Used(s)
        BY <1>1, <3>1, <3>3, <4>1, RingFacts DEF Dcbs
      <4> QED
        BY <3>4, <4>2 DEF InUse, Oldest
    <3>6. s.done[j]
      BY <3>1, <3>3, <3>4, <3>5 DEF DoneDma, DonePrefix
    <3> QED
      BY <3>4, <3>5, <3>6 DEF IsDonePrefix
  <2>6. bkn_do_tx(s1, n) = t
    BY <1>2, <1>7 DEF bkn_do_tx, t
  <2>7. Ready(t)
    BY <2>1, <2>2, <2>4, <2>5 DEF Ready
  <2> QED
    BY <2>6, <2>7 DEF s1
<1> QED
  BY <1>6, <1>7

LEMMA DoDmaOK ==
    ASSUME NEW s, DmaOK(s), s.chain_done, NEW n \in 0 .. Used(s), IsDonePrefix(s, n)
    PROVE  LET t == do_dma_tx(s, n)
           IN  /\ DmaOK(t)
               /\ \A d \in Netifs : t.stopped[d] => NotIdle(t)
<1> DEFINE u == bkn_do_tx([s EXCEPT !.chain_done = FALSE], n)
<1>1. DoneDma(s)
  BY DEF DmaOK, SkbDma, ApiDma, NoDma, Quiet
<1>2. Ready(u)
  BY <1>1, ReclaimReady
<1> HIDE DEF u
<1> QED
  BY <1>2, ChainDoneDma DEF do_dma_tx, u

-----------------------------------------------------------------------------
(* bkn_tx puts a packet into the ring. *)

LEMMA EnqueueDma ==
    ASSUME NEW s, NEW p \in Skbs, DmaOK(s), s.free > 1
    PROVE  LET t == TakeDcb(bkn_tx_dma_start(FillDcb(s, p)))
           IN  RingOK(t) => DmaOK(t) /\ NotIdle(t)
<1> DEFINE f == FillDcb(s, p)
           g == bkn_tx_dma_start(f)
           t == TakeDcb(g)
           i == s.cur
           c == [s.chain EXCEPT ![i] = FALSE]
           e == [s.done EXCEPT ![i] = FALSE]
<1> SUFFICES ASSUME RingOK(t) PROVE DmaOK(t) /\ NotIdle(t)
  OBVIOUS
<1>1. /\ RingOK(s) /\ s \in SinfoType /\ i \in Dcbs /\ i \notin InUse(s)
      /\ InUse(s) \subseteq Dcbs
      /\ s.chain \in [Dcbs -> BOOLEAN] /\ s.done \in [Dcbs -> BOOLEAN]
      /\ s.skb \in [Dcbs -> Skbs \cup {NoSkb}]
      /\ s.free \in 1 .. MAX_TX_DCBS /\ ~s.basedev_suspended
  BY RingFacts, RingRange DEF DmaOK, RingOK
<1>2. /\ f \in SinfoType /\ f.free = s.free /\ f.cur = i /\ f.dirty = s.dirty
      /\ f.chain = c /\ f.done = e
      /\ f.api_active = s.api_active /\ f.api_dcb_list = s.api_dcb_list
      /\ f.basedev_suspended = s.basedev_suspended
      /\ f.irq = s.irq /\ f.chain_done = s.chain_done /\ f.dma = s.dma
  <2> DEFINE q == [s.skb EXCEPT ![i] = p]
  <2>1. /\ c \in [Dcbs -> BOOLEAN] /\ e \in [Dcbs -> BOOLEAN]
        /\ q \in [Dcbs -> Skbs \cup {NoSkb}]
    BY <1>1
  <2>2. f = [s EXCEPT !.skb = q, !.chain = c, !.done = e]
    BY <1>1 DEF FillDcb, SinfoType
  <2> HIDE DEF f, c, e, q
  <2> QED
    BY <1>1, <2>1, <2>2 DEF SinfoType
<1> HIDE DEF f
<1>3. /\ g \in SinfoType /\ g.free = s.free /\ g.cur = i /\ g.dirty = s.dirty
      /\ g.chain = c /\ g.done = e
      /\ g.api_active = s.api_active /\ g.api_dcb_list = s.api_dcb_list
      /\ g.basedev_suspended = s.basedev_suspended
      /\ IF NoDma(s)
         THEN g.dma = [st |-> "skb", idx |-> i] /\ g.irq /\ ~g.chain_done
         ELSE g.irq = s.irq /\ g.chain_done = s.chain_done /\ g.dma = s.dma
  <2>1. g \in SinfoType
    BY <1>2, DmaStartFrame DEF SameRing
  <2>2. s.free = MAX_TX_DCBS /\ ~s.api_active <=> ~NotIdle(s)
    BY <1>1 DEF NotIdle, Used
  <2>3. NoDma(s) <=> ~NotIdle(s)
    <3>1. NotIdle(s) => ~NoDma(s)
      BY DEF NoDma
    <3>2. SkbDma(s) => NotIdle(s)
      <4> SUFFICES ASSUME SkbDma(s) PROVE Used(s) > 0
        BY DEF NotIdle
      <4>1. s.dma.idx \in Dcbs /\ Pos(s, s.dma.idx) < Used(s)
        BY DEF SkbDma, InUse, Oldest
      <4>2. Pos(s, s.dma.idx) \in 0 .. MAX_TX_DCBS - 1 /\ Used(s) \in 0 .. MAX_TX_DCBS - 1
        BY <1>1, <4>1, RingFacts DEF Dcbs
      <4> QED
        BY <4>1, <4>2
    <3>3. ApiDma(s) \/ DoneDma(s) => NotIdle(s)
      BY DEF ApiDma, DoneDma, NotIdle
    <3> QED
      BY <3>1, <3>2, <3>3 DEF DmaOK
  <2>4. CASE NoDma(s)
    <3>1. g = StartDma(f, "skb", i)
      BY <1>2, <2>2, <2>3, <2>4 DEF bkn_tx_dma_start
    <3>2. f.dma = Idle
      BY <1>2, <2>4 DEF NoDma, Quiet
    <3> HIDE DEF g
    <3> QED
      BY <1>1, <1>2, <2>1, <2>4, <3>1, <3>2, StartFields
  <2>5. CASE ~NoDma(s)
    <3>1. g = f
      BY <1>2, <2>2, <2>3, <2>5 DEF bkn_tx_dma_start
    <3> HIDE DEF g
    <3> QED
      BY <1>2, <2>1, <2>5, <3>1
  <2> QED
    BY <2>4, <2>5
<1> HIDE DEF g
<1>4. /\ t.free = s.free - 1 /\ t.dirty = s.dirty /\ t.chain = c /\ t.done = e
      /\ t.api_active = s.api_active /\ t.api_dcb_list = s.api_dcb_list
      /\ ~t.basedev_suspended
      /\ t.irq = g.irq /\ t.chain_done = g.chain_done /\ t.dma = g.dma
  BY <1>1, <1>3 DEF TakeDcb, SinfoType
<1> HIDE DEF t
<1>5. Used(t) = Used(s) + 1 /\ Used(s) \in 0 .. MAX_TX_DCBS - 1
  BY <1>1, <1>4 DEF Used
<1>6. \A k : Pos(t, k) = Pos(s, k)
  BY <1>4 DEF Pos
<1>7. Pos(s, i) = Used(s) /\ \A k \in Dcbs : Pos(s, k) = Used(s) => k = i
  <2>1. Pos(s, i) = Used(s)
    <3>1. i = Wrap(s.dirty + Used(s)) /\ s.dirty \in 0 .. MAX_TX_DCBS - 1
      BY <1>1, RingRange DEF RingOK
    <3> HIDE DEF i
    <3> QED
      BY <1>5, <3>1 DEF Wrap, Pos
  <2> QED
    BY <1>1, <2>1, RingFacts
<1>8. \A k \in Dcbs : Pos(s, k) \in 0 .. MAX_TX_DCBS - 1
  BY <1>1, RingFacts DEF Dcbs
<1>9. InUse(t) = InUse(s) \cup {i}
  <2>1. \A k \in Dcbs : Pos(s, k) < Used(s) + 1 <=> Pos(s, k) < Used(s) \/ k = i
    BY <1>5, <1>7, <1>8
  <2> QED
    BY <1>1, <1>5, <1>6, <2>1 DEF InUse, Oldest
<1>10. NotIdle(t)
  BY <1>5 DEF NotIdle
<1>11. /\ \A k \in InUse(s) : c[k] = s.chain[k] /\ e[k] = s.done[k]
       /\ ~c[i] /\ ~e[i]
  BY <1>1
<1>12. \A k \in InUse(s) : k \in Dcbs /\ Pos(s, k) < Pos(s, i)
  BY <1>1, <1>7 DEF InUse, Oldest
<1> HIDE DEF c, e, i
<1>13. ChainsInside(t)
  <2> SUFFICES ASSUME NEW k \in InUse(t), t.chain[k]
               PROVE  k < MAX_TX_DCBS - 1 /\ Pos(t, k) + 1 < Used(t)
    BY DEF ChainsInside
  <2>1. k \in InUse(s) /\ s.chain[k]
    BY <1>4, <1>9, <1>11
  <2>2. k < MAX_TX_DCBS - 1 /\ Pos(s, k) + 1 < Used(s) /\ Pos(s, k) \in Int
    BY <1>8, <1>12, <2>1 DEF DmaOK, ChainsInside
  <2> QED
    BY <1>5, <1>6, <2>2
<1>14. CASE NoDma(s)
  <2>1. InUse(s) = {}
    <3>1. Used(s) = 0
      BY <1>5, <1>14 DEF NoDma, NotIdle
    <3> QED
      BY <1>8, <3>1 DEF InUse, Oldest
  <2>2. SkbDma(t)
    <3>1. /\ t.dma = [st |-> "skb", idx |-> i] /\ t.irq /\ ~t.chain_done /\ ~t.api_active
      BY <1>3, <1>4, <1>14 DEF NoDma, NotIdle
    <3>2. InUse(t) = {i} /\ ~t.done[i] /\ ~(Pos(t, i) < Pos(t, i))
      BY <1>4, <1>5, <1>6, <1>7, <1>9, <1>11, <2>1
    <3> QED
      BY <3>1, <3>2 DEF SkbDma
  <2> QED
    BY <1>4, <1>10, <1>13, <2>2 DEF DmaOK
<1>15. CASE SkbDma(s) /\ ~NoDma(s)
  <2>1. SkbDma(t)
    <3>1. /\ t.dma = s.dma /\ t.irq /\ ~t.chain_done /\ ~t.api_active
          /\ s.dma.st = "skb" /\ s.dma.idx \in InUse(s)
      BY <1>3, <1>4, <1>15 DEF SkbDma
    <3>2. \A k \in InUse(t) : t.done[k] <=> Pos(s, k) < Pos(s, s.dma.idx)
      <4>1. ~(Pos(s, i) < Pos(s, s.dma.idx))
        BY <1>5, <1>7, <1>8, <1>12, <3>1
      <4> QED
        BY <1>4, <1>9, <1>11, <1>15, <4>1 DEF SkbDma
    <3> QED
      BY <1>6, <1>9, <3>1, <3>2 DEF SkbDma
  <2> QED
    BY <1>4, <1>10, <1>13, <2>1 DEF DmaOK
<1>16. CASE ApiDma(s) /\ ~NoDma(s)
  <2>1. NoneDone(t)
    BY <1>4, <1>9, <1>11, <1>16 DEF ApiDma, NoneDone
  <2>2. ApiDma(t)
    BY <1>3, <1>4, <1>16, <2>1 DEF ApiDma
  <2> QED
    BY <1>4, <1>10, <1>13, <2>2 DEF DmaOK
<1>17. CASE DoneDma(s) /\ ~NoDma(s)
  <2>1. s.api_active => NoneDone(t)
    BY <1>4, <1>9, <1>11, <1>17 DEF DoneDma, NoneDone
  <2>2. DonePrefix(t)
    <3> SUFFICES ASSUME NEW a \in InUse(t), NEW b \in InUse(t),
                        t.done[b], Pos(s, a) < Pos(s, b)
                 PROVE  t.done[a]
      BY <1>6 DEF DonePrefix
    <3>1. b \in InUse(s) /\ s.done[b]
      BY <1>4, <1>9, <1>11
    <3>2. a # i
      BY <1>1, <1>7, <1>8, <1>12, <3>1
    <3>3. a \in InUse(s)
      BY <1>9, <3>2
    <3> QED
      BY <1>4, <1>11, <1>17, <3>1, <3>3 DEF DoneDma, DonePrefix
  <2>3. DoneDma(t)
    BY <1>3, <1>4, <1>10, <1>17, <2>1, <2>2 DEF DoneDma
  <2> QED
    BY <1>4, <1>10, <1>13, <2>3 DEF DmaOK
<1> QED
  BY <1>14, <1>15, <1>16, <1>17 DEF DmaOK

-----------------------------------------------------------------------------
(* The invariant holds initially and every action preserves it. *)

LEMMA DmaInit == Init /\ ~basedev_suspend => DmaIInv
<1> SUFFICES ASSUME Init, ~basedev_suspend PROVE DmaIInv
  OBVIOUS
<1>1. RingIInv /\ RingOK(sinfo)
  BY RingInit DEF RingIInv
<1>2. Used(sinfo) = 0 /\ InUse(sinfo) = {}
  BY DEF Init, InUse, Oldest, Used, Pos, Dcbs
<1>3. /\ sinfo.dma = Idle /\ ~sinfo.chain_done /\ ~sinfo.api_active
      /\ sinfo.api_dcb_list = 0 /\ ~sinfo.basedev_suspended
  BY DEF Init
<1>4. DmaOK(sinfo)
  BY <1>1, <1>2, <1>3 DEF DmaOK, ChainsInside, NoDma, Quiet, NotIdle
<1> QED
  BY <1>1, <1>4 DEF DmaIInv, Init

(* A step the channel does not notice and that stops no queue. *)
LEMMA SameDmaStep ==
    ASSUME DmaIInv, RingIInv', SameDma(sinfo, sinfo'),
           latched' => latched \/ sinfo.chain_done, resets' = resets,
           \A d \in Netifs : netif_up'[d] /\ sinfo'.stopped[d]
                              => (netif_up[d] /\ sinfo.stopped[d]) \/ NotIdle(sinfo)
    PROVE  DmaIInv'
<1>1. DmaOK(sinfo') /\ (NotIdle(sinfo') <=> NotIdle(sinfo))
  BY SameDmaKeeps DEF DmaIInv
<1>2. sinfo'.chain_done = sinfo.chain_done
  BY DEF SameDma
<1> QED
  BY <1>1, <1>2 DEF DmaIInv

LEMMA StackXmitDma ==
    ASSUME DmaIInv, RingIInv', NEW d \in Netifs, NEW p \in Skbs, StackXmit(d, p)
    PROVE  DmaIInv'
<1>1. sinfo \in SinfoType /\ RingOK(sinfo')
  BY DEF DmaIInv, RingIInv, TypeOK
<1>2. SameDma(sinfo, sinfo') /\ sinfo'.stopped = sinfo.stopped
  BY <1>1 DEF StackXmit, SameDma, SinfoType
<1> QED
  BY <1>2, SameDmaStep DEF StackXmit

LEMMA FreeSkbFields ==
    ASSUME NEW s \in SinfoType, NEW p
    PROVE  LET t == FreeSkb(s, p)
           IN  /\ t.free = s.free /\ t.dirty = s.dirty /\ t.chain = s.chain /\ t.done = s.done
               /\ t.api_active = s.api_active /\ t.api_dcb_list = s.api_dcb_list
               /\ t.basedev_suspended = s.basedev_suspended
               /\ t.irq = s.irq /\ t.chain_done = s.chain_done /\ t.dma = s.dma
               /\ t.stopped = s.stopped
BY DEF FreeSkb, SinfoType

LEMMA SuspendFields ==
    ASSUME NEW s \in SinfoType
    PROVE  LET t == bkn_suspend_tx(s)
           IN  /\ t.free = s.free /\ t.dirty = s.dirty /\ t.chain = s.chain /\ t.done = s.done
               /\ t.api_active = s.api_active /\ t.api_dcb_list = s.api_dcb_list
               /\ t.basedev_suspended = s.basedev_suspended
               /\ t.irq = s.irq /\ t.chain_done = s.chain_done /\ t.dma = s.dma
BY DEF bkn_suspend_tx, SinfoType

(* A descriptor outside the ring in use is written: nothing to notice. *)
LEMMA SpareDcbFields ==
    ASSUME NEW s, RingOK(s), NEW p \in Skbs, NEW f \in {ClearDcb(s), FillDcb(s, p)}
    PROVE  /\ f.free = s.free /\ f.dirty = s.dirty
           /\ f.api_active = s.api_active /\ f.api_dcb_list = s.api_dcb_list
           /\ f.basedev_suspended = s.basedev_suspended
           /\ f.irq = s.irq /\ f.chain_done = s.chain_done /\ f.dma = s.dma
           /\ f.stopped = s.stopped
           /\ \A i \in InUse(s) : f.chain[i] = s.chain[i] /\ f.done[i] = s.done[i]
           /\ f \in SinfoType
<1> DEFINE c == [s.chain EXCEPT ![s.cur] = FALSE]
           e == [s.done EXCEPT ![s.cur] = FALSE]
           q == [s.skb EXCEPT ![s.cur] = p]
<1>1. /\ s \in SinfoType /\ s.cur \in Dcbs /\ s.cur \notin InUse(s)
      /\ InUse(s) \subseteq Dcbs
      /\ s.chain \in [Dcbs -> BOOLEAN] /\ s.done \in [Dcbs -> BOOLEAN]
      /\ s.skb \in [Dcbs -> Skbs \cup {NoSkb}]
  BY RingFacts, RingRange DEF RingOK
<1>2. /\ c \in [Dcbs -> BOOLEAN] /\ e \in [Dcbs -> BOOLEAN]
      /\ q \in [Dcbs -> Skbs \cup {NoSkb}]
      /\ \A i \in InUse(s) : c[i] = s.chain[i] /\ e[i] = s.done[i]
  BY <1>1
<1>3. \/ f = [s EXCEPT !.chain = c, !.done = e]
      \/ f = [s EXCEPT !.skb = q, !.chain = c, !.done = e]
  BY <1>1 DEF ClearDcb, FillDcb, SinfoType
<1> HIDE DEF c, e, q
<1>4. CASE f = [s EXCEPT !.chain = c, !.done = e]
  BY <1>1, <1>2, <1>4 DEF SinfoType
<1>5. CASE f = [s EXCEPT !.skb = q, !.chain = c, !.done = e]
  BY <1>1, <1>2, <1>5 DEF SinfoType
<1> QED
  BY <1>3, <1>4, <1>5

LEMMA bkn_txDma ==
    ASSUME DmaIInv, RingIInv', NEW d \in Netifs, bkn_tx(d)
    PROVE  DmaIInv'
<1> DEFINE p == inflight[d]
           s == sinfo
<1>1. /\ s \in SinfoType /\ RingOK(s) /\ RingOK(sinfo') /\ DmaOK(s)
      /\ p \in Skbs
      /\ UNCHANGED <<netif_up, latched, resets>>
  BY DEF DmaIInv, RingIInv, TypeOK, bkn_tx
<1>2. TxDrop(p) \/ TxMapError(p) \/ TxEnqueue(p) \/ TxNoResources(p)
  BY DEF bkn_tx
<1> HIDE DEF p
<1>3. ASSUME NEW f \in {s, ClearDcb(s), FillDcb(s, p)}, sinfo' = FreeSkb(f, p)
      PROVE  DmaIInv'
  <2>1. /\ f.free = s.free /\ f.dirty = s.dirty
        /\ f.api_active = s.api_active /\ f.api_dcb_list = s.api_dcb_list
        /\ f.basedev_suspended = s.basedev_suspended
        /\ f.irq = s.irq /\ f.chain_done = s.chain_done /\ f.dma = s.dma
        /\ f.stopped = s.stopped
        /\ \A i \in InUse(s) : f.chain[i] = s.chain[i] /\ f.done[i] = s.done[i]
        /\ f \in SinfoType
    BY <1>1, SpareDcbFields
  <2>2. SameDma(s, sinfo') /\ sinfo'.stopped = s.stopped
    BY <1>1, <1>3, <2>1, FreeSkbFields DEF SameDma
  <2> QED
    BY <1>1, <2>2, SameDmaStep
<1>4. CASE TxDrop(p) \/ TxMapError(p)
  BY <1>3, <1>4 DEF TxDrop, TxMapError, ClearDcb, FillDcb
<1>5. ASSUME NEW u \in SinfoType, sinfo' = CheckResources(u), DmaOK(u), NotIdle(u),
             u.chain_done \/ ~latched
      PROVE  DmaIInv'
  <2>1. SameDma(u, sinfo') /\ sinfo'.chain_done = u.chain_done
    BY <1>1, <1>5, SuspendFields DEF CheckResources, SameDma
  <2>2. DmaOK(sinfo') /\ NotIdle(sinfo')
    BY <1>5, <2>1, SameDmaKeeps
  <2> QED
    BY <1>1, <1>5, <2>1, <2>2 DEF DmaIInv
<1>6. CASE TxEnqueue(p)
  <2> DEFINE f == FillDcb(s, p)
             g == bkn_tx_dma_start(f)
             t == TakeDcb(g)
  <2>1. s.free > 1 /\ sinfo' = CheckResources(t)
    BY <1>6 DEF TxEnqueue, FillDcb, TakeDcb
  <2>2. s.chain_done => g.chain_done
    <3>1. f.free = s.free /\ f.api_active = s.api_active /\ f.chain_done = s.chain_done
      BY <1>1, SpareDcbFields
    <3>2. s.chain_done => NotIdle(s)
      BY <1>1 DEF DmaOK, SkbDma, ApiDma, DoneDma, NoDma, Quiet
    <3>3. NotIdle(s) => ~(s.free = MAX_TX_DCBS /\ ~s.api_active)
      BY <1>1, RingRange DEF NotIdle, Used
    <3> HIDE DEF f
    <3> QED
      BY <3>1, <3>2, <3>3 DEF bkn_tx_dma_start
  <2>3. /\ t \in SinfoType /\ RingOK(t) /\ t.chain_done = g.chain_done
    <3>1. RingOK(f) /\ f.free > 1 /\ f.skb[f.cur] = p
      <4>1. Owns(s, InFlightSkbs)
        BY DEF DmaIInv, RingIInv
      <4>2. /\ RingOK(f) /\ f.skb = [s.skb EXCEPT ![s.cur] = p]
            /\ f.free = s.free /\ f.cur = s.cur
        BY <1>1, <4>1, FillDcbRing
      <4>3. s.cur \in Dcbs /\ s.skb \in [Dcbs -> Skbs \cup {NoSkb}]
        BY <1>1, RingRange, RingFacts
      <4> HIDE DEF f
      <4> QED
        BY <2>1, <4>2, <4>3
    <3> HIDE DEF f
    <3>2. SameRing(f, g) /\ f \in SinfoType
      BY <3>1, DmaStartFrame DEF RingOK
    <3>3. RingOK(g) /\ g.free > 1 /\ g \in SinfoType
      BY <3>1, <3>2, SameRingKeeps DEF SameRing
    <3> HIDE DEF g
    <3>4. /\ Wrap(g.cur + 1) \in Dcbs
          /\ g.free - 1 \in 0 .. MAX_TX_DCBS /\ g.free - 1 >= 1
      BY <3>3, RingRange DEF Dcbs, Wrap
    <3>5. /\ t \in SinfoType /\ t.free = g.free - 1 /\ t.dirty = g.dirty
          /\ t.cur = Wrap(g.cur + 1) /\ t.chain = g.chain
          /\ t.chain_done = g.chain_done
      BY <3>3, <3>4 DEF TakeDcb, SinfoType
    <3> HIDE DEF t
    <3>6. t.cur = Wrap(t.dirty + Used(t))
      <4>1. g.cur = Wrap(g.dirty + Used(g))
        BY <3>3 DEF RingOK
      <4> QED
        BY <3>3, <3>5, <4>1, RingRange DEF Wrap, Used
    <3> QED
      BY <3>3, <3>4, <3>5, <3>6 DEF RingOK
  <2>4. DmaOK(t) /\ NotIdle(t)
    BY <1>1, <2>1, <2>3, EnqueueDma
  <2> HIDE DEF g, t
  <2>5. latched => t.chain_done
    BY <2>2, <2>3 DEF DmaIInv
  <2> QED
    BY <1>5, <2>1, <2>3, <2>4, <2>5
<1>7. CASE TxNoResources(p)
  <2> DEFINE u == FreeSkb(s, p)
  <2>1. sinfo' = CheckResources(u) /\ s.free <= 1
    BY <1>7 DEF TxNoResources
  <2>2. u \in SinfoType /\ RingOK(u)
    <3>1. s.owned \ {p} \in SUBSET Skbs
      BY <1>1, RingRange
    <3>2. u \in SinfoType
      BY <1>1, <3>1 DEF FreeSkb, SinfoType
    <3>3. u.free = s.free /\ u.cur = s.cur /\ u.dirty = s.dirty /\ u.chain = s.chain
      BY <1>1 DEF FreeSkb, SinfoType
    <3> HIDE DEF u
    <3> QED
      BY <1>1, <3>2, <3>3 DEF RingOK, Used
  <2>3. SameDma(s, u)
    BY <1>1, <2>2, FreeSkbFields DEF SameDma
  <2>4. NotIdle(s)
    BY <1>1, <2>1, RingRange DEF NotIdle, Used
  <2>5. DmaOK(u) /\ NotIdle(u) /\ u.chain_done = s.chain_done
    BY <1>1, <2>3, <2>4, SameDmaKeeps DEF SameDma
  <2> HIDE DEF u
  <2> QED
    BY <1>5, <2>1, <2>2, <2>5 DEF DmaIInv
<1> QED
  BY <1>2, <1>4, <1>6, <1>7

LEMMA HwDcbDoneDma ==
    ASSUME DmaIInv, RingIInv', HwDcbDone
    PROVE  DmaIInv'
<1> DEFINE s == sinfo
           t == sinfo'
           i == sinfo.dma.idx
           e == [s.done EXCEPT ![i] = TRUE]
<1>1. /\ s \in SinfoType /\ RingOK(s) /\ DmaOK(s) /\ RingOK(t)
      /\ UNCHANGED <<netif_up, latched, resets>> /\ s.dma \in DmaStates
  BY DEF DmaIInv, RingIInv, TypeOK, HwDcbDone, SinfoType
<1>2. SkbDma(s)
  BY <1>1 DEF HwDcbDone, DmaOK, ApiDma, DoneDma, NoDma, Quiet, Idle
<1>3. /\ i \in InUse(s) /\ i \in Dcbs /\ InUse(s) \subseteq Dcbs
      /\ e = [e EXCEPT ![i] = TRUE] /\ e \in [Dcbs -> BOOLEAN]
      /\ s.done \in [Dcbs -> BOOLEAN]
  BY <1>1, <1>2, RingFacts, RingRange DEF SkbDma
<1>4. IF s.chain[i]
      THEN t = [s EXCEPT !.done = e, !.dma = [s.dma EXCEPT !.idx = i + 1]]
      ELSE t = [s EXCEPT !.done = e, !.dma = Idle, !.chain_done = TRUE]
  BY <1>1 DEF HwDcbDone, SinfoType
<1> HIDE DEF e
<1>5. /\ t.free = s.free /\ t.dirty = s.dirty /\ t.chain = s.chain /\ t.done = e
      /\ t.api_active = s.api_active /\ t.api_dcb_list = s.api_dcb_list
      /\ t.basedev_suspended = s.basedev_suspended /\ t.irq = s.irq
      /\ t.stopped = s.stopped
      /\ IF s.chain[i]
         THEN t.dma = [s.dma EXCEPT !.idx = i + 1] /\ t.chain_done = s.chain_done
         ELSE t.dma = Idle /\ t.chain_done
  BY <1>1, <1>4 DEF SinfoType
<1>6. /\ InUse(t) = InUse(s) /\ Used(t) = Used(s) /\ \A k : Pos(t, k) = Pos(s, k)
  BY <1>5 DEF InUse, Oldest, Pos, Used
<1>7. /\ \A k \in Dcbs : Pos(s, k) \in 0 .. MAX_TX_DCBS - 1
      /\ Used(s) \in 0 .. MAX_TX_DCBS - 1
      /\ s.dirty \in 0 .. MAX_TX_DCBS - 1
      /\ \A j, k \in Dcbs : Pos(s, j) = Pos(s, k) => j = k
  BY <1>1, RingFacts, RingRange DEF Dcbs
<1>8. /\ NotIdle(t) <=> NotIdle(s)
      /\ ChainsInside(t)
  BY <1>1, <1>5, <1>6 DEF NotIdle, ChainsInside, DmaOK
<1>9. \A k \in InUse(t) : t.done[k] <=> Pos(s, k) < Pos(s, i) + 1
  <2> SUFFICES ASSUME NEW k \in InUse(s) PROVE e[k] <=> Pos(s, k) < Pos(s, i) + 1
    BY <1>5, <1>6
  <2>1. e[k] <=> k = i \/ Pos(s, k) < Pos(s, i)
    BY <1>2, <1>3 DEF SkbDma, e
  <2>2. k \in Dcbs /\ (Pos(s, k) = Pos(s, i) => k = i)
    BY <1>3, <1>7
  <2> QED
    BY <1>3, <1>7, <2>1, <2>2
<1>10. CASE s.chain[i]
  <2>1. i < MAX_TX_DCBS - 1 /\ Pos(s, i) + 1 < Used(s)
    BY <1>1, <1>3, <1>10 DEF DmaOK, ChainsInside
  <2>2. i + 1 \in Dcbs /\ Pos(s, i + 1) = Pos(s, i) + 1
    <3>1. i \in 0 .. MAX_TX_DCBS - 2 /\ s.dirty \in 0 .. MAX_TX_DCBS - 1
      BY <1>3, <1>7, <2>1 DEF Dcbs
    <3>2. Pos(s, i) + 1 < MAX_TX_DCBS
      BY <1>3, <1>7, <2>1
    <3> HIDE DEF i
    <3> QED
      BY <3>1, <3>2 DEF Dcbs, Pos
  <2>3. i + 1 \in InUse(s)
    BY <2>1, <2>2 DEF InUse, Oldest
  <2>4. t.dma.st = "skb" /\ t.dma.idx = i + 1
    BY <1>1, <1>2, <1>5, <1>10 DEF SkbDma, DmaStates
  <2>5. SkbDma(t)
    BY <1>2, <1>5, <1>6, <1>9, <1>10, <2>2, <2>3, <2>4 DEF SkbDma
  <2>6. DmaOK(t) /\ (t.chain_done <=> s.chain_done)
    BY <1>1, <1>5, <1>8, <1>10, <2>5 DEF DmaOK
  <2> QED
    BY <1>1, <1>5, <1>8, <2>6 DEF DmaIInv
<1>11. CASE ~s.chain[i]
  <2>1. NotIdle(s)
    <3>1. Pos(s, i) < Used(s)
      BY <1>3 DEF InUse, Oldest
    <3> QED
      BY <1>3, <1>7, <3>1 DEF NotIdle
  <2>2. DonePrefix(t)
    <3> SUFFICES ASSUME NEW a \in InUse(t), NEW b \in InUse(t),
                        t.done[b], Pos(s, a) < Pos(s, b)
                 PROVE  t.done[a]
      BY <1>6 DEF DonePrefix
    <3>1. Pos(s, b) < Pos(s, i) + 1
      BY <1>9
    <3>2. /\ Pos(s, a) \in Int /\ Pos(s, b) \in Int /\ Pos(s, i) \in Int
      BY <1>3, <1>6, <1>7
    <3>3. Pos(s, a) < Pos(s, i) + 1
      BY <3>1, <3>2
    <3> QED
      BY <1>9, <3>3
  <2>3. DoneDma(t)
    BY <1>2, <1>5, <1>8, <1>11, <2>1, <2>2 DEF SkbDma, DoneDma
  <2>4. DmaOK(t)
    BY <1>1, <1>5, <1>8, <2>3 DEF DmaOK
  <2> QED
    BY <1>1, <1>5, <1>8, <1>11, <2>4 DEF DmaIInv
<1> QED
  BY <1>10, <1>11

LEMMA HwApiDoneDma ==
    ASSUME DmaIInv, RingIInv', HwApiDone
    PROVE  DmaIInv'
<1> DEFINE s == sinfo
           t == sinfo'
<1>1. /\ s \in SinfoType /\ RingOK(s) /\ DmaOK(s) /\ RingOK(t)
      /\ UNCHANGED <<netif_up, latched, resets>>
  BY DEF DmaIInv, RingIInv, TypeOK, HwApiDone
<1>2. ApiDma(s)
  BY <1>1 DEF HwApiDone, DmaOK, SkbDma, DoneDma, NoDma, Quiet, Idle
<1>3. /\ t.free = s.free /\ t.dirty = s.dirty /\ t.chain = s.chain /\ t.done = s.done
      /\ t.api_active /\ t.api_dcb_list = s.api_dcb_list
      /\ ~t.basedev_suspended /\ t.irq /\ t.stopped = s.stopped
      /\ t.dma = Idle /\ t.chain_done
  BY <1>1, <1>2 DEF HwApiDone, SinfoType, ApiDma, DmaOK
<1>4. /\ InUse(t) = InUse(s) /\ Used(t) = Used(s) /\ \A k : Pos(t, k) = Pos(s, k)
  BY <1>3 DEF InUse, Oldest, Pos, Used
<1>5. /\ NotIdle(t) /\ ChainsInside(t) /\ NoneDone(t)
  BY <1>1, <1>2, <1>3, <1>4 DEF NotIdle, ChainsInside, NoneDone, DmaOK, ApiDma
<1>6. DoneDma(t)
  BY <1>3, <1>5 DEF DoneDma, DonePrefix, NoneDone
<1>7. DmaOK(t)
  BY <1>1, <1>3, <1>5, <1>6 DEF DmaOK
<1> QED
  BY <1>1, <1>3, <1>5, <1>7 DEF DmaIInv

LEMMA DmaTxDma ==
    ASSUME DmaIInv, RingIInv', DmaTx
    PROVE  DmaIInv'
<1>1. /\ DmaOK(sinfo) /\ sinfo.chain_done /\ ~latched'
      /\ UNCHANGED <<netif_up, resets>>
  BY DEF DmaIInv, DmaTx
<1>2. PICK n \in 0 .. Used(sinfo) : IsDonePrefix(sinfo, n) /\ sinfo' = do_dma_tx(sinfo, n)
  BY DEF DmaTx
<1>3. DmaOK(sinfo') /\ \A d \in Netifs : sinfo'.stopped[d] => NotIdle(sinfo')
  BY <1>1, <1>2, DoDmaOK
<1> QED
  BY <1>1, <1>3 DEF DmaIInv

LEMMA DmaInfoDma ==
    ASSUME DmaIInv, RingIInv', bkn_knet_dma_info_tx
    PROVE  DmaIInv'
<1> DEFINE s == sinfo
           s0 == bkn_suspend_tx(s)
           s1 == [s0 EXCEPT !.api_dcb_list = @ + 1]
<1>1. /\ s \in SinfoType /\ RingOK(s) /\ DmaOK(s) /\ RingOK(sinfo')
      /\ UNCHANGED <<netif_up, latched, resets>>
      /\ s.api_dcb_list \in 0 .. MAX_API_CHAINS
      /\ s.api_dcb_list + 1 \in 0 .. MAX_API_CHAINS
  BY DEF DmaIInv, RingIInv, TypeOK, bkn_knet_dma_info_tx, SinfoType
<1>2. sinfo' = IF s1.free = MAX_TX_DCBS /\ ~s1.api_active /\ ~s1.basedev_suspended
               THEN bkn_api_tx(s1) ELSE s1
  BY DEF bkn_knet_dma_info_tx
<1>3. RingOK(s0) /\ s0 \in SinfoType
  BY <1>1, SuspendFrame, SameRingKeeps DEF SameRing
<1>4. /\ s0.free = s.free /\ s0.dirty = s.dirty /\ s0.chain = s.chain /\ s0.done = s.done
      /\ s0.api_active = s.api_active /\ s0.api_dcb_list = s.api_dcb_list
      /\ s0.basedev_suspended = s.basedev_suspended
      /\ s0.irq = s.irq /\ s0.chain_done = s.chain_done /\ s0.dma = s.dma
  BY <1>1, SuspendFields
<1> HIDE DEF s0
<1>5. SameDma(s, s0)
  BY <1>3, <1>4 DEF SameDma
<1>6. DmaOK(s0)
  BY <1>1, <1>5, SameDmaKeeps
<1>7. /\ SameRing(s0, s1) /\ s1.api_dcb_list = s.api_dcb_list + 1
      /\ s1.free = s0.free /\ s1.dirty = s0.dirty /\ s1.chain = s0.chain /\ s1.done = s0.done
      /\ s1.api_active = s0.api_active
      /\ s1.basedev_suspended = s0.basedev_suspended
      /\ s1.irq = s0.irq /\ s1.chain_done = s0.chain_done /\ s1.dma = s0.dma
  BY <1>1, <1>3, <1>4 DEF SameRing, SinfoType
<1>8. RingOK(s1)
  BY <1>3, <1>7, SameRingKeeps
<1> HIDE DEF s1
<1>9. /\ InUse(s1) = InUse(s0) /\ Used(s1) = Used(s0) /\ \A k : Pos(s1, k) = Pos(s0, k)
  BY <1>7 DEF InUse, Oldest, Pos, Used
<1>10. /\ ChainsInside(s1)
       /\ SkbDma(s1) \/ ApiDma(s1) \/ DoneDma(s1) \/ NoDma(s1)
       /\ ~s1.basedev_suspended
  <2>1. ChainsInside(s1) /\ ~s1.basedev_suspended
    BY <1>6, <1>7, <1>9 DEF DmaOK, ChainsInside
  <2>2. SkbDma(s0) => SkbDma(s1)
    BY <1>7, <1>9 DEF SkbDma
  <2>3. ApiDma(s0) => ApiDma(s1)
    BY <1>7, <1>9 DEF ApiDma, NoneDone
  <2>4. DoneDma(s0) => DoneDma(s1)
    BY <1>7, <1>9 DEF DoneDma, NoneDone, DonePrefix, NotIdle
  <2>5. NoDma(s0) => NoDma(s1)
    BY <1>7, <1>9 DEF NoDma, Quiet, NotIdle
  <2> QED
    BY <1>6, <2>1, <2>2, <2>3, <2>4, <2>5 DEF DmaOK
<1>11. CASE NotIdle(s1)
  <2>1. ~(s1.free = MAX_TX_DCBS /\ ~s1.api_active)
    BY <1>8, <1>11, RingRange DEF NotIdle, Used
  <2>2. sinfo' = s1
    BY <1>2, <2>1
  <2>3. DmaOK(s1)
    BY <1>8, <1>10, <1>11 DEF DmaOK
  <2> QED
    BY <1>1, <1>4, <1>7, <1>11, <2>2, <2>3 DEF DmaIInv
<1>12. CASE ~NotIdle(s1)
  <2>1. s1.free = MAX_TX_DCBS /\ ~s1.api_active /\ Used(s1) = 0
    BY <1>8, <1>12, RingRange DEF NotIdle, Used
  <2>2. sinfo' = bkn_api_tx(s1)
    BY <1>2, <1>10, <2>1
  <2>3. InUse(s1) = {}
    BY <1>8, <2>1, RingFacts DEF InUse, Oldest, Dcbs
  <2>4. NoDma(s1)
    BY <1>10, <1>12, <2>1, <2>3 DEF SkbDma, ApiDma, DoneDma
  <2>5. Ready(s1) /\ s1.api_dcb_list # 0
    BY <1>1, <1>7, <1>8, <1>10, <2>3, <2>4 DEF Ready, NoneDone, NoDma, Quiet
  <2>6. DmaOK(sinfo') /\ NotIdle(sinfo')
    BY <2>2, <2>5, ApiTxStarts DEF NotIdle
  <2>7. ~latched
    BY <1>4, <1>7, <2>4 DEF NoDma, Quiet, DmaIInv
  <2> QED
    BY <1>1, <2>6, <2>7 DEF DmaIInv
<1> QED
  BY <1>11, <1>12

LEMMA OtherDma ==
    ASSUME DmaIInv, RingIInv',
           \/ TakeTxEvent \/ bkn_hw_tstamp_tx_work
           \/ \E d \in Netifs : OpenNetif(d) \/ StopNetif(d)
    PROVE  DmaIInv'
<1>1. sinfo \in SinfoType /\ RingOK(sinfo') /\ ~sinfo.basedev_suspended
  BY DEF DmaIInv, RingIInv, TypeOK, DmaOK
<1>2. CASE TakeTxEvent
  <2>1. SameDma(sinfo, sinfo') /\ sinfo'.stopped = sinfo.stopped
    BY <1>1, <1>2 DEF TakeTxEvent, SameDma, SinfoType
  <2> QED
    BY <1>2, <2>1, SameDmaStep DEF TakeTxEvent
<1>3. CASE bkn_hw_tstamp_tx_work
  <2>1. PICK p : sinfo' = FreeSkb([sinfo EXCEPT !.tx_ptp_queue = @ \ {p}], p)
    BY <1>3 DEF bkn_hw_tstamp_tx_work
  <2>2. SameDma(sinfo, sinfo') /\ sinfo'.stopped = sinfo.stopped
    BY <1>1, <2>1 DEF FreeSkb, SameDma, SinfoType
  <2> QED
    BY <1>3, <2>2, SameDmaStep DEF bkn_hw_tstamp_tx_work
<1>4. ASSUME NEW d \in Netifs, OpenNetif(d) \/ StopNetif(d)
      PROVE  DmaIInv'
  <2> DEFINE b == IF OpenNetif(d) THEN sinfo.stopped[d] /\ sinfo.basedev_suspended ELSE TRUE
             f == [sinfo.stopped EXCEPT ![d] = b]
  <2>1. sinfo.stopped \in [Netifs -> BOOLEAN] /\ netif_up \in [Netifs -> BOOLEAN]
    BY <1>1 DEF SinfoType, DmaIInv, RingIInv, TypeOK
  <2>2. sinfo' = [sinfo EXCEPT !.stopped = f]
    BY <1>1, <1>4 DEF OpenNetif, StopNetif, SinfoType
  <2>3. \A e \in Netifs : netif_up'[e] /\ f[e] => netif_up[e] /\ sinfo.stopped[e]
    BY <1>1, <1>4, <2>1 DEF OpenNetif, StopNetif
  <2> HIDE DEF f
  <2>4. SameDma(sinfo, sinfo') /\ sinfo'.stopped = f
    BY <1>1, <2>2 DEF SameDma, SinfoType
  <2>5. UNCHANGED <<latched, resets>>
    BY <1>4 DEF OpenNetif, StopNetif
  <2> QED
    BY <2>3, <2>4, <2>5, SameDmaStep
<1> QED
  BY <1>2, <1>3, <1>4

LEMMA BaseDma ==
    ASSUME DmaIInv, RingIInv', ~basedev_suspend, OpenBase \/ StopBase
    PROVE  DmaIInv'
<1>1. ~sinfo.basedev_suspended
  BY DEF DmaIInv, DmaOK
<1>2. UNCHANGED <<sinfo, netif_up, latched, resets>>
  BY <1>1 DEF OpenBase, StopBase
<1> QED
  BY <1>2 DEF DmaIInv

LEMMA ResetDma ==
    ASSUME DmaIInv, RingIInv', ~basedev_suspend, ~ResetRaces,
           bkn_knet_hw_reset(FALSE) \/ bkn_knet_hw_init(FALSE)
    PROVE  DmaIInv'
<1> DEFINE s == sinfo
           t == sinfo'
           a == bkn_dma_abort_tx(s, FALSE)
           s1 == bkn_clean_tx_dcbs(a)
<1>1. /\ s \in SinfoType /\ RingOK(s) /\ ~s.basedev_suspended /\ RingOK(t)
      /\ resets \in Nat
  BY DEF DmaIInv, RingIInv, TypeOK, DmaOK
<1>2. a.dma = Idle /\ ~a.chain_done /\ a.api_dcb_list = 0 /\ ~a.basedev_suspended
  BY <1>1 DEF bkn_dma_abort_tx, SinfoType
<1>3. a \in SinfoType
  BY <1>1, AbortFrame DEF SameRing
<1> HIDE DEF a
<1>4. /\ s1.dma = Idle /\ ~s1.chain_done /\ s1.api_dcb_list = 0 /\ ~s1.basedev_suspended
      /\ ~s1.api_active /\ s1.free = MAX_TX_DCBS
  BY <1>2, <1>3 DEF bkn_clean_tx_dcbs, SinfoType
<1>5. RingOK(s1) /\ s1 \in SinfoType
  BY AbortCleanRing DEF DmaIInv, RingIInv, RingOK, a
<1> HIDE DEF s1
<1>6. /\ t.dma = Idle /\ ~t.chain_done /\ t.api_dcb_list = 0 /\ ~t.basedev_suspended
      /\ ~t.api_active /\ t.free = MAX_TX_DCBS
  <2>1. CASE bkn_knet_hw_reset(FALSE)
    <3>1. t = [s1 EXCEPT !.tx_ptp_queue = {}, !.owned = @ \ s.tx_ptp_queue]
      BY <2>1 DEF bkn_knet_hw_reset, s1, a
    <3> QED
      BY <1>4, <1>5, <3>1 DEF SinfoType
  <2>2. CASE bkn_knet_hw_init(FALSE)
    <3>1. t = bkn_init_dcbs([s1 EXCEPT !.basedev_suspended =
                                 @ \/ (basedev_suspend /\ ~base_up)])
      BY <2>2 DEF bkn_knet_hw_init, s1, a
    <3> QED
      BY <1>4, <1>5, <3>1 DEF SinfoType, bkn_init_dcbs
  <2> QED
    BY <2>1, <2>2
<1>7. Used(t) = 0 /\ InUse(t) = {}
  BY <1>1, <1>6, RingFacts DEF Used, InUse, Oldest, Dcbs
<1>8. DmaOK(t)
  BY <1>1, <1>6, <1>7 DEF DmaOK, ChainsInside, NoDma, Quiet, NotIdle
<1>9. ~latched' /\ resets' # 0
  BY <1>1 DEF bkn_knet_hw_reset, bkn_knet_hw_init, MayReset
<1> QED
  BY <1>8, <1>9 DEF DmaIInv

LEMMA DmaNext ==
    ASSUME ~basedev_suspend, ~ResetRaces
    PROVE  DmaIInv /\ [Next]_vars => DmaIInv'
<1> SUFFICES ASSUME DmaIInv, [Next]_vars PROVE DmaIInv'
  OBVIOUS
<1>1. RingIInv'
  BY RingNext DEF DmaIInv
<1>2. CASE DmaLatch
  <2>1. SameDma(sinfo, sinfo')
    BY <1>1, <1>2 DEF DmaLatch, SameDma, RingIInv
  <2> QED
    BY <1>1, <1>2, <2>1, SameDmaStep DEF DmaLatch
<1>3. CASE \E stale \in Stale : bkn_knet_hw_reset(stale) \/ bkn_knet_hw_init(stale)
  <2>1. Stale = {FALSE}
    BY DEF Stale
  <2> QED
    BY <1>1, <1>3, <2>1, ResetDma
<1>4. CASE UNCHANGED vars
  BY <1>1, <1>4 DEF vars, DmaIInv
<1> QED
  BY <1>1, <1>2, <1>3, <1>4, StackXmitDma, bkn_txDma, HwDcbDoneDma, HwApiDoneDma,
     DmaTxDma, DmaInfoDma, OtherDma, BaseDma DEF Next

LEMMA DmaAlways ==
    ASSUME ~basedev_suspend, ~ResetRaces
    PROVE  Spec => []DmaIInv
<1>1. Init => DmaIInv
  BY DmaInit
<1> QED
  BY <1>1, DmaNext, PTL DEF Spec

(* With the default module parameters the Tx channel is never started      *)
(* while it is busy, and the hardware works only on a DCB that holds a     *)
(* packet it has not sent: for every ring size.                            *)
THEOREM TxHwOnLiveDcb ==
    ASSUME ~basedev_suspend, ~ResetRaces
    PROVE  Spec => []HwOnLiveDcb
<1>1. DmaIInv => HwOnLiveDcb
  <2> SUFFICES ASSUME DmaIInv PROVE HwOnLiveDcb
    OBVIOUS
  <2>1. DmaOK(sinfo) /\ RingOK(sinfo)
    BY DEF DmaIInv, DmaOK
  <2>2. CASE SkbDma(sinfo)
    <3>1. /\ sinfo.dma.st = "skb" /\ sinfo.dma.idx \in InUse(sinfo)
          /\ sinfo.done[sinfo.dma.idx]
                 <=> Pos(sinfo, sinfo.dma.idx) < Pos(sinfo, sinfo.dma.idx)
      BY <2>2 DEF SkbDma
    <3>2. Pos(sinfo, sinfo.dma.idx) \in Int
      BY <2>1, <3>1, RingFacts DEF Dcbs
    <3> QED
      BY <3>1, <3>2 DEF HwOnLiveDcb
  <2>3. CASE ~SkbDma(sinfo)
    <3>1. sinfo.dma.st \in {"idle", "api"}
      BY <2>1, <2>3 DEF DmaOK, ApiDma, DoneDma, NoDma, Quiet, Idle
    <3> QED
      BY <3>1 DEF HwOnLiveDcb
  <2> QED
    BY <2>2, <2>3
<1> QED
  BY <1>1, DmaAlways, PTL

(* Under the same conditions nobody leaves a packet or an API chain behind *)
(* with no completion to come, for every ring size and number of resets.   *)
THEOREM TxNoLostCompletion ==
    ASSUME ~basedev_suspend, ~ResetRaces
    PROVE  Spec => []NoLostCompletion
<1>1. DmaIInv => NoLostCompletion
  BY DEF DmaIInv, DmaOK, SkbDma, ApiDma, DoneDma, NoDma, Quiet, NotIdle, Idle,
         NoLostCompletion
<1> QED
  BY <1>1, DmaAlways, PTL

(* ... and a stopped queue always has a chain done to come that wakes it.  *)
THEOREM TxNoLostWakeup ==
    ASSUME ~basedev_suspend, ~ResetRaces
    PROVE  Spec => []NoLostWakeup
<1>1. DmaIInv => NoLostWakeup
  BY DEF DmaIInv, DmaOK, SkbDma, ApiDma, DoneDma, NoDma, Quiet, NotIdle, Idle,
         NoLostWakeup
<1> QED
  BY <1>1, DmaAlways, PTL

-----------------------------------------------------------------------------
(* The ring implements the queue of PacketQueue.  What is not sent yet is  *)
(* the ring without its oldest n DCBs, the ones the hardware has marked    *)
(* done.                                                                   *)
SentUpTo(s, n) ==
    /\ n \in 0 .. Used(s)
    /\ \A i \in InUse(s) : s.done[i] <=> Pos(s, i) < n

Rest(s, n) == [k \in 1 .. Used(s) - n |-> s.skb[Wrap(s.dirty + n + k - 1)]]

(* Unsent, of a given state of the ring. *)
UnsentOf(s) ==
    LET waiting == {i \in InUse(s) : ~s.done[i]}
        first == Used(s) - Cardinality(waiting)
    IN  [k \in 1 .. Cardinality(waiting) |-> s.skb[Wrap(s.dirty + first + k - 1)]]

(* The DCB at a given distance from dirty. *)
LEMMA At ==
    ASSUME NEW s, RingOK(s), NEW m \in 0 .. MAX_TX_DCBS - 1
    PROVE  /\ Wrap(s.dirty + m) \in Dcbs
           /\ Pos(s, Wrap(s.dirty + m)) = m
           /\ m < Used(s) => Wrap(s.dirty + m) \in InUse(s)
<1> DEFINE d == s.dirty
           j == Wrap(d + m)
<1>1. d \in 0 .. MAX_TX_DCBS - 1
  BY RingRange
<1> HIDE DEF d
<1>2. j = IF d + m >= MAX_TX_DCBS THEN d + m - MAX_TX_DCBS ELSE d + m
  BY <1>1 DEF Wrap
<1>3. j \in 0 .. MAX_TX_DCBS - 1
  BY <1>1, <1>2
<1> HIDE DEF j
<1>4. (IF j >= d THEN j - d ELSE j - d + MAX_TX_DCBS) = m
  BY <1>1, <1>2, <1>3
<1>5. Pos(s, j) = m
  BY <1>4 DEF Pos, d
<1>6. m < Used(s) => j \in InUse(s)
  BY <1>3, <1>5 DEF InUse, Oldest, Dcbs
<1> QED
  BY <1>3, <1>5, <1>6 DEF j, d, Dcbs

LEMMA UnsentIsRest ==
    ASSUME NEW s, RingOK(s), NEW n, SentUpTo(s, n)
    PROVE  UnsentOf(s) = Rest(s, n)
<1> DEFINE waiting == {i \in InUse(s) : ~s.done[i]}
           u == Used(s)
           f == [m \in n .. u - 1 |-> Wrap(s.dirty + m)]
<1>1. /\ u \in 0 .. MAX_TX_DCBS - 1 /\ n \in 0 .. u
      /\ \A i \in InUse(s) : i \in Dcbs /\ Pos(s, i) \in 0 .. u - 1
      /\ \A i \in InUse(s) : s.done[i] <=> Pos(s, i) < n
  BY RingFacts DEF SentUpTo, InUse, Oldest, Dcbs
<1> HIDE DEF u
<1>2. ASSUME NEW m \in n .. u - 1
      PROVE  f[m] \in waiting /\ Pos(s, f[m]) = m
  <2>1. m \in 0 .. MAX_TX_DCBS - 1 /\ m < Used(s) /\ ~(m < n)
    BY <1>1 DEF u
  <2>2. f[m] \in InUse(s) /\ Pos(s, f[m]) = m
    BY <2>1, At
  <2> QED
    BY <1>1, <2>1, <2>2
<1>3. ASSUME NEW i \in waiting
      PROVE  \E m \in n .. u - 1 : f[m] = i
  <2>1. Pos(s, i) \in n .. u - 1
    BY <1>1
  <2>2. f[Pos(s, i)] = i
    BY <1>1, <2>1, RingFacts
  <2> QED
    BY <2>1, <2>2
<1>4. f \in Bijection(n .. u - 1, waiting)
  <2>1. f \in [n .. u - 1 -> waiting]
    BY <1>2
  <2>2. \A a, b \in n .. u - 1 : f[a] = f[b] => a = b
    BY <1>2
  <2> HIDE DEF f, waiting
  <2>3. f \in Injection(n .. u - 1, waiting)
    BY <2>1, <2>2 DEF Injection, IsInjective
  <2>4. f \in Surjection(n .. u - 1, waiting)
    BY <1>3, <2>1 DEF Surjection
  <2> QED
    BY <2>3, <2>4 DEF Bijection
<1> HIDE DEF f, waiting
<1>5. Cardinality(waiting) = u - n
  <2>1. n \in Int /\ u - 1 \in Int
    BY <1>1
  <2>2. /\ IsFiniteSet(n .. u - 1)
        /\ Cardinality(n .. u - 1) = IF n > u - 1 THEN 0 ELSE u - 1 - n + 1
    BY <2>1, FS_Interval
  <2>3. Cardinality(n .. u - 1) = u - n
    BY <1>1, <2>2
  <2>4. Cardinality(waiting) = Cardinality(n .. u - 1)
    <3>1. ExistsBijection(n .. u - 1, waiting)
      BY <1>4 DEF ExistsBijection
    <3> QED
      BY <2>2, <3>1, FS_Bijection
  <2> QED
    BY <2>3, <2>4
<1>6. u - (u - n) = n
  BY <1>1
<1> QED
  BY <1>5, <1>6, Zenon DEF UnsentOf, Rest, u, waiting

LEMMA LeastOf ==
    ASSUME NEW S, S \subseteq Nat, S # {}
    PROVE  \E n \in S : \A m \in S : n <= m
<1> DEFINE less == OpToRel(<, Nat)
<1>1. PICK n \in S : \A m \in S : <<m, n>> \notin less
  <2>1. IsWellFoundedOn(less, Nat)
    BY NatLessThanWellFounded
  <2> HIDE DEF less
  <2> QED
    BY <2>1, WFMin
<1>2. ASSUME NEW m \in S PROVE n <= m
  <2>1. n \in Nat /\ m \in Nat
    OBVIOUS
  <2>2. m < n => <<m, n>> \in less
    BY <2>1 DEF OpToRel
  <2> HIDE DEF less
  <2> QED
    BY <1>1, <2>1, <2>2
<1> QED
  BY <1>2

(* The channel has always sent the oldest DCBs. *)
LEMMA SentSome ==
    ASSUME NEW s, DmaOK(s)
    PROVE  \E n : SentUpTo(s, n)
<1>1. /\ RingOK(s) /\ Used(s) \in 0 .. MAX_TX_DCBS - 1
      /\ \A i \in InUse(s) : i \in Dcbs /\ Pos(s, i) \in 0 .. Used(s) - 1
  BY RingFacts DEF DmaOK, InUse, Oldest, Dcbs
<1>2. CASE SkbDma(s)
  <2>1. Pos(s, s.dma.idx) \in 0 .. Used(s)
    BY <1>1, <1>2 DEF SkbDma
  <2> QED
    BY <1>2, <2>1 DEF SkbDma, SentUpTo
<1>3. CASE NoneDone(s)
  <2>1. \A i \in InUse(s) : ~s.done[i] /\ ~(Pos(s, i) < 0)
    BY <1>1, <1>3 DEF NoneDone
  <2>2. SentUpTo(s, 0)
    BY <1>1, <2>1 DEF SentUpTo
  <2> QED
    BY <2>2
<1>4. CASE DonePrefix(s)
  <2> DEFINE W == {Pos(s, i) : i \in {j \in InUse(s) : ~s.done[j]}}
  <2>1. CASE W = {}
    <3>1. \A i \in InUse(s) : s.done[i] /\ Pos(s, i) < Used(s)
      BY <1>1, <2>1
    <3>2. SentUpTo(s, Used(s))
      BY <1>1, <3>1 DEF SentUpTo
    <3> QED
      BY <3>2
  <2>2. CASE W # {}
    <3>1. W \in SUBSET Nat
      BY <1>1
    <3>2. PICK n \in W : \A m \in W : n <= m
      BY <2>2, <3>1, LeastOf
    <3>3. PICK j \in InUse(s) : ~s.done[j] /\ Pos(s, j) = n
      BY <3>2
    <3>4. n \in 0 .. Used(s)
      BY <1>1, <3>3
    <3>5. ASSUME NEW i \in InUse(s)
          PROVE  s.done[i] <=> Pos(s, i) < n
      <4>1. s.done[i] => ~(n < Pos(s, i)) /\ (Pos(s, i) = n => i = j)
        BY <1>1, <1>4, <3>3, RingFacts DEF DonePrefix
      <4>2. ~s.done[i] => n <= Pos(s, i)
        BY <3>2
      <4>3. Pos(s, i) \in Int /\ n \in Int
        BY <1>1, <3>4
      <4> QED
        BY <3>3, <4>1, <4>2, <4>3
    <3> QED
      BY <3>4, <3>5 DEF SentUpTo
  <2> QED
    BY <2>1, <2>2
<1>5. CASE NoDma(s)
  <2>1. InUse(s) = {}
    BY <1>1, <1>5 DEF NoDma, NotIdle
  <2> QED
    BY <1>3, <2>1 DEF NoneDone
<1> QED
  BY <1>2, <1>3, <1>4, <1>5 DEF DmaOK, ApiDma, DoneDma

-----------------------------------------------------------------------------
(* How the driver and the hardware change what is not sent yet. *)

(* Nothing of the ring in use changes. *)
Steady(s, t) ==
    /\ t.free = s.free /\ t.dirty = s.dirty
    /\ \A i \in InUse(s) : t.done[i] = s.done[i] /\ t.skb[i] = s.skb[i]

LEMMA SteadyKeeps ==
    ASSUME NEW s, NEW t, DmaOK(s), RingOK(t), Steady(s, t)
    PROVE  UnsentOf(t) = UnsentOf(s)
<1>1. RingOK(s)
  BY DEF DmaOK
<1>2. PICK n : SentUpTo(s, n)
  BY SentSome
<1>3. /\ InUse(t) = InUse(s) /\ Used(t) = Used(s) /\ \A i : Pos(t, i) = Pos(s, i)
  BY DEF Steady, InUse, Oldest, Pos, Used
<1>4. SentUpTo(t, n)
  BY <1>2, <1>3 DEF SentUpTo, Steady
<1>5. ASSUME NEW k \in 1 .. Used(s) - n
      PROVE  t.skb[Wrap(t.dirty + n + k - 1)] = s.skb[Wrap(s.dirty + n + k - 1)]
  <2>1. n + k - 1 \in 0 .. MAX_TX_DCBS - 1 /\ n + k - 1 < Used(s)
    BY <1>1, <1>2, RingFacts DEF SentUpTo, Dcbs
  <2>2. Wrap(s.dirty + (n + k - 1)) \in InUse(s)
    BY <1>1, <2>1, At
  <2>3. s.dirty + (n + k - 1) = s.dirty + n + k - 1
    BY <1>1, <1>2, RingRange DEF SentUpTo
  <2> QED
    BY <2>2, <2>3 DEF Steady
<1>6. Rest(t, n) = Rest(s, n)
  BY <1>3, <1>5 DEF Rest
<1> QED
  BY <1>1, <1>2, <1>4, <1>6, UnsentIsRest

(* bkn_do_tx takes DCBs away that are sent. *)
LEMMA ReclaimKeeps ==
    ASSUME NEW s, DmaOK(s), DoneDma(s), ~s.api_active,
           NEW n \in 0 .. Used(s), IsDonePrefix(s, n),
           NEW t, RingOK(t), NoneDone(t),
           t.free = s.free + n, t.dirty = Wrap(s.dirty + n),
           t.skb = [i \in Dcbs |-> IF i \in Oldest(s, n) THEN NoSkb ELSE s.skb[i]]
    PROVE  UnsentOf(t) = UnsentOf(s)
<1>1. RingOK(s) /\ Used(s) \in 0 .. MAX_TX_DCBS - 1
  BY RingFacts DEF DmaOK, Dcbs
<1>2. SentUpTo(s, n)
  <2>1. PICK m : SentUpTo(s, m)
    BY SentSome
  <2>2. m \in 0 .. Used(s)
    BY <2>1 DEF SentUpTo
  <2>3. ~(m < n)
    <3> SUFFICES ASSUME m < n PROVE FALSE
      OBVIOUS
    <3>1. m \in 0 .. MAX_TX_DCBS - 1 /\ m < Used(s)
      BY <1>1, <2>2
    <3>2. Wrap(s.dirty + m) \in InUse(s) /\ Pos(s, Wrap(s.dirty + m)) = m
      BY <1>1, <3>1, At
    <3> QED
      BY <1>1, <2>1, <2>2, <3>2 DEF SentUpTo, IsDonePrefix
  <2>4. ~(n < m)
    <3> SUFFICES ASSUME n < m PROVE FALSE
      OBVIOUS
    <3>1. n \in 0 .. MAX_TX_DCBS - 1 /\ n < Used(s)
      BY <1>1, <2>2
    <3>2. Wrap(s.dirty + n) \in InUse(s) /\ Pos(s, Wrap(s.dirty + n)) = n
      BY <1>1, <3>1, At
    <3> QED
      BY <2>1, <3>2 DEF SentUpTo, IsDonePrefix
  <2>5. m = n
    BY <1>1, <2>2, <2>3, <2>4
  <2> QED
    BY <2>1, <2>5
<1>3. Used(t) = Used(s) - n /\ Used(t) \in 0 .. MAX_TX_DCBS - 1
  <2>1. s.free \in 1 .. MAX_TX_DCBS /\ t.free \in 1 .. MAX_TX_DCBS
    BY <1>1, RingRange
  <2> QED
    BY <2>1 DEF Used
<1>4. SentUpTo(t, 0)
  <2>1. \A i \in InUse(t) : ~t.done[i] /\ ~(Pos(t, i) < 0)
    BY RingFacts DEF NoneDone, Dcbs
  <2> QED
    BY <1>3, <2>1 DEF SentUpTo
<1>5. ASSUME NEW k \in 1 .. Used(s) - n
      PROVE  t.skb[Wrap(t.dirty + 0 + k - 1)] = s.skb[Wrap(s.dirty + n + k - 1)]
  <2>1. n + k - 1 \in 0 .. MAX_TX_DCBS - 1 /\ ~(n + k - 1 < n)
    BY <1>1
  <2>2. /\ Wrap(s.dirty + (n + k - 1)) \in Dcbs
        /\ Pos(s, Wrap(s.dirty + (n + k - 1))) = n + k - 1
    BY <1>1, <2>1, At
  <2>3. s.dirty \in 0 .. MAX_TX_DCBS - 1
    BY <1>1, RingRange
  <2>4. s.dirty + (n + k - 1) = s.dirty + n + k - 1
    BY <1>1, <2>3
  <2>5. t.dirty + 0 + k - 1 = Wrap(s.dirty + n) + (k - 1)
    BY <1>1, <2>3 DEF Wrap
  <2>6. Wrap(Wrap(s.dirty + n) + (k - 1)) = Wrap(s.dirty + (n + k - 1))
    BY <1>1, <2>1, <2>3 DEF Wrap
  <2>7. Wrap(s.dirty + (n + k - 1)) \notin Oldest(s, n)
    BY <2>1, <2>2 DEF Oldest
  <2> QED
    BY <2>2, <2>4, <2>5, <2>6, <2>7
<1>6. Rest(t, 0) = Rest(s, n)
  <2>1. Used(t) - 0 = Used(s) - n
    BY <1>1, <1>3
  <2> QED
    BY <1>5, <2>1 DEF Rest
<1> QED
  BY <1>1, <1>2, <1>4, <1>6, UnsentIsRest

(* Nothing in the ring. *)
LEMMA NothingUnsent ==
    ASSUME NEW s, RingOK(s), Used(s) = 0
    PROVE  UnsentOf(s) = <<>>
<1>1. InUse(s) = {}
  BY RingFacts DEF InUse, Oldest, Dcbs
<1>2. SentUpTo(s, 0)
  BY <1>1 DEF SentUpTo
<1>3. Rest(s, 0) = <<>>
  BY DEF Rest
<1> QED
  BY <1>2, <1>3, UnsentIsRest

(* The hardware sends the oldest packet. *)
LEMMA SendsOldest ==
    ASSUME NEW s, RingOK(s), NEW t, RingOK(t), NEW n, SentUpTo(s, n), n < Used(s),
           t.free = s.free, t.dirty = s.dirty, t.skb = s.skb, SentUpTo(t, n + 1)
    PROVE  UnsentOf(s) # <<>> /\ UnsentOf(t) = Tail(UnsentOf(s))
<1> DEFINE u == Used(s)
           q == Rest(s, n)
           r == Rest(t, n + 1)
           S == Skbs \cup {NoSkb}
<1>1. u \in 0 .. MAX_TX_DCBS - 1 /\ n \in 0 .. u - 1 /\ Used(t) = u
  BY RingFacts DEF SentUpTo, Dcbs, Used
<1>2. s.dirty \in 0 .. MAX_TX_DCBS - 1 /\ s.skb \in [Dcbs -> S]
  BY RingRange
<1>3. ASSUME NEW k \in 1 .. u - n
      PROVE  s.skb[Wrap(s.dirty + n + k - 1)] \in S
  <2>1. n + k - 1 \in 0 .. MAX_TX_DCBS - 1
    BY <1>1
  <2>2. Wrap(s.dirty + (n + k - 1)) \in Dcbs
    BY <2>1, At
  <2>3. s.dirty + (n + k - 1) = s.dirty + n + k - 1
    BY <1>1, <1>2
  <2> QED
    BY <1>2, <2>2, <2>3
<1>4. q \in Seq(S) /\ Len(q) = u - n
  <2>1. u - n \in Nat
    BY <1>1
  <2> QED
    BY <1>3, <2>1 DEF Rest
<1>5. r = [k \in 1 .. u - (n + 1) |-> s.skb[Wrap(s.dirty + (n + 1) + k - 1)]]
  BY <1>1 DEF Rest
<1>6. ASSUME NEW k \in 1 .. u - (n + 1)
      PROVE  r[k] = q[k + 1] /\ r[k] \in S
  <2>1. s.dirty + (n + 1) + k - 1 = s.dirty + n + (k + 1) - 1
    BY <1>1, <1>2
  <2>2. k + 1 \in 1 .. u - n
    BY <1>1
  <2> HIDE DEF u
  <2>3. q[k + 1] = s.skb[Wrap(s.dirty + n + (k + 1) - 1)]
    BY <2>2 DEF Rest, u
  <2> QED
    BY <1>3, <1>5, <2>1, <2>2, <2>3
<1>7. r \in Seq(S) /\ Len(r) = u - (n + 1)
  <2>1. u - (n + 1) \in Nat
    BY <1>1
  <2> HIDE DEF u
  <2> QED
    BY <1>5, <1>6, <2>1
<1> HIDE DEF q, r, S, u
<1>8. q # <<>>
  BY <1>1, <1>4
<1>9. /\ Tail(q) \in Seq(S) /\ Len(Tail(q)) = Len(q) - 1
      /\ \A k \in 1 .. Len(Tail(q)) : Tail(q)[k] = q[k + 1]
  BY <1>4, <1>8, HeadTailProperties
<1>10. r = Tail(q)
  <2>1. Len(r) = Len(Tail(q))
    BY <1>1, <1>4, <1>7, <1>9
  <2>2. \A k \in 1 .. Len(r) : r[k] = Tail(q)[k]
    BY <1>6, <1>7, <1>9, <2>1
  <2> QED
    BY <1>7, <1>9, <2>1, <2>2, SeqEqual
<1>11. UnsentOf(s) = q /\ UnsentOf(t) = r
  BY UnsentIsRest DEF q, r
<1> QED
  BY <1>8, <1>10, <1>11

(* bkn_tx puts a packet behind the others. *)
LEMMA EnqueuesLast ==
    ASSUME NEW s, DmaOK(s), NEW t, RingOK(t), NEW p \in Skbs, s.free > 1,
           \A i \in InUse(s) : s.skb[i] # p,
           t.free = s.free - 1, t.dirty = s.dirty,
           t.skb = [s.skb EXCEPT ![s.cur] = p],
           t.done = [s.done EXCEPT ![s.cur] = FALSE]
    PROVE  /\ Len(UnsentOf(s)) < MAX_TX_DCBS - 1
           /\ \A k \in 1 .. Len(UnsentOf(s)) : UnsentOf(s)[k] # p
           /\ UnsentOf(t) = Append(UnsentOf(s), p)
<1> DEFINE u == Used(s)
           S == Skbs \cup {NoSkb}
           d == s.dirty
<1>1. /\ RingOK(s) /\ u \in 0 .. MAX_TX_DCBS - 2 /\ Used(t) = u + 1
      /\ d \in 0 .. MAX_TX_DCBS - 1 /\ s.skb \in [Dcbs -> S]
      /\ s.done \in [Dcbs -> BOOLEAN] /\ s.cur \in Dcbs
      /\ s.cur = Wrap(d + u) /\ InUse(s) \subseteq Dcbs
  <2>1. RingOK(s) /\ s.cur = Wrap(d + u)
    BY DEF DmaOK, RingOK
  <2>2. s.free \in 1 .. MAX_TX_DCBS
    BY <2>1, RingRange
  <2>3. u \in 0 .. MAX_TX_DCBS - 2 /\ Used(t) = u + 1
    BY <2>2 DEF Used
  <2> QED
    BY <2>1, <2>3, RingRange, RingFacts
<1>2. Pos(s, s.cur) = u /\ s.cur \notin InUse(s)
  <2>1. u \in 0 .. MAX_TX_DCBS - 1
    BY <1>1
  <2> QED
    BY <1>1, <2>1, At, RingFacts
<1>3. PICK n : SentUpTo(s, n)
  BY SentSome
<1>4. n \in 0 .. u
  BY <1>3 DEF SentUpTo
<1>5. SentUpTo(t, n)
  <2>1. \A i : Pos(t, i) = Pos(s, i)
    BY DEF Pos
  <2>2. InUse(t) = InUse(s) \cup {s.cur}
    <3>1. \A i \in Dcbs : Pos(s, i) < u + 1 <=> Pos(s, i) < u \/ i = s.cur
      <4>1. \A i \in Dcbs : Pos(s, i) \in Dcbs /\ (Pos(s, i) = Pos(s, s.cur) => i = s.cur)
        BY <1>1, RingFacts
      <4> QED
        <5> HIDE DEF u
        <5>1. \A i \in Dcbs : Pos(s, i) \in Int
          BY <4>1 DEF Dcbs
        <5> QED
          BY <1>1, <1>2, <4>1, <5>1
    <3> QED
      BY <1>1, <2>1, <3>1 DEF InUse, Oldest
  <2>3. \A i \in InUse(s) : t.done[i] = s.done[i]
    BY <1>1, <1>2
  <2>4. ~t.done[s.cur] /\ ~(u < n)
    BY <1>1, <1>4
  <2>5. n \in 0 .. Used(t)
    BY <1>1, <1>4
  <2> QED
    BY <1>2, <1>3, <2>1, <2>2, <2>3, <2>4, <2>5 DEF SentUpTo
<1> DEFINE q == Rest(s, n)
           r == Rest(t, n)
<1>6. UnsentOf(s) = q /\ UnsentOf(t) = r
  BY <1>1, <1>3, <1>5, UnsentIsRest
<1>7. ASSUME NEW k \in 1 .. u - n
      PROVE  /\ Wrap(d + n + k - 1) \in InUse(s)
             /\ s.skb[Wrap(d + n + k - 1)] \in S
             /\ s.skb[Wrap(d + n + k - 1)] # p
             /\ t.skb[Wrap(d + n + k - 1)] = s.skb[Wrap(d + n + k - 1)]
  <2>1. n + k - 1 \in 0 .. MAX_TX_DCBS - 1 /\ n + k - 1 < u
    BY <1>1, <1>4
  <2>2. Wrap(d + (n + k - 1)) \in InUse(s)
    BY <1>1, <2>1, At
  <2>3. d + (n + k - 1) = d + n + k - 1
    BY <1>1, <1>4
  <2> QED
    BY <1>1, <1>2, <2>2, <2>3
<1>8. q \in Seq(S) /\ Len(q) = u - n /\ \A k \in 1 .. u - n : q[k] # p
  <2>1. u - n \in Nat
    BY <1>1, <1>4
  <2> QED
    BY <1>7, <2>1 DEF Rest
<1>9. t.skb[Wrap(d + n + (u - n + 1) - 1)] = p
  <2>1. d + n + (u - n + 1) - 1 = d + u
    BY <1>1, <1>4
  <2> QED
    BY <1>1, <2>1
<1>10. r = [k \in 1 .. u - n + 1 |-> t.skb[Wrap(d + n + k - 1)]]
  <2>1. Used(t) - n = u - n + 1
    BY <1>1, <1>4
  <2> QED
    BY <2>1 DEF Rest
<1>11. ASSUME NEW k \in 1 .. u - n + 1
       PROVE  r[k] = IF k = u - n + 1 THEN p ELSE q[k]
  <2>1. CASE k = u - n + 1
    BY <1>9, <1>10, <2>1
  <2>2. CASE k # u - n + 1
    <3>1. k \in 1 .. u - n
      BY <1>1, <1>4, <2>2
    <3>2. q[k] = s.skb[Wrap(d + n + k - 1)]
      BY <3>1 DEF Rest
    <3> QED
      BY <1>7, <1>10, <2>2, <3>1, <3>2
  <2> QED
    BY <2>1, <2>2
<1> HIDE DEF q, u, S, d
<1>12. r = Append(q, p)
  <2>1. p \in S /\ u - n \in Nat
    BY <1>1, <1>4 DEF S
  <2>2. /\ Append(q, p) \in Seq(S) /\ Len(Append(q, p)) = u - n + 1
        /\ \A k \in 1 .. u - n : Append(q, p)[k] = q[k]
        /\ Append(q, p)[u - n + 1] = p
    BY <1>8, <2>1, AppendProperties
  <2>3. \A k \in 1 .. u - n + 1 : r[k] \in S
    <3>1. \A k \in 1 .. u - n : q[k] \in S
      BY <1>8
    <3> QED
      BY <1>11, <2>1, <3>1
  <2>4. r \in Seq(S) /\ Len(r) = u - n + 1
    BY <1>10, <2>1, <2>3
  <2>5. \A k \in 1 .. Len(r) : r[k] = Append(q, p)[k]
    BY <1>11, <2>1, <2>2, <2>4
  <2> QED
    BY <2>2, <2>4, <2>5, SeqEqual
<1>13. u - n < MAX_TX_DCBS - 1
  BY <1>1, <1>4
<1> QED
  BY <1>6, <1>8, <1>12, <1>13

-----------------------------------------------------------------------------
(* The functions that leave the done bits alone. *)

LEMMA StartDmaDone ==
    ASSUME NEW s \in SinfoType, NEW st, NEW i
    PROVE  StartDma(s, st, i).done = s.done
BY DEF StartDma, SinfoType

LEMMA ResumeDone ==
    ASSUME NEW s \in SinfoType
    PROVE  bkn_resume_tx(s).done = s.done
BY DEF bkn_resume_tx, SinfoType

LEMMA ApiTxDone ==
    ASSUME NEW s \in SinfoType
    PROVE  bkn_api_tx(s).done = s.done
BY DEF bkn_api_tx, StartDma, SinfoType

LEMMA ChainPendingDone ==
    ASSUME NEW s \in SinfoType
    PROVE  ChainPending(s).done = s.done
BY DEF ChainPending, SinfoType

LEMMA ChainDoneDone ==
    ASSUME NEW s \in SinfoType
    PROVE  bkn_tx_chain_done(s).done = s.done
<1> DEFINE s1 == [s EXCEPT !.irq = FALSE]
           s0 == [s1 EXCEPT !.api_done_event = TRUE]
           s2 == IF s.api_active THEN bkn_api_tx(s0) ELSE s1
           s3 == bkn_api_tx(s2)
           c == ChainPending(s2)
           t == StartDma(c, "skb", s2.dirty)
<1>1. /\ s1 \in SinfoType /\ s1.done = s.done /\ s1.api_active = s.api_active
      /\ s0 \in SinfoType /\ s0.done = s.done
  BY DEF SinfoType
<1>2. bkn_tx_chain_done(s) \in {s2, s3, bkn_resume_tx(t), bkn_resume_tx(s3)}
  BY <1>1 DEF bkn_tx_chain_done
<1> HIDE DEF s1, s0
<1>3. s2 \in SinfoType /\ s2.done = s.done
  BY <1>1, ApiTxFrame, ApiTxDone DEF SameRing
<1> HIDE DEF s2
<1>4. s3 \in SinfoType /\ s3.done = s.done
  BY <1>3, ApiTxFrame, ApiTxDone DEF SameRing
<1>5. c \in SinfoType /\ c.done = s.done /\ s2.dirty \in Dcbs
  BY <1>3, ChainPendingFrame, ChainPendingDone DEF SameRing, SinfoType
<1> HIDE DEF s3, c
<1>6. t \in SinfoType /\ t.done = s.done
  BY <1>5, StartDmaFrame, StartDmaDone DEF SameRing
<1> HIDE DEF t
<1>7. bkn_resume_tx(t).done = s.done /\ bkn_resume_tx(s3).done = s.done
  BY <1>4, <1>6, ResumeDone
<1> QED
  BY <1>2, <1>3, <1>4, <1>7

LEMMA SameRingSteady ==
    ASSUME NEW s, NEW t, SameRing(s, t), t.done = s.done
    PROVE  Steady(s, t)
BY DEF SameRing, Steady

-----------------------------------------------------------------------------
(* Every action is a step of the queue, or none. *)

Silent == UnsentOf(sinfo') = UnsentOf(sinfo) /\ resets' = resets

Sent ==
    /\ UnsentOf(sinfo) # <<>> /\ UnsentOf(sinfo') = Tail(UnsentOf(sinfo))
    /\ resets' = resets

Added ==
    \E p \in Skbs :
        /\ Len(UnsentOf(sinfo)) < MAX_TX_DCBS - 1
        /\ \A k \in 1 .. Len(UnsentOf(sinfo)) : UnsentOf(sinfo)[k] # p
        /\ UnsentOf(sinfo') = Append(UnsentOf(sinfo), p)
        /\ resets' = resets

Dropped == UnsentOf(sinfo') = <<>> /\ resets' = resets + 1

LEMMA SteadySilent ==
    ASSUME DmaIInv, DmaIInv', Steady(sinfo, sinfo'), resets' = resets
    PROVE  Silent
<1>1. DmaOK(sinfo) /\ RingOK(sinfo')
  BY DEF DmaIInv, RingIInv
<1> QED
  BY <1>1, SteadyKeeps DEF Silent

LEMMA OtherSilent ==
    ASSUME DmaIInv, DmaIInv', ~basedev_suspend,
           \/ \E d \in Netifs, p \in Skbs : StackXmit(d, p)
           \/ HwApiDone \/ DmaLatch \/ bkn_knet_dma_info_tx
           \/ TakeTxEvent \/ bkn_hw_tstamp_tx_work
           \/ \E d \in Netifs : OpenNetif(d) \/ StopNetif(d)
           \/ OpenBase \/ StopBase
    PROVE  Silent
<1>1. sinfo \in SinfoType /\ ~sinfo.basedev_suspended
  BY DEF DmaIInv, RingIInv, TypeOK, DmaOK
<1>2. ASSUME NEW d \in Netifs, NEW p \in Skbs, StackXmit(d, p)
      PROVE  Silent
  BY <1>1, <1>2, SteadySilent DEF StackXmit, Steady, SinfoType
<1>3. CASE HwApiDone
  BY <1>1, <1>3, SteadySilent DEF HwApiDone, Steady, SinfoType
<1>4. CASE DmaLatch
  BY <1>4, SteadySilent DEF DmaLatch, Steady
<1>5. CASE bkn_knet_dma_info_tx
  <2> DEFINE s0 == bkn_suspend_tx(sinfo)
             s1 == [s0 EXCEPT !.api_dcb_list = @ + 1]
  <2>1. sinfo.api_dcb_list + 1 \in 0 .. MAX_API_CHAINS
    BY <1>1, <1>5 DEF bkn_knet_dma_info_tx, SinfoType
  <2>2. SameRing(sinfo, s0) /\ s0.done = sinfo.done /\ s0.api_dcb_list = sinfo.api_dcb_list
    BY <1>1, SuspendFrame, SuspendFields
  <2>3. sinfo' \in {s1, bkn_api_tx(s1)}
    BY <1>5 DEF bkn_knet_dma_info_tx
  <2> HIDE DEF s0
  <2>4. SameRing(s0, s1) /\ s1.done = s0.done /\ s1 \in SinfoType
    BY <2>1, <2>2 DEF SameRing, SinfoType
  <2> HIDE DEF s1
  <2>5. SameRing(s1, bkn_api_tx(s1)) /\ bkn_api_tx(s1).done = s1.done
    BY <2>4, ApiTxFrame, ApiTxDone
  <2>6. SameRing(sinfo, sinfo') /\ sinfo'.done = sinfo.done
    BY <2>2, <2>3, <2>4, <2>5, SameRingTrans
  <2> QED
    BY <1>5, <2>6, SameRingSteady, SteadySilent DEF bkn_knet_dma_info_tx
<1>6. CASE TakeTxEvent
  BY <1>1, <1>6, SteadySilent DEF TakeTxEvent, Steady, SinfoType
<1>7. CASE bkn_hw_tstamp_tx_work
  <2>1. PICK p : sinfo' = FreeSkb([sinfo EXCEPT !.tx_ptp_queue = @ \ {p}], p)
    BY <1>7 DEF bkn_hw_tstamp_tx_work
  <2>2. Steady(sinfo, sinfo')
    BY <1>1, <2>1 DEF FreeSkb, Steady, SinfoType
  <2> QED
    BY <1>7, <2>2, SteadySilent DEF bkn_hw_tstamp_tx_work
<1>8. ASSUME NEW d \in Netifs, OpenNetif(d) \/ StopNetif(d)
      PROVE  Silent
  BY <1>1, <1>8, SteadySilent DEF OpenNetif, StopNetif, Steady, SinfoType
<1>9. CASE OpenBase \/ StopBase
  BY <1>1, <1>9, SteadySilent DEF OpenBase, StopBase, Steady
<1> QED
  BY <1>2, <1>3, <1>4, <1>5, <1>6, <1>7, <1>8, <1>9

LEMMA DmaTxSilent ==
    ASSUME DmaIInv, DmaIInv', DmaTx
    PROVE  Silent
<1> DEFINE s == sinfo
           s1 == [s EXCEPT !.chain_done = FALSE]
<1>1. PICK n \in 0 .. Used(s) : IsDonePrefix(s, n) /\ sinfo' = do_dma_tx(s, n)
  BY DEF DmaTx
<1>2. DmaOK(s) /\ s \in SinfoType /\ RingOK(s) /\ RingOK(sinfo') /\ resets' = resets
  BY DEF DmaIInv, RingIInv, TypeOK, DmaTx
<1>3. DoneDma(s)
  BY <1>2 DEF DmaTx, DmaIInv, DmaOK, SkbDma, ApiDma, NoDma, Quiet
<1> DEFINE u == bkn_do_tx(s1, n)
<1>4. Ready(u)
  BY <1>1, <1>2, <1>3, ReclaimReady
<1>5. sinfo' = bkn_tx_chain_done(u)
  BY <1>1 DEF do_dma_tx
<1>6. UnsentOf(u) = UnsentOf(s)
  <2>1. /\ s1.free = s.free /\ s1.dirty = s.dirty /\ s1.skb = s.skb /\ s1.done = s.done
        /\ s1.api_active = s.api_active /\ s1 \in SinfoType
    BY <1>2 DEF SinfoType
  <2> HIDE DEF s1
  <2>2. CASE s.api_active
    <3>1. u = s1
      BY <2>1, <2>2 DEF bkn_do_tx
    <3>2. Steady(s, u) /\ RingOK(u)
      BY <1>4, <2>1, <3>1 DEF Steady, Ready
    <3> QED
      BY <1>2, <3>2, SteadyKeeps
  <2>3. CASE ~s.api_active
    <3>1. u = Reclaim(s1, n)
      BY <2>1, <2>3 DEF bkn_do_tx
    <3>2. Oldest(s1, n) = Oldest(s, n)
      BY <2>1 DEF Oldest, Pos
    <3>3. /\ u.free = s.free + n /\ u.dirty = Wrap(s.dirty + n)
          /\ u.skb = [i \in Dcbs |-> IF i \in Oldest(s, n) THEN NoSkb ELSE s.skb[i]]
      BY <2>1, <3>1, <3>2 DEF Reclaim, SinfoType
    <3>4. RingOK(u) /\ NoneDone(u)
      BY <1>4 DEF Ready
    <3> HIDE DEF u
    <3> QED
      BY <1>1, <1>2, <1>3, <2>3, <3>3, <3>4, ReclaimKeeps
  <2> QED
    BY <2>2, <2>3
<1> HIDE DEF u
<1>7. DmaOK(sinfo')
  BY DEF DmaIInv
<1>8. Steady(u, sinfo') /\ u \in SinfoType
  <2>1. u \in SinfoType
    BY <1>4 DEF Ready, RingOK
  <2> QED
    BY <1>5, <2>1, ChainDoneFrame, ChainDoneDone, SameRingSteady
<1>9. Steady(sinfo', u)
  <2>1. sinfo'.free = u.free /\ sinfo'.dirty = u.dirty
    BY <1>8 DEF Steady
  <2>2. InUse(sinfo') = InUse(u)
    BY <2>1 DEF InUse, Oldest, Pos, Used
  <2> QED
    BY <1>8, <2>1, <2>2 DEF Steady
<1>10. UnsentOf(sinfo') = UnsentOf(u)
  BY <1>4, <1>7, <1>9, SteadyKeeps DEF Ready
<1> QED
  BY <1>2, <1>6, <1>10 DEF Silent

LEMMA HwDcbDoneSent ==
    ASSUME DmaIInv, DmaIInv', HwDcbDone
    PROVE  Sent
<1> DEFINE s == sinfo
           t == sinfo'
           i == sinfo.dma.idx
           e == [s.done EXCEPT ![i] = TRUE]
           n == Pos(s, i)
<1>1. /\ DmaOK(s) /\ s \in SinfoType /\ RingOK(s) /\ RingOK(t) /\ resets' = resets
  BY DEF DmaIInv, RingIInv, TypeOK, HwDcbDone
<1>2. SkbDma(s)
  BY <1>1 DEF HwDcbDone, DmaOK, ApiDma, DoneDma, NoDma, Quiet, Idle
<1>3. /\ i \in InUse(s) /\ InUse(s) \subseteq Dcbs /\ s.done \in [Dcbs -> BOOLEAN]
      /\ \A k \in InUse(s) : s.done[k] <=> Pos(s, k) < n
      /\ Used(s) \in 0 .. MAX_TX_DCBS - 1
      /\ \A j, k \in Dcbs : Pos(s, j) = Pos(s, k) => j = k
  BY <1>1, <1>2, RingFacts, RingRange DEF SkbDma
<1>4. \A k \in InUse(s) : Pos(s, k) \in 0 .. Used(s) - 1
  BY <1>1, <1>3, RingFacts DEF InUse, Oldest, Dcbs
<1>5. /\ t.free = s.free /\ t.dirty = s.dirty /\ t.skb = s.skb /\ t.done = e
  BY <1>1 DEF HwDcbDone, SinfoType
<1> HIDE DEF i
<1>6. /\ InUse(t) = InUse(s) /\ Used(t) = Used(s) /\ \A k : Pos(t, k) = Pos(s, k)
  BY <1>5 DEF InUse, Oldest, Pos, Used
<1>7. SentUpTo(s, n) /\ n < Used(s) /\ n \in Nat
  BY <1>3, <1>4 DEF SentUpTo
<1>8. SentUpTo(t, n + 1)
  <2>1. ASSUME NEW k \in InUse(s)
        PROVE  t.done[k] <=> Pos(s, k) < n + 1
    <3>1. t.done[k] <=> k = i \/ s.done[k]
      BY <1>3, <1>5
    <3>2. Pos(s, k) \in Int /\ (Pos(s, k) = n => k = i) /\ (k = i => Pos(s, k) = n)
      BY <1>3, <1>4
    <3> HIDE DEF n
    <3> QED
      BY <1>3, <1>7, <3>1, <3>2
  <2>2. n + 1 \in 0 .. Used(s)
    BY <1>3, <1>7
  <2> QED
    BY <1>6, <2>1, <2>2 DEF SentUpTo
<1> HIDE DEF n
<1>9. UnsentOf(s) # <<>> /\ UnsentOf(t) = Tail(UnsentOf(s))
  BY <1>1, <1>5, <1>7, <1>8, SendsOldest
<1> QED
  BY <1>1, <1>9 DEF Sent

LEMMA ResetDropped ==
    ASSUME DmaIInv, DmaIInv',
           bkn_knet_hw_reset(FALSE) \/ bkn_knet_hw_init(FALSE)
    PROVE  Dropped
<1> DEFINE s1 == bkn_clean_tx_dcbs(bkn_dma_abort_tx(sinfo, FALSE))
<1>1. RingOK(sinfo) /\ Owns(sinfo, InFlightSkbs) /\ RingOK(sinfo')
  BY DEF DmaIInv, RingIInv
<1>2. RingOK(s1) /\ s1 \in SinfoType /\ s1.free = MAX_TX_DCBS
  BY <1>1, AbortCleanRing DEF RingOK
<1>3. /\ \/ sinfo' = [s1 EXCEPT !.tx_ptp_queue = {}, !.owned = @ \ sinfo.tx_ptp_queue]
         \/ sinfo' = bkn_init_dcbs([s1 EXCEPT !.basedev_suspended =
                                        @ \/ (basedev_suspend /\ ~base_up)])
      /\ resets' = resets + 1
  BY DEF bkn_knet_hw_reset, bkn_knet_hw_init
<1> HIDE DEF s1
<1>4. sinfo'.free = MAX_TX_DCBS
  BY <1>2, <1>3 DEF SinfoType, bkn_init_dcbs
<1>5. Used(sinfo') = 0
  BY <1>4 DEF Used
<1> QED
  BY <1>1, <1>3, <1>5, NothingUnsent DEF Dropped

LEMMA bkn_txAdded ==
    ASSUME DmaIInv, DmaIInv', NEW d \in Netifs, bkn_tx(d)
    PROVE  Silent \/ Added
<1> DEFINE p == inflight[d]
           s == sinfo
<1>1. /\ s \in SinfoType /\ RingOK(s) /\ RingOK(sinfo') /\ DmaOK(s)
      /\ p \in Skbs /\ resets' = resets
  BY DEF DmaIInv, RingIInv, TypeOK, bkn_tx
<1>2. TxDrop(p) \/ TxMapError(p) \/ TxEnqueue(p) \/ TxNoResources(p)
  BY DEF bkn_tx
<1>3. \A i \in InUse(s) : s.skb[i] # p
  <2>1. p \in InFlightSkbs
    BY <1>1 DEF InFlightSkbs
  <2>2. p \notin RingSkbs(s) /\ p # NoSkb
    BY <1>1, <2>1 DEF DmaIInv, RingIInv, Owns
  <2> QED
    BY <2>2 DEF RingSkbs
<1> HIDE DEF p
<1>4. /\ s.cur \in Dcbs /\ s.cur \notin InUse(s) /\ InUse(s) \subseteq Dcbs
      /\ s.chain \in [Dcbs -> BOOLEAN] /\ s.done \in [Dcbs -> BOOLEAN]
      /\ s.skb \in [Dcbs -> Skbs \cup {NoSkb}] /\ s.free \in 1 .. MAX_TX_DCBS
  BY <1>1, RingFacts, RingRange
<1> DEFINE c == [s.chain EXCEPT ![s.cur] = FALSE]
           e == [s.done EXCEPT ![s.cur] = FALSE]
           q == [s.skb EXCEPT ![s.cur] = p]
<1>5. /\ c \in [Dcbs -> BOOLEAN] /\ e \in [Dcbs -> BOOLEAN]
      /\ q \in [Dcbs -> Skbs \cup {NoSkb}]
      /\ \A i \in InUse(s) : e[i] = s.done[i] /\ q[i] = s.skb[i]
  BY <1>1, <1>4
<1>6. /\ ClearDcb(s) = [s EXCEPT !.chain = c, !.done = e]
      /\ FillDcb(s, p) = [s EXCEPT !.skb = q, !.chain = c, !.done = e]
  BY <1>1 DEF ClearDcb, FillDcb, SinfoType
<1>7. ASSUME NEW f \in {s, ClearDcb(s), FillDcb(s, p)}
      PROVE  /\ f \in SinfoType /\ f.free = s.free /\ f.dirty = s.dirty
             /\ \A i \in InUse(s) : f.done[i] = s.done[i] /\ f.skb[i] = s.skb[i]
  <2> HIDE DEF c, e, q
  <2>1. CASE f = s
    BY <1>1, <2>1
  <2>2. CASE f = [s EXCEPT !.chain = c, !.done = e]
    BY <1>1, <1>5, <2>2 DEF SinfoType
  <2>3. CASE f = [s EXCEPT !.skb = q, !.chain = c, !.done = e]
    BY <1>1, <1>5, <2>3 DEF SinfoType
  <2> QED
    BY <1>6, <1>7, <2>1, <2>2, <2>3
<1>8. ASSUME NEW f \in {s, ClearDcb(s), FillDcb(s, p)},
             sinfo' \in {FreeSkb(f, p), CheckResources(FreeSkb(f, p))}
      PROVE  Silent
  <2> DEFINE g == FreeSkb(f, p)
  <2>1. /\ g \in SinfoType /\ g.free = f.free /\ g.dirty = f.dirty
        /\ g.done = f.done /\ g.skb = f.skb
    <3>1. f.owned \ {p} \in SUBSET Skbs
      BY <1>7 DEF SinfoType
    <3> HIDE DEF s
    <3> QED
      BY <1>7, <3>1 DEF FreeSkb, SinfoType
  <2> HIDE DEF g
  <2>2. /\ CheckResources(g).free = g.free /\ CheckResources(g).dirty = g.dirty
        /\ CheckResources(g).done = g.done /\ CheckResources(g).skb = g.skb
    BY <2>1 DEF CheckResources, bkn_suspend_tx, SinfoType
  <2>3. /\ sinfo'.free = g.free /\ sinfo'.dirty = g.dirty
        /\ sinfo'.done = g.done /\ sinfo'.skb = g.skb
    BY <1>8, <2>2 DEF g
  <2>4. Steady(s, sinfo')
    BY <1>7, <2>1, <2>3 DEF Steady
  <2> QED
    BY <1>1, <2>4, SteadySilent
<1>9. CASE TxDrop(p) \/ TxMapError(p) \/ TxNoResources(p)
  BY <1>8, <1>9 DEF TxDrop, TxMapError, TxNoResources, ClearDcb, FillDcb
<1>10. CASE TxEnqueue(p)
  <2> DEFINE f == FillDcb(s, p)
             g == bkn_tx_dma_start(f)
             t == TakeDcb(g)
  <2>1. s.free > 1 /\ sinfo' = CheckResources(t)
    BY <1>10 DEF TxEnqueue, FillDcb, TakeDcb
  <2>2. /\ f \in SinfoType /\ f.free = s.free /\ f.dirty = s.dirty
        /\ f.cur = s.cur /\ f.skb = q /\ f.done = e
    <3>1. f \in SinfoType /\ f.free = s.free /\ f.dirty = s.dirty
      BY <1>7
    <3> HIDE DEF c, e, q
    <3> QED
      BY <1>1, <1>6, <3>1 DEF SinfoType
  <2> HIDE DEF f, c, e, q
  <2>3. /\ g \in SinfoType /\ g.free = s.free /\ g.dirty = s.dirty
        /\ g.cur = s.cur /\ g.skb = q /\ g.done = e
    BY <2>2, DmaStartFrame, StartDmaDone DEF SameRing, bkn_tx_dma_start
  <2> HIDE DEF g
  <2>4. /\ t \in SinfoType /\ t.free = s.free - 1 /\ t.dirty = s.dirty
        /\ t.skb = q /\ t.done = e
    <3>1. Wrap(g.cur + 1) \in Dcbs /\ g.free - 1 \in 0 .. MAX_TX_DCBS
      BY <1>4, <2>1, <2>3 DEF Dcbs, Wrap
    <3> QED
      BY <2>3, <3>1 DEF TakeDcb, SinfoType
  <2> HIDE DEF t
  <2>5. /\ sinfo'.free = s.free - 1 /\ sinfo'.dirty = s.dirty
        /\ sinfo'.skb = q /\ sinfo'.done = e
    BY <2>1, <2>4 DEF CheckResources, bkn_suspend_tx, SinfoType
  <2>6. /\ Len(UnsentOf(s)) < MAX_TX_DCBS - 1
        /\ \A k \in 1 .. Len(UnsentOf(s)) : UnsentOf(s)[k] # p
        /\ UnsentOf(sinfo') = Append(UnsentOf(s), p)
    BY <1>1, <1>3, <2>1, <2>5, EnqueuesLast DEF q, e
  <2> QED
    BY <1>1, <2>6 DEF Added
<1> QED
  BY <1>2, <1>9, <1>10

LEMMA QueueStep ==
    ASSUME Silent \/ Sent \/ Added \/ Dropped
    PROVE  [Ring!Next]_(Ring!vars)
<1>1. /\ Ring!vars = <<Unsent, resets>> /\ Ring!vars' = <<Unsent', resets'>>
      /\ Ring!Send <=> Unsent # <<>> /\ Unsent' = Tail(Unsent) /\ resets' = resets
      /\ Ring!DropAll <=> Unsent' = <<>> /\ resets' = resets + 1
      /\ \A p : Ring!Accept(p) <=>
                   /\ Len(Unsent) < MAX_TX_DCBS - 1
                   /\ \A i \in 1 .. Len(Unsent) : Unsent[i] # p
                   /\ Unsent' = Append(Unsent, p) /\ resets' = resets
  BY DEF Ring!vars, Ring!Send, Ring!DropAll, Ring!Accept
<1>2. Unsent = UnsentOf(sinfo) /\ Unsent' = UnsentOf(sinfo')
  BY DEF Unsent, UnsentOf
<1>3. CASE Silent
  BY <1>1, <1>2, <1>3 DEF Silent
<1>4. CASE Sent
  BY <1>1, <1>2, <1>4 DEF Sent, Ring!Next
<1>5. CASE Added
  BY <1>1, <1>2, <1>5 DEF Added, Ring!Next
<1>6. CASE Dropped
  BY <1>1, <1>2, <1>6 DEF Dropped, Ring!Next
<1> QED
  BY <1>3, <1>4, <1>5, <1>6

(* With the default module parameters the ring, the channel and the        *)
(* completions implement the packet queue, for every ring size: what       *)
(* bkn_tx puts into the ring is sent once and in order, or dropped as a    *)
(* whole by a reset.                                                       *)
THEOREM TxSentInOrder ==
    ASSUME ~basedev_suspend, ~ResetRaces
    PROVE  Spec => SentInOrder
<1>1. Init => Ring!Init
  <2> SUFFICES ASSUME Init PROVE Ring!Init
    OBVIOUS
  <2>1. RingOK(sinfo)
    BY RingInit DEF RingIInv
  <2>2. Used(sinfo) = 0 /\ resets = 0
    BY DEF Init, Used
  <2>3. UnsentOf(sinfo) = <<>>
    BY <2>1, <2>2, NothingUnsent
  <2> QED
    BY <2>2, <2>3 DEF Ring!Init, Unsent, UnsentOf
<1>2. DmaIInv /\ DmaIInv' /\ [Next]_vars => [Ring!Next]_(Ring!vars)
  <2> SUFFICES ASSUME DmaIInv, DmaIInv', [Next]_vars
               PROVE  Silent \/ Sent \/ Added \/ Dropped
    BY QueueStep
  <2>1. CASE \E stale \in Stale : bkn_knet_hw_reset(stale) \/ bkn_knet_hw_init(stale)
    <3>1. Stale = {FALSE}
      BY DEF Stale
    <3> QED
      BY <2>1, <3>1, ResetDropped
  <2>2. CASE UNCHANGED vars
    BY <2>2 DEF vars, Silent
  <2>3. CASE DmaTx \/ HwDcbDone \/ \E d \in Netifs : bkn_tx(d)
    BY <2>3, DmaTxSilent, HwDcbDoneSent, bkn_txAdded
  <2> QED
    BY <2>1, <2>2, <2>3, OtherSilent DEF Next
<1> QED
  BY <1>1, <1>2, DmaAlways, PTL DEF Spec, SentInOrder, Ring!Spec

=============================================================================
