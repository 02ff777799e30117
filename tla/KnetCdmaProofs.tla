--------------------------- MODULE KnetCdmaProofs ---------------------------
(***************************************************************************)
(* Proofs about the channels in Continuous DMA mode.                       *)
(*                                                                         *)
(* KnetCdmaRx, for every size of the ring and every rate: the channel      *)
(* keeps to the DCBs that have a buffer, and its tokens never run out.     *)
(*                                                                         *)
(* KnetCdmaTx, for every size of the ring, every set of chains and every   *)
(* length of a chain: the channel never runs past what there is to send.   *)
(***************************************************************************)
EXTENDS KnetCdmaTx, KnetCdmaRx, SequenceTheorems, WellFoundedInduction, TLAPS

USE CdmaRxAssumption

(***************************************************************************)
(* What bkn_rx_rate_config makes of the settings.                          *)
(***************************************************************************)
LEMMA Rates == BURST \in Nat \ {0} /\ TOKENS_PER_TICK \in Nat
<1>1. burst_max \in Nat \ {0}
  BY Z3 DEF burst_max
<1>2. RX_RATE \div burst_max \in Nat
  BY <1>1, Z3
<1>3. AtLeast(1, RX_RATE \div burst_max) \in 1 .. AtLeast(1, RX_RATE \div burst_max)
  BY <1>2 DEF AtLeast
<1>4. jiffies_per_rxtick \in 1 .. HZ
  <2> DEFINE m == AtLeast(1, RX_RATE \div burst_max)
  <2>1. m \in Nat \ {0}
    BY <1>2 DEF AtLeast
  <2> HIDE DEF m
  <2>2. HZ \div m \in 0 .. HZ
    BY <2>1, Z3
  <2>3. jiffies_per_rxtick = AtLeast(1, HZ \div m)
    BY DEF jiffies_per_rxtick, m
  <2> QED
    BY <2>2, <2>3 DEF AtLeast
<1>5. rxticks_per_sec \in Nat \ {0}
  BY <1>4, Z3 DEF rxticks_per_sec
<1>6. RX_RATE \div rxticks_per_sec \in Nat /\ rate_max \in Nat
  <2>1. RX_RATE \div rxticks_per_sec \in Nat
    BY <1>5, Z3
  <2> QED
    BY <1>5, <2>1 DEF rate_max, AtLeast
<1>7. rate_max \div HZ \in Nat
  BY <1>6, Z3
<1>8. jiffies_per_rxtick * (rate_max \div HZ) \in Nat
  BY <1>4, <1>7, Z3
<1> QED
  BY <1>1, <1>6, <1>8 DEF BURST, TOKENS_PER_TICK, AtLeast

USE Rates

(***************************************************************************)
(* The DCBs counted from "dirty" on: those that are done come first, then  *)
(* those with a buffer, up to "cur"; the rest could not be refilled.       *)
(***************************************************************************)
Wrap(i) == IF i >= MAX_RX_DCBS THEN i - MAX_RX_DCBS ELSE i
Ahead(s, i) == IF i >= s.dirty THEN i - s.dirty ELSE i - s.dirty + MAX_RX_DCBS

RingOK(s, d) ==
    /\ s \in RxType /\ d \in 0 .. s.free
    /\ s.cur = Wrap(s.dirty + s.free)
    /\ \A i \in RxDcbs :
          /\ s.dcb[i] = "done" <=> Ahead(s, i) < d
          /\ s.dcb[i] = "filled" <=> d <= Ahead(s, i) /\ Ahead(s, i) < s.free
          /\ s.dcb[i] # "stray"

(* The channel, at p, is behind the last packet, and its halt address h is *)
(* ahead of it on DCBs with a buffer: one of them, or the end of the ring. *)
HwOK(s, p, h, d) ==
    /\ p \in 0 .. MAX_RX_DCBS /\ h \in 0 .. MAX_RX_DCBS
    /\ Wrap(p) = Wrap(s.dirty + d)
    /\ h = MAX_RX_DCBS => d + (MAX_RX_DCBS - p) <= s.free
    /\ h # MAX_RX_DCBS => d <= Ahead(s, h) /\ Ahead(s, h) < s.free

(* There is a token for every DCB that is to be refilled: for those that   *)
(* have no buffer, those that are done and those up to the halt address.   *)
UpToHalt(s, p, h, d) == IF h = MAX_RX_DCBS THEN d + (MAX_RX_DCBS - p) ELSE Ahead(s, h)
TokensOK(s, p, h, d) ==
    /\ s.tokens <= BURST
    /\ s.running => (MAX_RX_DCBS - s.free) + UpToHalt(s, p, h, d) <= s.tokens

Limits == TOKENS_PER_TICK >= MAX_RX_DCBS /\ BURST > MAX_RX_DCBS

(* What a refill takes and gives: ring, halt address and failures.         *)
Parts == [rx : RxType, halt : 0 .. MAX_RX_DCBS, nomem : Nat]

ChannelOK(r, p, d) ==
    /\ r \in Parts
    /\ RingOK(r.rx, d)
    /\ r.rx.running => HwOK(r.rx, p, r.halt, d)
    /\ ~r.rx.running => d = 0
    /\ Limits => TokensOK(r.rx, p, r.halt, d)

(* Between two steps all DCBs have a buffer but for one per failure, and a *)
(* channel that could not be started had one.                              *)
Full(r) ==
    /\ r.rx.running => MAX_RX_DCBS - r.rx.free <= r.nomem
    /\ ~r.rx.running => r.nomem # 0

ChannelType == [pos : 0 .. MAX_RX_DCBS, halt : 0 .. MAX_RX_DCBS]
HandlerType ==
    [pc : {"idle", "rx", "deliver"}, left : 0 .. MAX_RX_DCBS,
     again : BOOLEAN, napi : BOOLEAN, budget : 1 .. MAX_RX_DCBS]

Sound(d) ==
    /\ ChannelOK(RxState, rxhw.pos, d) /\ Full(RxState)
    /\ ~Follows(rxhw.pos, rxhw.halt)
    /\ rxh.pc = "deliver" => d > 0

(* All this holds until an allocation fails for the second time: a tick    *)
(* whose refill fails may then let the channel run over DCBs that have no  *)
(* buffer.                                                                 *)
CdmaRxIInv ==
    /\ rx_nomem \in 0 .. MAX_NOMEM
    /\ rxh \in HandlerType /\ (rxh.pc = "deliver" => rxh.left > 0)
    /\ rx_nomem <= 1 => rxhw \in ChannelType /\ \E d \in 0 .. MAX_RX_DCBS : Sound(d)

-----------------------------------------------------------------------------
(* Arithmetic. *)
LEMMA WrapMod ==
    ASSUME NEW i \in 0 .. 2 * MAX_RX_DCBS - 1
    PROVE  i % MAX_RX_DCBS = Wrap(i)
<1>1. CASE i < MAX_RX_DCBS
  BY <1>1, Z3 DEF Wrap
<1>2. CASE i >= MAX_RX_DCBS
  BY <1>2, Z3 DEF Wrap
<1> QED
  BY <1>1, <1>2

LEMMA TokenMod ==
    ASSUME NEW i \in Int
    PROVE  /\ i % TOKEN_LIMIT \in 0 .. TOKEN_LIMIT - 1
           /\ i \in 0 .. TOKEN_LIMIT - 1 => i % TOKEN_LIMIT = i
<1>1. TOKEN_LIMIT \in Nat /\ TOKEN_LIMIT > 0
  OBVIOUS
<1> QED
  BY <1>1, Z3

(* A set of numbers below n has a greatest one. *)
LEMMA MaxIn ==
    ASSUME NEW n \in Nat, NEW S, S \subseteq 0 .. n - 1, S # {}
    PROVE  Max(S) \in S
<1> DEFINE T == {n - k : k \in S}
           less == OpToRel(<, Nat)
<1>1. PICK m \in T : \A k \in T : <<k, m>> \notin less
  <2>1. IsWellFoundedOn(less, Nat)
    BY NatLessThanWellFounded
  <2>2. \A k \in S : n - k \in Nat
    OBVIOUS
  <2>3. T \subseteq Nat /\ T # {}
    BY <2>2, Zenon
  <2> HIDE DEF less, T
  <2> QED
    BY <2>1, <2>3, WFMin
<1>2. PICK x \in S : m = n - x
  OBVIOUS
<1>3. ASSUME NEW y \in S PROVE x >= y
  <2>1. n - y \in T /\ n - y \in Nat /\ m \in Nat
    BY <1>2
  <2>2. n - y < m => <<n - y, m>> \in less
    BY <2>1 DEF OpToRel
  <2> HIDE DEF less, T
  <2> QED
    BY <1>1, <1>2, <2>1, <2>2
<1> QED
  BY <1>2, <1>3 DEF Max

-----------------------------------------------------------------------------
(* A refill, of the ring, the halt address and the failures in r to t.     *)
Filled(r, t, n) ==
    /\ t \in Parts /\ n \in 0 .. MAX_RX_DCBS - r.rx.free
    /\ t.rx.dirty = r.rx.dirty /\ t.rx.running = r.rx.running
    /\ t.rx.free = r.rx.free + n
    /\ t.rx.tokens = (r.rx.tokens - n) % TOKEN_LIMIT
    /\ \/ t.nomem = r.nomem /\ t.rx.free = MAX_RX_DCBS
       \/ t.nomem = r.nomem + 1 /\ r.rx.free < MAX_RX_DCBS /\ r.nomem < MAX_NOMEM
    /\ \/ /\ t.halt = r.halt
          /\ \A k \in 0 .. n - 1 : ~((r.rx.tokens - k) % TOKEN_LIMIT > MAX_RX_DCBS)
       \/ \E k \in 0 .. n - 1 :
             /\ (r.rx.tokens - k) % TOKEN_LIMIT > MAX_RX_DCBS
             /\ t.halt \in RxDcbs /\ Ahead(t.rx, t.halt) = r.rx.free + k

(* The k-th DCB that is refilled is the k-th after those with a buffer.    *)
LEMMA FillPlace ==
    ASSUME NEW r \in Parts, r.rx.cur = Wrap(r.rx.dirty + r.rx.free),
           NEW k \in 0 .. MAX_RX_DCBS - r.rx.free - 1
    PROVE  /\ FillAt(r, k) \in RxDcbs
           /\ Ahead(r.rx, FillAt(r, k)) = r.rx.free + k
           /\ \A i \in RxDcbs : Ahead(r.rx, i) = r.rx.free + k => i = FillAt(r, k)
<1>1. r.rx.cur \in RxDcbs /\ r.rx.dirty \in RxDcbs /\ r.rx.free \in 0 .. MAX_RX_DCBS
  BY DEF Parts, RxType
<1>2. r.rx.cur = Wrap(r.rx.dirty + r.rx.free)
  OBVIOUS
<1>3. r.rx.cur + k \in 0 .. 2 * MAX_RX_DCBS - 1
  BY <1>1 DEF RxDcbs
<1>4. FillAt(r, k) = Wrap(r.rx.cur + k)
  BY <1>3, WrapMod DEF FillAt
<1> QED
  BY <1>1, <1>2, <1>4 DEF Wrap, Ahead, RxDcbs

(* Where a refill ends before the ring is full there is no buffer.         *)
LEMMA RefillParts ==
    ASSUME NEW r \in Parts, r.rx.cur = Wrap(r.rx.dirty + r.rx.free), NEW t \in Refilled(r)
    PROVE  /\ t.rx.cur = Wrap(t.rx.dirty + t.rx.free)
           /\ t.rx.free < MAX_RX_DCBS => t.rx.dcb[t.rx.cur] \in {"empty", "stray"}
           /\ \A i \in RxDcbs :
                 /\ Ahead(r.rx, i) < r.rx.free => t.rx.dcb[i] = r.rx.dcb[i]
                 /\ r.rx.free <= Ahead(r.rx, i) /\ Ahead(r.rx, i) < t.rx.free =>
                       t.rx.dcb[i] = Buffered(r.rx.dcb[i])
                 /\ t.rx.free <= Ahead(r.rx, i) => t.rx.dcb[i] \in {r.rx.dcb[i], Bare(r.rx.dcb[i])}
           /\ \E n \in 0 .. MAX_RX_DCBS - r.rx.free : Filled(r, t, n)
<1>1. PICK n \in 0 .. MAX_RX_DCBS : FillStops(r, n) /\ t = bkn_rx_refill(r, n)
  BY DEF Refilled
<1>2. /\ r.rx.cur \in RxDcbs /\ r.rx.dirty \in RxDcbs /\ r.rx.free \in 0 .. MAX_RX_DCBS
      /\ r.rx.tokens \in 0 .. TOKEN_LIMIT - 1
  BY DEF Parts, RxType
<1>3. n \in 0 .. MAX_RX_DCBS - r.rx.free
  BY <1>1, <1>2 DEF FillStops
<1> DEFINE moved == {k \in 0 .. n - 1 : MovesHalt(r, k)}
           fresh == {FillAt(r, k) : k \in 0 .. n - 1}
           stopped == n < MAX_RX_DCBS - r.rx.free
           dcb == [i \in RxDcbs |-> IF i \in fresh THEN Buffered(r.rx.dcb[i])
                                    ELSE IF stopped /\ i = FillAt(r, n) THEN Bare(r.rx.dcb[i])
                                    ELSE r.rx.dcb[i]]
           cur == (r.rx.cur + n) % MAX_RX_DCBS
           tokens == (r.rx.tokens - n) % TOKEN_LIMIT
           halt == IF moved = {} THEN r.halt ELSE FillAt(r, Max(moved))
           nomem == IF n = MAX_RX_DCBS - r.rx.free THEN r.nomem ELSE r.nomem + 1
           free == r.rx.free + n
           q == [r.rx EXCEPT !.dcb = dcb, !.cur = cur, !.free = free, !.tokens = tokens]
<1>4. t = [r EXCEPT !.rx = q, !.halt = halt, !.nomem = nomem]
  BY <1>1 DEF bkn_rx_refill, Parts
<1>5. /\ dcb \in [RxDcbs -> {"filled", "done", "empty", "kept", "stray"}]
      /\ \A i \in RxDcbs : dcb[i] = IF i \in fresh THEN Buffered(r.rx.dcb[i])
                                     ELSE IF stopped /\ i = FillAt(r, n) THEN Bare(r.rx.dcb[i])
                                     ELSE r.rx.dcb[i]
  BY DEF Parts, RxType, Buffered, Bare
<1>6. cur = Wrap(r.rx.dirty + (r.rx.free + n)) /\ cur \in RxDcbs
  <2>1. r.rx.cur + n \in 0 .. 2 * MAX_RX_DCBS - 1
    BY <1>2, <1>3 DEF RxDcbs
  <2>2. cur = Wrap(r.rx.cur + n)
    BY <2>1, WrapMod
  <2> QED
    BY <1>2, <1>3, <2>2 DEF Wrap, RxDcbs
<1>7. tokens \in 0 .. TOKEN_LIMIT - 1
  BY <1>2, TokenMod
<1>8. ASSUME NEW i \in RxDcbs
      PROVE  i \in fresh <=> r.rx.free <= Ahead(r.rx, i) /\ Ahead(r.rx, i) < r.rx.free + n
  <2>1. ASSUME NEW k \in 0 .. n - 1
        PROVE  /\ FillAt(r, k) \in RxDcbs /\ Ahead(r.rx, FillAt(r, k)) = r.rx.free + k
               /\ \A j \in RxDcbs : Ahead(r.rx, j) = r.rx.free + k => j = FillAt(r, k)
    <3>1. k \in 0 .. MAX_RX_DCBS - r.rx.free - 1
      BY <1>2, <1>3
    <3> QED
      BY <3>1, FillPlace
  <2>2. ASSUME r.rx.free <= Ahead(r.rx, i), Ahead(r.rx, i) < r.rx.free + n
        PROVE  i \in fresh
    <3>1. Ahead(r.rx, i) \in Int
      BY <1>2 DEF Ahead, RxDcbs
    <3>2. Ahead(r.rx, i) - r.rx.free \in 0 .. n - 1
      BY <1>2, <1>3, <2>2, <3>1
    <3>3. Ahead(r.rx, i) = r.rx.free + (Ahead(r.rx, i) - r.rx.free)
      BY <1>2, <3>1
    <3> QED
      BY <2>1, <3>2, <3>3
  <2>3. ASSUME i \in fresh
        PROVE  r.rx.free <= Ahead(r.rx, i) /\ Ahead(r.rx, i) < r.rx.free + n
    <3>1. PICK k \in 0 .. n - 1 : i = FillAt(r, k)
      BY <2>3
    <3> QED
      BY <1>2, <1>3, <2>1, <3>1
  <2> QED
    BY <2>2, <2>3
<1>9. /\ halt \in 0 .. MAX_RX_DCBS
      /\ \/ /\ halt = r.halt
            /\ \A k \in 0 .. n - 1 : ~((r.rx.tokens - k) % TOKEN_LIMIT > MAX_RX_DCBS)
         \/ \E k \in 0 .. n - 1 :
               /\ (r.rx.tokens - k) % TOKEN_LIMIT > MAX_RX_DCBS
               /\ halt \in RxDcbs /\ Ahead(r.rx, halt) = r.rx.free + k
  <2>1. CASE moved = {}
    BY <2>1 DEF Parts, MovesHalt
  <2>2. CASE moved # {}
    <3>1. Max(moved) \in moved
      BY <1>3, <2>2, MaxIn
    <3>2. PICK k \in 0 .. n - 1 : MovesHalt(r, k) /\ halt = FillAt(r, k)
      BY <2>2, <3>1
    <3>3. k \in 0 .. MAX_RX_DCBS - r.rx.free - 1
      BY <1>2, <1>3
    <3>4. halt \in RxDcbs /\ Ahead(r.rx, halt) = r.rx.free + k
      BY <3>2, <3>3, FillPlace
    <3>5. (r.rx.tokens - k) % TOKEN_LIMIT > MAX_RX_DCBS
      BY <3>2 DEF MovesHalt
    <3>6. halt \in 0 .. MAX_RX_DCBS
      <4> HIDE DEF halt
      <4> QED
        BY <3>4 DEF RxDcbs
    <3> HIDE DEF halt
    <3> QED
      BY <3>4, <3>5, <3>6
  <2> QED
    BY <2>1, <2>2
<1>10. nomem \in Nat
  BY DEF Parts
<1>11. free \in 0 .. MAX_RX_DCBS /\ r.rx \in RxType
  BY <1>2, <1>3 DEF Parts
<1> HIDE DEF moved, fresh, dcb, cur, free, tokens, halt, nomem
<1>12. /\ q.dcb = dcb /\ q.cur = cur /\ q.free = free /\ q.tokens = tokens
       /\ q.dirty = r.rx.dirty /\ q.running = r.rx.running
  BY <1>11 DEF RxType
<1>13. q \in RxType
  BY <1>5, <1>6, <1>7, <1>11 DEF RxType
<1> HIDE DEF q
<1>14. t \in Parts /\ t.rx = q /\ t.halt = halt /\ t.nomem = nomem
  BY <1>4, <1>9, <1>10, <1>13 DEF Parts
<1>15. \A i : Ahead(q, i) = Ahead(r.rx, i)
  BY <1>12 DEF Ahead
<1>16. q.cur = Wrap(q.dirty + q.free)
  BY <1>6, <1>12 DEF free
<1>17. \/ nomem = r.nomem /\ free = MAX_RX_DCBS
       \/ nomem = r.nomem + 1 /\ r.rx.free < MAX_RX_DCBS /\ r.nomem < MAX_NOMEM
  BY <1>1, <1>2, <1>3 DEF free, nomem, FillStops
<1>18. Filled(r, t, n)
  BY <1>3, <1>9, <1>12, <1>14, <1>15, <1>17 DEF Filled, free, tokens
<1>19. ASSUME q.free < MAX_RX_DCBS
       PROVE  q.dcb[q.cur] \in {"empty", "stray"}
  <2>1. stopped /\ n \in 0 .. MAX_RX_DCBS - r.rx.free - 1
    BY <1>2, <1>3, <1>12, <1>19 DEF free, stopped
  <2>2. q.cur = FillAt(r, n) /\ q.cur \in RxDcbs
    BY <1>6, <1>12 DEF cur, FillAt
  <2>3. Ahead(r.rx, q.cur) = r.rx.free + n
    BY <2>1, <2>2, FillPlace
  <2>4. q.cur \notin fresh
    BY <1>2, <1>3, <1>8, <2>2, <2>3
  <2>5. q.dcb[q.cur] = Bare(r.rx.dcb[q.cur])
    BY <1>5, <1>12, <2>1, <2>2, <2>4
  <2> QED
    BY <2>5 DEF Bare
<1>20. ASSUME NEW i \in RxDcbs
       PROVE  /\ Ahead(r.rx, i) < r.rx.free => q.dcb[i] = r.rx.dcb[i]
              /\ r.rx.free <= Ahead(r.rx, i) /\ Ahead(r.rx, i) < q.free =>
                    q.dcb[i] = Buffered(r.rx.dcb[i])
              /\ q.free <= Ahead(r.rx, i) => q.dcb[i] \in {r.rx.dcb[i], Bare(r.rx.dcb[i])}
  <2>1. Ahead(r.rx, i) \in Int
    BY <1>2 DEF Ahead, RxDcbs
  <2>2. stopped /\ i = FillAt(r, n) => Ahead(r.rx, i) = r.rx.free + n
    <3>1. stopped => n \in 0 .. MAX_RX_DCBS - r.rx.free - 1
      BY <1>2, <1>3 DEF stopped
    <3> QED
      BY <3>1, FillPlace
  <2>3. q.dcb[i] = IF i \in fresh THEN Buffered(r.rx.dcb[i])
                   ELSE IF stopped /\ i = FillAt(r, n) THEN Bare(r.rx.dcb[i])
                   ELSE r.rx.dcb[i]
    BY <1>5, <1>12
  <2>4. i \in fresh <=> r.rx.free <= Ahead(r.rx, i) /\ Ahead(r.rx, i) < q.free
    BY <1>8, <1>12 DEF free
  <2> QED
    BY <1>2, <1>3, <1>12, <2>1, <2>2, <2>3, <2>4 DEF free
<1> QED
  BY <1>3, <1>14, <1>16, <1>18, <1>19, <1>20

LEMMA Refill ==
    ASSUME NEW r \in Parts, NEW d, RingOK(r.rx, d), NEW t \in Refilled(r)
    PROVE  /\ RingOK(t.rx, d)
           /\ \E n \in 0 .. MAX_RX_DCBS - r.rx.free : Filled(r, t, n)
<1>1. r.rx.cur = Wrap(r.rx.dirty + r.rx.free) /\ d \in 0 .. r.rx.free /\ r.rx \in RxType
  BY DEF RingOK
<1>2. PICK n \in 0 .. MAX_RX_DCBS - r.rx.free : Filled(r, t, n)
  BY <1>1, RefillParts
<1>3. t.rx \in RxType /\ t.rx.dirty = r.rx.dirty /\ t.rx.free = r.rx.free + n
  BY <1>2 DEF Filled, Parts
<1>4. t.rx.cur = Wrap(t.rx.dirty + t.rx.free)
  BY <1>1, RefillParts
<1>5. d \in 0 .. t.rx.free
  BY <1>1, <1>3 DEF RxType
<1>6. ASSUME NEW i \in RxDcbs
      PROVE  /\ t.rx.dcb[i] = "done" <=> Ahead(t.rx, i) < d
             /\ t.rx.dcb[i] = "filled" <=> d <= Ahead(t.rx, i) /\ Ahead(t.rx, i) < t.rx.free
             /\ t.rx.dcb[i] # "stray"
  <2>1. Ahead(t.rx, i) = Ahead(r.rx, i) /\ Ahead(r.rx, i) \in Int
    <3>1. r.rx.dirty \in RxDcbs
      BY <1>1 DEF RxType
    <3> QED
      BY <1>3, <3>1 DEF Ahead, RxDcbs
  <2>2. /\ r.rx.dcb[i] = "done" <=> Ahead(r.rx, i) < d
        /\ r.rx.dcb[i] = "filled" <=> d <= Ahead(r.rx, i) /\ Ahead(r.rx, i) < r.rx.free
        /\ r.rx.dcb[i] # "stray"
    BY DEF RingOK
  <2>3. CASE Ahead(r.rx, i) < r.rx.free
    <3>1. t.rx.dcb[i] = r.rx.dcb[i]
      BY <1>1, <2>3, RefillParts
    <3> QED
      BY <1>1, <1>3, <2>1, <2>2, <2>3, <3>1 DEF RxType
  <2>4. CASE r.rx.free <= Ahead(r.rx, i) /\ Ahead(r.rx, i) < t.rx.free
    <3>1. t.rx.dcb[i] = Buffered(r.rx.dcb[i])
      BY <1>1, <2>4, RefillParts
    <3>2. r.rx.dcb[i] # "done"
      BY <1>1, <2>1, <2>2, <2>4 DEF RxType
    <3>3. t.rx.dcb[i] = "filled"
      BY <2>2, <3>1, <3>2 DEF Buffered, Written
    <3> QED
      BY <1>1, <1>3, <2>1, <2>2, <2>4, <3>3 DEF RxType
  <2>5. CASE t.rx.free <= Ahead(r.rx, i)
    <3>1. t.rx.dcb[i] \in {r.rx.dcb[i], Bare(r.rx.dcb[i])}
      BY <1>1, <2>5, RefillParts
    <3>2. r.rx.free <= Ahead(r.rx, i) /\ d <= Ahead(r.rx, i)
      BY <1>1, <1>2, <1>3, <2>1, <2>5 DEF RxType
    <3>3. r.rx.dcb[i] \notin {"done", "filled", "stray"}
      BY <1>1, <2>1, <2>2, <3>2 DEF RxType
    <3>4. t.rx.dcb[i] \notin {"done", "filled", "stray"}
      BY <3>1, <3>3 DEF Bare, Written
    <3> QED
      BY <1>1, <1>3, <2>1, <2>5, <3>2, <3>4 DEF RxType
  <2> QED
    BY <1>1, <1>3, <2>1, <2>3, <2>4, <2>5 DEF RxType
<1> QED
  BY <1>2, <1>3, <1>4, <1>5, <1>6 DEF RingOK

LEMMA RefillChannel ==
    ASSUME NEW r, NEW p, NEW d, ChannelOK(r, p, d),
           Limits => MAX_RX_DCBS - r.rx.free <= r.rx.tokens,
           NEW t \in Refilled(r)
    PROVE  /\ ChannelOK(t, p, d)
           /\ \E n \in 0 .. MAX_RX_DCBS - r.rx.free : Filled(r, t, n)
<1>1. r \in Parts /\ RingOK(r.rx, d)
  BY DEF ChannelOK
<1>2. RingOK(t.rx, d) /\ \E n \in 0 .. MAX_RX_DCBS - r.rx.free : Filled(r, t, n)
  BY <1>1, Refill
<1>3. PICK n \in 0 .. MAX_RX_DCBS - r.rx.free : Filled(r, t, n)
  BY <1>2
<1>4. /\ r.rx.dirty \in RxDcbs /\ r.rx.free \in 0 .. MAX_RX_DCBS /\ r.rx.tokens \in 0 .. TOKEN_LIMIT - 1
      /\ r.halt \in 0 .. MAX_RX_DCBS /\ d \in 0 .. r.rx.free
  BY <1>1 DEF Parts, RxType, RingOK
<1>5. /\ t \in Parts /\ t.rx.dirty = r.rx.dirty /\ t.rx.running = r.rx.running
      /\ t.rx.free = r.rx.free + n
      /\ t.rx.tokens = (r.rx.tokens - n) % TOKEN_LIMIT
  BY <1>3 DEF Filled
<1>6. \A i : Ahead(t.rx, i) = Ahead(r.rx, i)
  BY <1>5 DEF Ahead
<1>7. \/ t.halt = r.halt
      \/ \E k \in 0 .. n - 1 :
            /\ (r.rx.tokens - k) % TOKEN_LIMIT > MAX_RX_DCBS
            /\ t.halt \in RxDcbs /\ Ahead(r.rx, t.halt) = r.rx.free + k
  BY <1>3, <1>6 DEF Filled
<1>8. ASSUME HwOK(r.rx, p, r.halt, d)
      PROVE  HwOK(t.rx, p, t.halt, d)
  <2>1. /\ p \in 0 .. MAX_RX_DCBS /\ Wrap(p) = Wrap(r.rx.dirty + d)
        /\ r.halt = MAX_RX_DCBS => d + (MAX_RX_DCBS - p) <= r.rx.free
        /\ r.halt # MAX_RX_DCBS => d <= Ahead(r.rx, r.halt) /\ Ahead(r.rx, r.halt) < r.rx.free
    BY <1>8 DEF HwOK
  <2>2. CASE t.halt = r.halt
    <3>1. t.halt # MAX_RX_DCBS => Ahead(r.rx, t.halt) \in Int
      BY <1>4, <2>2 DEF Ahead, RxDcbs
    <3> QED
      BY <1>4, <1>5, <1>6, <2>1, <2>2, <3>1 DEF HwOK
  <2>3. CASE t.halt # r.halt
    <3>1. PICK k \in 0 .. n - 1 : t.halt \in RxDcbs /\ Ahead(r.rx, t.halt) = r.rx.free + k
      BY <1>7, <2>3
    <3>2. t.halt # MAX_RX_DCBS /\ t.halt \in 0 .. MAX_RX_DCBS
      BY <3>1 DEF RxDcbs
    <3>3. d <= Ahead(t.rx, t.halt) /\ Ahead(t.rx, t.halt) < t.rx.free
      BY <1>4, <1>5, <1>6, <3>1
    <3> QED
      BY <1>5, <2>1, <3>2, <3>3 DEF HwOK
  <2> QED
    BY <2>2, <2>3
<1>9. ASSUME Limits, r.rx.running => HwOK(r.rx, p, r.halt, d), TokensOK(r.rx, p, r.halt, d)
      PROVE  TokensOK(t.rx, p, t.halt, d)
  <2>1. n <= r.rx.tokens /\ r.rx.tokens <= BURST
    BY <1>4, <1>9 DEF TokensOK
  <2>2. t.rx.tokens = r.rx.tokens - n
    <3>1. r.rx.tokens - n \in Int /\ r.rx.tokens - n \in 0 .. TOKEN_LIMIT - 1
      BY <1>4, <2>1
    <3> QED
      BY <1>5, <3>1, TokenMod
  <2>3. ASSUME r.rx.running
        PROVE  (MAX_RX_DCBS - t.rx.free) + UpToHalt(t.rx, p, t.halt, d) <= t.rx.tokens
    <3>1. (MAX_RX_DCBS - r.rx.free) + UpToHalt(r.rx, p, r.halt, d) <= r.rx.tokens
      BY <1>9, <2>3 DEF TokensOK
    <3>2. p \in 0 .. MAX_RX_DCBS
      BY <1>9, <2>3 DEF HwOK
    <3>3. CASE t.halt = r.halt
      <4>1. UpToHalt(t.rx, p, t.halt, d) = UpToHalt(r.rx, p, r.halt, d)
        BY <1>6, <3>3 DEF UpToHalt
      <4>2. UpToHalt(r.rx, p, r.halt, d) \in Int
        BY <1>4, <3>2 DEF UpToHalt, Ahead, RxDcbs
      <4> QED
        BY <1>4, <1>5, <2>2, <3>1, <4>1, <4>2
    <3>4. CASE t.halt # r.halt
      <4>1. PICK k \in 0 .. n - 1 : /\ (r.rx.tokens - k) % TOKEN_LIMIT > MAX_RX_DCBS
                                    /\ t.halt \in RxDcbs /\ Ahead(r.rx, t.halt) = r.rx.free + k
        BY <1>7, <3>4
      <4>2. r.rx.tokens - k \in Int /\ r.rx.tokens - k \in 0 .. TOKEN_LIMIT - 1
        BY <1>4, <2>1
      <4>3. r.rx.tokens - k > MAX_RX_DCBS
        BY <4>1, <4>2, TokenMod
      <4>4. UpToHalt(t.rx, p, t.halt, d) = r.rx.free + k
        BY <1>6, <4>1 DEF UpToHalt, RxDcbs
      <4> QED
        BY <1>4, <1>5, <2>2, <4>3, <4>4
    <3> QED
      BY <3>3, <3>4
  <2> QED
    BY <1>4, <1>5, <2>1, <2>2, <2>3 DEF TokensOK
<1> QED
  BY <1>2, <1>5, <1>8, <1>9 DEF ChannelOK

-----------------------------------------------------------------------------
(* The interrupt status does not matter. *)
SameButIrq(s, t) ==
    /\ t \in RxType /\ t.dcb = s.dcb /\ t.free = s.free /\ t.cur = s.cur /\ t.dirty = s.dirty
    /\ t.tokens = s.tokens /\ t.running = s.running

LEMMA SetIrq ==
    ASSUME NEW s \in RxType, NEW b \in BOOLEAN
    PROVE  SameButIrq(s, [s EXCEPT !.irq = b])
BY DEF SameButIrq, RxType

LEMMA SetRunning ==
    ASSUME NEW s \in RxType, NEW b \in BOOLEAN
    PROVE  LET t == [s EXCEPT !.running = b]
           IN  /\ t \in RxType /\ t.dcb = s.dcb /\ t.free = s.free /\ t.cur = s.cur
               /\ t.dirty = s.dirty /\ t.tokens = s.tokens /\ t.running = b
BY DEF RxType

LEMMA SameChannel ==
    ASSUME NEW r, NEW p, NEW d, ChannelOK(r, p, d),
           NEW t \in Parts, SameButIrq(r.rx, t.rx), t.halt = r.halt
    PROVE  ChannelOK(t, p, d)
<1>1. \A i : Ahead(t.rx, i) = Ahead(r.rx, i)
  BY DEF Ahead, SameButIrq
<1>2. RingOK(t.rx, d)
  BY <1>1 DEF ChannelOK, RingOK, SameButIrq
<1>3. HwOK(r.rx, p, r.halt, d) => HwOK(t.rx, p, t.halt, d)
  BY <1>1 DEF HwOK, SameButIrq
<1>4. TokensOK(r.rx, p, r.halt, d) => TokensOK(t.rx, p, t.halt, d)
  BY <1>1 DEF TokensOK, UpToHalt, SameButIrq
<1> QED
  BY <1>2, <1>3, <1>4 DEF ChannelOK, SameButIrq

LEMMA Applied ==
    ASSUME NEW r, NEW d, ChannelOK(r, rxhw.pos, d), Full(r), RxApply(r),
           rxhw \in ChannelType,
           (rxh.pc = "deliver")' => d > 0
    PROVE  /\ Sound(d)' /\ rx_nomem' = r.nomem
           /\ rxhw' \in ChannelType
<1> DEFINE b == r.rx.irq \/ Follows(rxhw.pos, r.halt)
           p == IF Follows(rxhw.pos, r.halt) THEN 0 ELSE rxhw.pos
<1>1. /\ rx' = [r.rx EXCEPT !.irq = b]
      /\ rxhw' = [halt |-> r.halt, pos |-> p]
      /\ rx_nomem' = r.nomem
  BY DEF RxApply
<1>2. r \in Parts /\ r.rx \in RxType /\ r.halt \in 0 .. MAX_RX_DCBS /\ r.nomem \in Nat
  BY DEF ChannelOK, Parts
<1>3. b \in BOOLEAN /\ p \in 0 .. MAX_RX_DCBS
  BY <1>2 DEF RxType, ChannelType
<1>4. ~Follows(p, r.halt)
  BY DEF Follows
<1>5. r.rx.running => HwOK(r.rx, p, r.halt, d)
  BY DEF ChannelOK, HwOK, Follows, Wrap
<1>6. UpToHalt(r.rx, p, r.halt, d) = UpToHalt(r.rx, rxhw.pos, r.halt, d)
  BY DEF UpToHalt, Follows
<1> HIDE DEF b, p
<1>7. ChannelOK(r, p, d)
  BY <1>5, <1>6 DEF ChannelOK, TokensOK
<1>8. SameButIrq(r.rx, rx')
  BY <1>1, <1>2, <1>3, SetIrq
<1>9. rxhw'.pos = p /\ rxhw'.halt = r.halt
  BY <1>1
<1> DEFINE t == [rx |-> rx', halt |-> r.halt, nomem |-> r.nomem]
<1>10. t \in Parts /\ t.rx = rx' /\ t.halt = r.halt /\ t.nomem = r.nomem
  BY <1>2, <1>8 DEF Parts, SameButIrq
<1>11. RxState' = t
  BY <1>1, <1>9 DEF RxState
<1> HIDE DEF t
<1>12. ChannelOK(t, p, d)
  BY <1>7, <1>8, <1>10, SameChannel
<1>13. Full(t)
  BY <1>8, <1>10 DEF Full, SameButIrq
<1> QED
  BY <1>1, <1>2, <1>3, <1>4, <1>9, <1>11, <1>12, <1>13 DEF Sound, ChannelType

LEMMA CdmaRxInitInv == CdmaRxInit => CdmaRxIInv
<1> SUFFICES ASSUME CdmaRxInit PROVE CdmaRxIInv
  OBVIOUS
<1> DEFINE r == bkn_init_dcbs
<1>1. PICK t \in Refilled(r) : /\ rx = [t.rx EXCEPT !.running = t.rx.free = MAX_RX_DCBS]
                               /\ rxhw = [pos |-> 0, halt |-> t.halt]
                               /\ rx_nomem = t.nomem
  BY DEF CdmaRxInit
<1>2. /\ r.rx.free = 0 /\ r.rx.cur = 0 /\ r.rx.dirty = 0 /\ r.rx.tokens = BURST
      /\ r.rx.running = FALSE /\ r.halt = MAX_RX_DCBS /\ r.nomem = 0
      /\ \A i \in RxDcbs : r.rx.dcb[i] = "empty"
  BY DEF bkn_init_dcbs
<1>3. r \in Parts
  BY DEF bkn_init_dcbs, Parts, RxType, RxDcbs
<1> HIDE DEF r
<1>4. ChannelOK(r, 0, 0)
  BY <1>2, <1>3 DEF ChannelOK, RingOK, TokensOK, Wrap, Ahead, RxDcbs, Parts
<1>5. ChannelOK(t, 0, 0) /\ \E n \in 0 .. MAX_RX_DCBS - r.rx.free : Filled(r, t, n)
  BY <1>2, <1>4, RefillChannel DEF Limits
<1>6. PICK n \in 0 .. MAX_RX_DCBS - r.rx.free : Filled(r, t, n)
  BY <1>5
<1>7. /\ t \in Parts /\ t.rx.dirty = 0 /\ ~t.rx.running /\ t.rx.free = n
      /\ t.rx.tokens = (BURST - n) % TOKEN_LIMIT
      /\ \/ t.nomem = 0 /\ n = MAX_RX_DCBS
         \/ t.nomem = 1 /\ MAX_NOMEM > 0
      /\ \/ /\ t.halt = MAX_RX_DCBS
            /\ \A k \in 0 .. n - 1 : ~((BURST - k) % TOKEN_LIMIT > MAX_RX_DCBS)
         \/ \E k \in 0 .. n - 1 :
               /\ (BURST - k) % TOKEN_LIMIT > MAX_RX_DCBS
               /\ t.halt \in RxDcbs /\ Ahead(t.rx, t.halt) = k
  BY <1>2, <1>6 DEF Filled
<1>8. t.rx \in RxType /\ t.halt \in 0 .. MAX_RX_DCBS /\ t.nomem \in Nat
  BY <1>7 DEF Parts
<1> DEFINE b == t.rx.free = MAX_RX_DCBS
<1>9. /\ rx \in RxType /\ rx.dcb = t.rx.dcb /\ rx.free = n /\ rx.cur = t.rx.cur
      /\ rx.dirty = 0 /\ rx.tokens = t.rx.tokens /\ rx.running = b
  <2>1. b \in BOOLEAN /\ rx = [t.rx EXCEPT !.running = b]
    BY <1>1
  <2> HIDE DEF b
  <2> QED
    BY <1>7, <1>8, <2>1, SetRunning
<1>10. rx.running <=> n = MAX_RX_DCBS
  BY <1>7, <1>9
<1>11. rxhw.pos = 0 /\ rxhw.halt = t.halt /\ rx_nomem = t.nomem
  BY <1>1
<1>12. rxhw \in ChannelType
  BY <1>1, <1>8 DEF ChannelType
<1>13. \A i : Ahead(rx, i) = Ahead(t.rx, i)
  BY <1>7, <1>9 DEF Ahead
<1>14. RingOK(rx, 0)
  BY <1>5, <1>7, <1>9, <1>13 DEF ChannelOK, RingOK
<1>15. ASSUME n = MAX_RX_DCBS
       PROVE  HwOK(rx, 0, t.halt, 0)
  <2>1. CASE t.halt = MAX_RX_DCBS
    BY <1>9, <1>15, <2>1 DEF HwOK
  <2>2. CASE t.halt # MAX_RX_DCBS
    <3>1. PICK k \in 0 .. n - 1 : t.halt \in RxDcbs /\ Ahead(t.rx, t.halt) = k
      BY <1>7, <2>2
    <3> QED
      BY <1>9, <1>13, <1>15, <2>2, <3>1 DEF HwOK, RxDcbs
  <2> QED
    BY <2>1, <2>2
<1>16. ASSUME Limits
       PROVE  TokensOK(rx, 0, t.halt, 0)
  <2>1. BURST - n \in Int /\ BURST - n \in 0 .. TOKEN_LIMIT - 1
    BY <1>2, <1>16 DEF Limits
  <2>2. rx.tokens = BURST - n
    BY <1>7, <1>9, <2>1, TokenMod
  <2>3. ASSUME n = MAX_RX_DCBS
        PROVE  UpToHalt(rx, 0, t.halt, 0) \in Int /\ UpToHalt(rx, 0, t.halt, 0) <= BURST - n
    <3>1. ASSUME NEW k \in 0 .. n - 1
          PROVE  (BURST - k) % TOKEN_LIMIT = BURST - k
      <4>1. BURST - k \in Int /\ BURST - k \in 0 .. TOKEN_LIMIT - 1
        BY <1>2, <1>16 DEF Limits
      <4> QED
        BY <4>1, TokenMod
    <3>2. ~(\A k \in 0 .. n - 1 : ~((BURST - k) % TOKEN_LIMIT > MAX_RX_DCBS))
      <4>1. 0 \in 0 .. n - 1 /\ BURST - 0 > MAX_RX_DCBS
        BY <1>16, <2>3 DEF Limits
      <4> QED
        BY <3>1, <4>1
    <3>3. PICK k \in 0 .. n - 1 : /\ (BURST - k) % TOKEN_LIMIT > MAX_RX_DCBS
                                  /\ t.halt \in RxDcbs /\ Ahead(t.rx, t.halt) = k
      BY <1>7, <3>2
    <3>4. BURST - k > MAX_RX_DCBS
      BY <3>1, <3>3
    <3>5. UpToHalt(rx, 0, t.halt, 0) = k
      BY <1>13, <3>3 DEF UpToHalt, RxDcbs
    <3> QED
      BY <2>3, <3>4, <3>5
  <2> QED
    BY <1>2, <1>9, <1>10, <1>16, <2>2, <2>3 DEF TokensOK, Limits
<1>17. RxState \in Parts /\ RxState.rx = rx /\ RxState.halt = t.halt /\ RxState.nomem = t.nomem
  BY <1>8, <1>9, <1>11 DEF RxState, Parts
<1>18. ChannelOK(RxState, 0, 0)
  BY <1>10, <1>14, <1>15, <1>16, <1>17 DEF ChannelOK
<1>19. Full(RxState)
  BY <1>7, <1>9, <1>10, <1>17 DEF Full
<1>20. rxh \in HandlerType /\ rxh.pc = "idle"
  <2>1. PICK m \in RxModes : rxh = [pc |-> "idle", left |-> 0, again |-> FALSE,
                                    napi |-> m.napi, budget |-> m.budget]
    BY DEF CdmaRxInit
  <2>2. m.napi \in BOOLEAN /\ m.budget \in 1 .. MAX_RX_DCBS
    OBVIOUS
  <2> QED
    BY <2>1, <2>2 DEF HandlerType
<1>21. Sound(0)
  BY <1>11, <1>18, <1>19, <1>20 DEF Sound, Follows
<1> QED
  BY <1>7, <1>11, <1>12, <1>20, <1>21 DEF CdmaRxIInv

-----------------------------------------------------------------------------
(* Who takes a step knows, besides, what the handler is at.                *)
Here(d) ==
    /\ rxh \in HandlerType /\ (rxh.pc = "deliver" => rxh.left > 0)
    /\ rx_nomem \in Nat /\ rxhw \in ChannelType
    /\ Sound(d)

LEMMA StateIs ==
    ASSUME NEW d, Here(d)
    PROVE  /\ RxState.rx = rx /\ RxState.halt = rxhw.halt /\ RxState.nomem = rx_nomem
           /\ RxState \in Parts /\ rx \in RxType
           /\ rxhw.pos \in 0 .. MAX_RX_DCBS /\ rxhw.halt \in 0 .. MAX_RX_DCBS
<1>1. RxState.rx = rx /\ RxState.halt = rxhw.halt /\ RxState.nomem = rx_nomem
  BY DEF RxState
<1>2. RxState \in Parts /\ RxState.rx \in RxType
  BY DEF Here, Sound, ChannelOK, Parts
<1> QED
  BY <1>1, <1>2 DEF Here, ChannelType

LEMMA LatchStep ==
    ASSUME NEW d, Here(d), DmaRxLatch
    PROVE  Sound(d)' /\ rxhw' \in ChannelType /\ rx_nomem' = rx_nomem
<1>1. rx' = [rx EXCEPT !.irq = FALSE] /\ rxhw' = rxhw /\ rx_nomem' = rx_nomem
  BY DEF DmaRxLatch
<1>2. rxh'.pc = "rx"
  BY DEF DmaRxLatch, Here, HandlerType
<1>3. SameButIrq(rx, rx')
  BY <1>1, StateIs, SetIrq
<1> DEFINE t == [rx |-> rx', halt |-> rxhw.halt, nomem |-> rx_nomem]
<1>4. RxState' = t
  BY <1>1 DEF RxState
<1>5. t \in Parts /\ t.rx = rx' /\ t.halt = rxhw.halt /\ t.nomem = rx_nomem
  BY <1>3, StateIs DEF Here, Parts, SameButIrq
<1> HIDE DEF t
<1>6. ChannelOK(t, rxhw.pos, d) /\ Full(t)
  BY <1>3, <1>5, StateIs, SameChannel DEF Here, Sound, Full, SameButIrq
<1> QED
  BY <1>1, <1>2, <1>4, <1>6 DEF Sound, Here

LEMMA DeliverStep ==
    ASSUME NEW d, Here(d), DeliverRx
    PROVE  Sound(d)' /\ rxhw' \in ChannelType /\ rx_nomem' = rx_nomem
<1>1. UNCHANGED <<rx, rxhw, rx_nomem>>
  BY DEF DeliverRx
<1>2. rx.running /\ rx.dcb[rx.dirty] = "done"
  BY DEF DeliverRx, MoreRx, Looks
<1>3. RingOK(rx, d) /\ rx.dirty \in RxDcbs /\ d \in Int
  BY StateIs DEF Here, Sound, ChannelOK, RingOK, RxType
<1>4. d > 0
  BY <1>2, <1>3 DEF RingOK, Ahead, RxDcbs
<1> QED
  BY <1>1, <1>4 DEF Sound, Here, RxState

LEMMA DoneStep ==
    ASSUME NEW d, Here(d), DmaRxDone
    PROVE  Sound(d)' /\ rxhw' \in ChannelType /\ rx_nomem' = rx_nomem
<1>1. UNCHANGED <<rx, rxhw, rx_nomem>> /\ rxh'.pc = "idle"
  BY DEF DmaRxDone, Here, HandlerType
<1> QED
  BY <1>1 DEF Sound, Here, RxState

(* A channel that goes on is at the first DCB with a buffer. *)
LEMMA HwAhead ==
    ASSUME NEW s \in RxType, NEW p, NEW h, NEW d, RingOK(s, d), HwOK(s, p, h, d),
           p # h, ~Follows(p, h)
    PROVE  p \in RxDcbs /\ d < s.free /\ Ahead(s, p) = d
<1>1. /\ s.dirty \in RxDcbs /\ s.free \in 0 .. MAX_RX_DCBS /\ d \in 0 .. s.free
      /\ p \in 0 .. MAX_RX_DCBS /\ h \in 0 .. MAX_RX_DCBS
  BY DEF RingOK, RxType, HwOK
<1>2. p < MAX_RX_DCBS
  BY <1>1 DEF Follows
<1>3. d < s.free
  <2>1. CASE h = MAX_RX_DCBS
    BY <1>1, <1>2, <2>1 DEF HwOK
  <2>2. CASE h # MAX_RX_DCBS
    <3>1. Ahead(s, h) \in Int
      BY <1>1 DEF Ahead, RxDcbs
    <3> QED
      BY <1>1, <2>2, <3>1 DEF HwOK
  <2> QED
    BY <2>1, <2>2
<1>4. Wrap(p) = Wrap(s.dirty + d)
  BY DEF HwOK
<1> QED
  BY <1>1, <1>2, <1>3, <1>4 DEF Ahead, Wrap, RxDcbs

LEMMA HwStep ==
    ASSUME NEW d, Here(d), HwRx
    PROVE  /\ Sound(d + 1)' /\ d + 1 \in 0 .. MAX_RX_DCBS
           /\ rxhw' \in ChannelType /\ rx_nomem' = rx_nomem
<1> DEFINE p == rxhw.pos
           h == rxhw.halt
           q == IF Follows(p + 1, h) THEN 0 ELSE p + 1
           dcb == [rx.dcb EXCEPT ![p] = IF @ \in {"empty", "stray"} THEN "stray" ELSE "done"]
<1>1. /\ rx.running /\ p # h
      /\ rx' = [rx EXCEPT !.dcb = dcb, !.irq = TRUE]
      /\ rxhw' = [rxhw EXCEPT !.pos = q]
      /\ UNCHANGED <<rxh, rx_nomem>>
  BY DEF HwRx
<1>2. /\ rx \in RxType /\ p \in 0 .. MAX_RX_DCBS /\ h \in 0 .. MAX_RX_DCBS
      /\ RingOK(rx, d) /\ HwOK(rx, p, h, d) /\ ~Follows(p, h)
      /\ Limits => TokensOK(rx, p, h, d)
      /\ MAX_RX_DCBS - rx.free <= rx_nomem
  BY <1>1, StateIs DEF Here, Sound, ChannelOK, Full
<1>3. rx.dirty \in RxDcbs /\ rx.free \in 0 .. MAX_RX_DCBS /\ d \in 0 .. rx.free
  BY <1>2 DEF RingOK, RxType
<1>4. p \in RxDcbs /\ d < rx.free /\ Ahead(rx, p) = d
  BY <1>1, <1>2, HwAhead
<1>5. /\ dcb \in [RxDcbs -> {"filled", "done", "empty", "kept", "stray"}]
      /\ \A i \in RxDcbs : dcb[i] = IF i = p THEN "done" ELSE rx.dcb[i]
  <2>1. rx.dcb[p] = "filled"
    BY <1>2, <1>3, <1>4 DEF RingOK
  <2> QED
    BY <1>2, <1>4, <2>1 DEF RxType
<1> HIDE DEF dcb
<1>6. /\ rx' \in RxType /\ rx'.dcb = dcb /\ rx'.free = rx.free /\ rx'.cur = rx.cur
      /\ rx'.dirty = rx.dirty /\ rx'.tokens = rx.tokens /\ rx'.running = rx.running
  BY <1>1, <1>2, <1>5 DEF RxType
<1>7. \A i : Ahead(rx', i) = Ahead(rx, i)
  BY <1>6 DEF Ahead
<1>8. RingOK(rx', d + 1)
  <2>1. d + 1 \in 0 .. rx'.free /\ rx'.cur = Wrap(rx'.dirty + rx'.free)
    BY <1>2, <1>3, <1>4, <1>6 DEF RingOK
  <2>2. ASSUME NEW i \in RxDcbs
        PROVE  /\ rx'.dcb[i] = "done" <=> Ahead(rx', i) < d + 1
               /\ rx'.dcb[i] = "filled" <=> d + 1 <= Ahead(rx', i) /\ Ahead(rx', i) < rx'.free
               /\ rx'.dcb[i] # "stray"
    <3>1. Ahead(rx, i) \in Int /\ (Ahead(rx, i) = d <=> i = p)
      BY <1>3, <1>4 DEF Ahead, RxDcbs
    <3>2. /\ rx.dcb[i] = "done" <=> Ahead(rx, i) < d
          /\ rx.dcb[i] = "filled" <=> d <= Ahead(rx, i) /\ Ahead(rx, i) < rx.free
          /\ rx.dcb[i] # "stray"
      BY <1>2 DEF RingOK
    <3> QED
      BY <1>3, <1>4, <1>5, <1>6, <1>7, <3>1, <3>2
  <2> QED
    BY <1>6, <2>1, <2>2 DEF RingOK
<1>9. q \in 0 .. MAX_RX_DCBS /\ ~Follows(q, h)
  BY <1>4 DEF Follows, RxDcbs
<1>10. h # MAX_RX_DCBS => d + 1 <= Ahead(rx, h) /\ Ahead(rx, h) < rx.free
  <2>1. h # MAX_RX_DCBS => d <= Ahead(rx, h) /\ Ahead(rx, h) < rx.free
    BY <1>2 DEF HwOK
  <2>2. ASSUME h # MAX_RX_DCBS PROVE Ahead(rx, h) \in Int /\ Ahead(rx, h) # d
    BY <1>1, <1>2, <1>3, <1>4, <2>2 DEF Ahead, RxDcbs
  <2> QED
    BY <1>3, <2>1, <2>2
<1>11. h = MAX_RX_DCBS => q = p + 1
  BY <1>9 DEF Follows
<1>12. HwOK(rx', q, h, d + 1)
  <2>1. Wrap(q) = Wrap(rx.dirty + (d + 1))
    <3>1. Wrap(q) = Wrap(p + 1)
      BY <1>4 DEF Follows, Wrap, RxDcbs
    <3>2. Wrap(p) = Wrap(rx.dirty + d)
      BY <1>2 DEF HwOK
    <3> QED
      BY <1>3, <1>4, <3>1, <3>2 DEF Wrap, RxDcbs
  <2>2. h = MAX_RX_DCBS => (d + 1) + (MAX_RX_DCBS - q) <= rx.free
    BY <1>2, <1>3, <1>4, <1>11 DEF HwOK, RxDcbs
  <2> QED
    BY <1>2, <1>6, <1>7, <1>9, <1>10, <2>1, <2>2 DEF HwOK
<1>13. UpToHalt(rx', q, h, d + 1) = UpToHalt(rx, p, h, d)
  BY <1>3, <1>4, <1>7, <1>11 DEF UpToHalt, RxDcbs
<1>14. Limits => TokensOK(rx', q, h, d + 1)
  BY <1>2, <1>6, <1>13 DEF TokensOK
<1> HIDE DEF q, p, h
<1>15. rxhw' \in ChannelType /\ rxhw'.pos = q /\ rxhw'.halt = h
  BY <1>1, <1>2, <1>9 DEF Here, ChannelType, h
<1> DEFINE t == [rx |-> rx', halt |-> h, nomem |-> rx_nomem]
<1>16. RxState' = t
  BY <1>1, <1>15 DEF RxState
<1>17. t \in Parts /\ t.rx = rx' /\ t.halt = h /\ t.nomem = rx_nomem
  BY <1>2, <1>6 DEF Here, Parts
<1> HIDE DEF t
<1>18. ChannelOK(t, q, d + 1) /\ Full(t)
  BY <1>1, <1>2, <1>6, <1>8, <1>12, <1>14, <1>17 DEF ChannelOK, Full
<1>19. d + 1 \in 0 .. MAX_RX_DCBS
  BY <1>3, <1>4
<1>20. Sound(d + 1)'
  BY <1>3, <1>9, <1>15, <1>16, <1>18, <1>19 DEF Sound
<1> QED
  BY <1>1, <1>15, <1>19, <1>20

(* The oldest packet is taken: its DCB is now the last one without buffer. *)
LEMMA TakenChannel ==
    ASSUME NEW d, Here(d), rx.running, d > 0, NEW b \in {"empty", "kept"}
    PROVE  LET r == Taken(b)
           IN  /\ ChannelOK(r, rxhw.pos, d - 1) /\ r.rx.running
               /\ r.rx.free = rx.free - 1 /\ r.nomem = rx_nomem
<1> DEFINE r == Taken(b)
           p == rxhw.pos
           h == rxhw.halt
           dcb == [rx.dcb EXCEPT ![rx.dirty] = b]
           free == rx.free - 1
           dirty == (rx.dirty + 1) % MAX_RX_DCBS
           q == [rx EXCEPT !.dcb = dcb, !.free = free, !.dirty = dirty]
<1>1. /\ rx \in RxType /\ p \in 0 .. MAX_RX_DCBS /\ h \in 0 .. MAX_RX_DCBS
      /\ RingOK(rx, d) /\ HwOK(rx, p, h, d) /\ ~Follows(p, h)
      /\ Limits => TokensOK(rx, p, h, d)
      /\ RxState = [rx |-> rx, halt |-> h, nomem |-> rx_nomem]
  BY StateIs DEF Here, Sound, ChannelOK, RxState
<1>2. rx.dirty \in RxDcbs /\ rx.free \in 0 .. MAX_RX_DCBS /\ d \in 0 .. rx.free /\ d > 0
  BY <1>1 DEF RingOK, RxType
<1>3. dirty = Wrap(rx.dirty + 1) /\ dirty \in RxDcbs
  <2>1. rx.dirty + 1 \in 0 .. 2 * MAX_RX_DCBS - 1
    BY <1>2 DEF RxDcbs
  <2>2. dirty = Wrap(rx.dirty + 1)
    BY <2>1, WrapMod
  <2> QED
    BY <1>2, <2>2 DEF Wrap, RxDcbs
<1>4. /\ dcb \in [RxDcbs -> {"filled", "done", "empty", "kept", "stray"}]
      /\ \A i \in RxDcbs : dcb[i] = IF i = rx.dirty THEN b ELSE rx.dcb[i]
  BY <1>1, <1>2 DEF RxType
<1>5. free \in 0 .. MAX_RX_DCBS
  BY <1>2
<1>6. r = [RxState EXCEPT !.rx = q]
  BY <1>1 DEF Taken
<1> HIDE DEF dcb, free, dirty, p, h
<1>7. /\ q \in RxType /\ q.dcb = dcb /\ q.free = free /\ q.dirty = dirty /\ q.cur = rx.cur
      /\ q.tokens = rx.tokens /\ q.running = rx.running
  BY <1>1, <1>3, <1>4, <1>5 DEF RxType
<1> HIDE DEF q, r
<1>8. r \in Parts /\ r.rx = q /\ r.halt = h /\ r.nomem = rx_nomem
  BY <1>1, <1>6, <1>7 DEF Here, Parts
<1>9. ASSUME NEW i \in RxDcbs
      PROVE  /\ Ahead(q, i) = IF i = rx.dirty THEN MAX_RX_DCBS - 1 ELSE Ahead(rx, i) - 1
             /\ Ahead(rx, i) \in 0 .. MAX_RX_DCBS - 1
             /\ Ahead(rx, i) = 0 <=> i = rx.dirty
  BY <1>2, <1>3, <1>7 DEF Ahead, Wrap, RxDcbs
<1>10. RingOK(q, d - 1)
  <2>1. d - 1 \in 0 .. q.free
    BY <1>2, <1>7 DEF free
  <2>2. q.cur = Wrap(q.dirty + q.free)
    <3>1. rx.cur = Wrap(rx.dirty + rx.free)
      BY <1>1 DEF RingOK
    <3> QED
      BY <1>2, <1>3, <1>7, <3>1 DEF free, Wrap, RxDcbs
  <2>3. ASSUME NEW i \in RxDcbs
        PROVE  /\ q.dcb[i] = "done" <=> Ahead(q, i) < d - 1
               /\ q.dcb[i] = "filled" <=> d - 1 <= Ahead(q, i) /\ Ahead(q, i) < q.free
               /\ q.dcb[i] # "stray"
    <3>1. /\ rx.dcb[i] = "done" <=> Ahead(rx, i) < d
          /\ rx.dcb[i] = "filled" <=> d <= Ahead(rx, i) /\ Ahead(rx, i) < rx.free
          /\ rx.dcb[i] # "stray"
      BY <1>1 DEF RingOK
    <3>2. CASE i = rx.dirty
      BY <1>2, <1>4, <1>7, <1>9, <3>2 DEF free
    <3>3. CASE i # rx.dirty
      BY <1>2, <1>4, <1>7, <1>9, <3>1, <3>3 DEF free
    <3> QED
      BY <3>2, <3>3
  <2> QED
    BY <1>7, <2>1, <2>2, <2>3 DEF RingOK
<1>11. h # MAX_RX_DCBS => /\ d <= Ahead(rx, h) /\ Ahead(rx, h) < rx.free
                          /\ h \in RxDcbs /\ Ahead(q, h) = Ahead(rx, h) - 1
                          /\ Ahead(rx, h) \in Int
  <2>1. h # MAX_RX_DCBS => /\ d <= Ahead(rx, h) /\ Ahead(rx, h) < rx.free
                           /\ h \in RxDcbs
    BY <1>1 DEF HwOK, RxDcbs
  <2> QED
    BY <1>2, <1>9, <2>1
<1>12. HwOK(q, p, h, d - 1)
  <2>1. Wrap(p) = Wrap(q.dirty + (d - 1))
    <3>1. Wrap(p) = Wrap(rx.dirty + d)
      BY <1>1 DEF HwOK
    <3> QED
      BY <1>1, <1>2, <1>3, <1>7, <3>1 DEF Wrap, RxDcbs
  <2>2. h = MAX_RX_DCBS => (d - 1) + (MAX_RX_DCBS - p) <= q.free
    BY <1>1, <1>2, <1>7 DEF HwOK, free
  <2>3. h # MAX_RX_DCBS => d - 1 <= Ahead(q, h) /\ Ahead(q, h) < q.free
    BY <1>2, <1>7, <1>11 DEF free
  <2> QED
    BY <1>1, <2>1, <2>2, <2>3 DEF HwOK
<1>13. Limits => TokensOK(q, p, h, d - 1)
  <2>1. UpToHalt(q, p, h, d - 1) = UpToHalt(rx, p, h, d) - 1 /\ UpToHalt(rx, p, h, d) \in Int
    BY <1>1, <1>2, <1>11 DEF UpToHalt
  <2> QED
    BY <1>1, <1>2, <1>7, <2>1 DEF TokensOK, free
<1> QED
  BY <1>7, <1>8, <1>10, <1>12, <1>13 DEF ChannelOK, free, p, h, r

LEMMA TakeStep ==
    ASSUME NEW d, Here(d), bkn_do_skb_rx, rx_nomem' <= 1
    PROVE  /\ Sound(d - 1)' /\ d - 1 \in 0 .. MAX_RX_DCBS
           /\ rxhw' \in ChannelType
<1>1. rx.running /\ d > 0 /\ d \in 0 .. rx.free /\ rx.free \in 0 .. MAX_RX_DCBS
  <2>1. /\ RingOK(rx, d) /\ rx.dirty \in RxDcbs /\ d \in 0 .. rx.free /\ rx.free \in 0 .. MAX_RX_DCBS
        /\ ~rx.running => d = 0 /\ (rxh.pc = "deliver" => d > 0)
    BY StateIs DEF Here, Sound, ChannelOK, RingOK, RxType
  <2>2. rxh.pc = "deliver" => d > 0
    BY DEF Here, Sound
  <2>3. rxh.pc # "deliver" => rx.running /\ rx.dcb[rx.dirty] = "done"
    BY DEF bkn_do_skb_rx, MoreRx, Looks
  <2>4. rx.dcb[rx.dirty] = "done" => d > 0
    BY <2>1 DEF RingOK, Ahead, RxDcbs
  <2> QED
    BY <2>1, <2>2, <2>3, <2>4
<1>2. PICK b \in {"empty", "kept"} : \E t \in Refilled(Taken(b)) : RxApply(t)
  BY DEF bkn_do_skb_rx
<1>3. PICK t \in Refilled(Taken(b)) : RxApply(t)
  BY <1>2
<1> DEFINE r == Taken(b)
<1>4. /\ ChannelOK(r, rxhw.pos, d - 1) /\ r.rx.running
      /\ r.rx.free = rx.free - 1 /\ r.nomem = rx_nomem
  BY <1>1, TakenChannel
<1> HIDE DEF r
<1>5. Limits => MAX_RX_DCBS - r.rx.free <= r.rx.tokens
  <2>1. ASSUME Limits
        PROVE  (MAX_RX_DCBS - r.rx.free) + UpToHalt(r.rx, rxhw.pos, r.halt, d - 1) <= r.rx.tokens
    BY <1>4, <2>1 DEF ChannelOK, TokensOK
  <2>2. UpToHalt(r.rx, rxhw.pos, r.halt, d - 1) \in Nat
    <3>1. HwOK(r.rx, rxhw.pos, r.halt, d - 1) /\ r.rx.dirty \in RxDcbs
      BY <1>4 DEF ChannelOK, Parts, RxType
    <3> QED
      BY <1>1, <3>1 DEF HwOK, UpToHalt, Ahead, RxDcbs
  <2>3. r.rx.tokens \in Int
    BY <1>4 DEF ChannelOK, Parts, RxType
  <2> QED
    BY <1>1, <1>4, <2>1, <2>2, <2>3
<1>6. t \in Refilled(r)
  BY <1>3 DEF r
<1>7. ChannelOK(t, rxhw.pos, d - 1) /\ \E n \in 0 .. MAX_RX_DCBS - r.rx.free : Filled(r, t, n)
  BY <1>4, <1>5, <1>6, RefillChannel
<1>8. PICK n \in 0 .. MAX_RX_DCBS - r.rx.free : Filled(r, t, n)
  BY <1>7
<1>9. rx_nomem' = t.nomem
  BY <1>3 DEF RxApply
<1>10. MAX_RX_DCBS - rx.free <= rx_nomem /\ rx_nomem \in Nat
  BY <1>1, StateIs DEF Here, Sound, Full
<1>11. Full(t)
  BY <1>1, <1>4, <1>8, <1>9, <1>10 DEF Filled, Full
<1>12. rxh'.pc = "rx"
  BY DEF bkn_do_skb_rx, Here, HandlerType
<1> QED
  BY <1>1, <1>3, <1>7, <1>11, <1>12, Applied DEF Here

(* A channel that waits at the oldest DCB has had all its packets taken;   *)
(* it may run to the end of the ring when all DCBs have a buffer.          *)
LEMMA LetGo ==
    ASSUME NEW t, NEW p, NEW d, ChannelOK(t, p, d), p \in 0 .. MAX_RX_DCBS,
           t.rx.running => t.rx.free = MAX_RX_DCBS,
           Limits /\ t.rx.running => MAX_RX_DCBS <= t.rx.tokens
    PROVE  LET u == Unsuppressed(t)
           IN  ChannelOK(u, p, d) /\ u.rx = t.rx /\ u.nomem = t.nomem
<1> DEFINE h == IF t.halt = t.rx.dirty THEN MAX_RX_DCBS ELSE t.halt
           u == Unsuppressed(t)
<1>1. /\ t \in Parts /\ t.rx \in RxType /\ RingOK(t.rx, d)
      /\ t.rx.dirty \in RxDcbs /\ d \in 0 .. t.rx.free /\ t.halt \in 0 .. MAX_RX_DCBS
      /\ t.rx.free \in 0 .. MAX_RX_DCBS /\ t.rx.tokens \in Int
  BY DEF ChannelOK, Parts, RingOK, RxType
<1>2. u = [t EXCEPT !.halt = h]
  BY DEF Unsuppressed
<1>3. h \in 0 .. MAX_RX_DCBS
  BY <1>1
<1>4. CASE t.halt # t.rx.dirty
  <2>1. h = t.halt
    BY <1>4
  <2>2. u = t
    BY <1>1, <1>2, <2>1 DEF Parts
  <2> QED
    BY <2>2
<1>5. CASE t.halt = t.rx.dirty
  <2>1. h = MAX_RX_DCBS /\ t.halt # MAX_RX_DCBS /\ Ahead(t.rx, t.halt) = 0
    BY <1>1, <1>5 DEF Ahead, RxDcbs
  <2> HIDE DEF h, u
  <2>2. u \in Parts /\ u.rx = t.rx /\ u.halt = MAX_RX_DCBS /\ u.nomem = t.nomem
    BY <1>1, <1>2, <1>3, <2>1 DEF Parts
  <2>3. ASSUME t.rx.running
        PROVE  HwOK(t.rx, p, MAX_RX_DCBS, d) /\ d = 0
    <3>1. HwOK(t.rx, p, t.halt, d)
      BY <2>3 DEF ChannelOK
    <3>2. d = 0
      BY <1>1, <2>1, <3>1 DEF HwOK
    <3> QED
      BY <1>1, <2>3, <3>1, <3>2 DEF HwOK
  <2>4. ASSUME Limits PROVE TokensOK(t.rx, p, MAX_RX_DCBS, d)
    <3>1. TokensOK(t.rx, p, t.halt, d)
      BY <2>4 DEF ChannelOK
    <3>2. t.rx.running => UpToHalt(t.rx, p, MAX_RX_DCBS, d) = MAX_RX_DCBS - p
      BY <2>3 DEF UpToHalt
    <3> QED
      BY <1>1, <2>4, <3>1, <3>2 DEF TokensOK
  <2> QED
    BY <1>1, <2>2, <2>3, <2>4 DEF ChannelOK, u
<1> QED
  BY <1>4, <1>5

LEMMA TickStep ==
    ASSUME NEW d, Here(d), bkn_rxtick, rx_nomem' <= 1
    PROVE  Sound(d)' /\ rxhw' \in ChannelType
<1> DEFINE T == IF rx.tokens + TOKENS_PER_TICK > BURST THEN BURST ELSE rx.tokens + TOKENS_PER_TICK
           q == [rx EXCEPT !.tokens = T]
           s == [RxState EXCEPT !.rx.tokens = T]
           p == rxhw.pos
           h == rxhw.halt
<1>1. /\ rx.tokens < BURST /\ UNCHANGED rxh
      /\ \E t \in Refilled(s) : RxApply(Unsuppressed(t))
  BY DEF bkn_rxtick
<1>2. /\ rx \in RxType /\ p \in 0 .. MAX_RX_DCBS /\ h \in 0 .. MAX_RX_DCBS
      /\ RingOK(rx, d) /\ (rx.running => HwOK(rx, p, h, d)) /\ (~rx.running => d = 0)
      /\ Limits => TokensOK(rx, p, h, d)
      /\ RxState = [rx |-> rx, halt |-> h, nomem |-> rx_nomem]
      /\ rx.running => MAX_RX_DCBS - rx.free <= rx_nomem
      /\ ~rx.running => rx_nomem # 0
  BY StateIs DEF Here, Sound, ChannelOK, RxState, Full
<1>3. rx.dirty \in RxDcbs /\ rx.free \in 0 .. MAX_RX_DCBS /\ d \in 0 .. rx.free /\ rx.tokens \in 0 .. TOKEN_LIMIT - 1
  BY <1>2 DEF RingOK, RxType
<1>4. T \in 0 .. TOKEN_LIMIT - 1 /\ T <= BURST /\ rx.tokens <= T
  BY <1>1, <1>3
<1>5. s = [RxState EXCEPT !.rx = q]
  BY <1>2
<1>6. Limits => T >= MAX_RX_DCBS
  BY <1>3 DEF Limits
<1>7. \/ T = BURST
      \/ T = rx.tokens + TOKENS_PER_TICK
  OBVIOUS
<1> HIDE DEF T, p, h
<1>8. /\ q \in RxType /\ q.dcb = rx.dcb /\ q.free = rx.free /\ q.dirty = rx.dirty /\ q.cur = rx.cur
      /\ q.tokens = T /\ q.running = rx.running
  BY <1>2, <1>4 DEF RxType
<1> HIDE DEF q, s
<1>9. s \in Parts /\ s.rx = q /\ s.halt = h /\ s.nomem = rx_nomem
  BY <1>2, <1>5, <1>8 DEF Here, Parts
<1>10. \A i : Ahead(q, i) = Ahead(rx, i)
  BY <1>8 DEF Ahead
<1>11. rx.running => UpToHalt(rx, p, h, d) \in Nat
  BY <1>2, <1>3 DEF UpToHalt, Ahead, RxDcbs, HwOK
<1>12. ChannelOK(s, p, d)
  <2>1. RingOK(q, d)
    BY <1>2, <1>8, <1>10 DEF RingOK
  <2>2. HwOK(rx, p, h, d) => HwOK(q, p, h, d)
    BY <1>8, <1>10 DEF HwOK
  <2>3. UpToHalt(q, p, h, d) = UpToHalt(rx, p, h, d)
    BY <1>10 DEF UpToHalt
  <2>4. TokensOK(rx, p, h, d) => TokensOK(q, p, h, d)
    BY <1>3, <1>4, <1>8, <1>11, <2>3 DEF TokensOK
  <2> QED
    BY <1>2, <1>8, <1>9, <2>1, <2>2, <2>4 DEF ChannelOK
<1>13. Limits => MAX_RX_DCBS - s.rx.free <= s.rx.tokens
  BY <1>3, <1>4, <1>6, <1>8, <1>9
<1>14. PICK t \in Refilled(s) : RxApply(Unsuppressed(t))
  BY <1>1
<1>15. ChannelOK(t, p, d) /\ \E n \in 0 .. MAX_RX_DCBS - s.rx.free : Filled(s, t, n)
  BY <1>12, <1>13, <1>14, RefillChannel
<1>16. PICK n \in 0 .. MAX_RX_DCBS - s.rx.free : Filled(s, t, n)
  BY <1>15
<1>17. /\ t.rx.running = rx.running /\ t.rx.free = rx.free + n
       /\ t.rx.tokens = (T - n) % TOKEN_LIMIT /\ n \in 0 .. MAX_RX_DCBS - rx.free
       /\ \/ t.nomem = rx_nomem /\ t.rx.free = MAX_RX_DCBS
          \/ t.nomem = rx_nomem + 1 /\ rx.free < MAX_RX_DCBS
  BY <1>8, <1>9, <1>16 DEF Filled
<1>18. Unsuppressed(t).nomem = t.nomem /\ Unsuppressed(t).rx = t.rx
  BY <1>15 DEF Unsuppressed, ChannelOK, Parts
<1>19. t.nomem <= 1 /\ rx_nomem \in Nat
  BY <1>14, <1>18 DEF RxApply, Here
<1>20. rx.running => t.rx.free = MAX_RX_DCBS /\ n <= 1
  BY <1>2, <1>3, <1>17, <1>19
<1>21. ASSUME Limits, rx.running
       PROVE  MAX_RX_DCBS <= t.rx.tokens
  <2>1. T - n >= MAX_RX_DCBS
    <3>1. (MAX_RX_DCBS - rx.free) + UpToHalt(rx, p, h, d) <= rx.tokens
      BY <1>2, <1>21 DEF TokensOK
    <3>2. UpToHalt(rx, p, h, d) \in Nat
      BY <1>11, <1>21
    <3>3. n <= rx.tokens
      BY <1>3, <1>17, <3>1, <3>2
    <3> QED
      BY <1>3, <1>7, <1>17, <1>20, <1>21, <3>3 DEF Limits
  <2>2. T - n \in Int /\ T - n \in 0 .. TOKEN_LIMIT - 1
    BY <1>3, <1>4, <1>17, <2>1
  <2> QED
    BY <1>17, <2>1, <2>2, TokenMod
<1> DEFINE u == Unsuppressed(t)
<1>22. ChannelOK(u, p, d) /\ u.rx = t.rx /\ u.nomem = t.nomem
  BY <1>2, <1>15, <1>17, <1>20, <1>21, LetGo
<1>23. RxApply(u)
  BY <1>14
<1> HIDE DEF u
<1>24. Full(u)
  BY <1>2, <1>3, <1>17, <1>19, <1>20, <1>22 DEF Full
<1>25. (rxh.pc = "deliver")' => d > 0
  BY <1>1 DEF Here, Sound
<1> QED
  BY <1>22, <1>23, <1>24, <1>25, Applied DEF Here, p

-----------------------------------------------------------------------------
(* What holds whatever the ring is like. *)
LEMMA RefillNomem ==
    ASSUME NEW r, r.nomem \in 0 .. MAX_NOMEM, "nomem" \in DOMAIN r, NEW t \in Refilled(r)
    PROVE  t.nomem \in 0 .. MAX_NOMEM /\ r.nomem <= t.nomem
<1>1. PICK n \in 0 .. MAX_RX_DCBS : FillStops(r, n) /\ t = bkn_rx_refill(r, n)
  BY DEF Refilled
<1>2. t.nomem = IF n = MAX_RX_DCBS - r.rx.free THEN r.nomem ELSE r.nomem + 1
  BY <1>1 DEF bkn_rx_refill
<1> QED
  BY <1>1, <1>2 DEF FillStops

LEMMA NomemStep ==
    ASSUME rx_nomem \in 0 .. MAX_NOMEM, [CdmaRxNext]_rxvars
    PROVE  rx_nomem' \in 0 .. MAX_NOMEM /\ rx_nomem <= rx_nomem'
<1>1. CASE bkn_do_skb_rx
  <2>1. PICK b \in {"empty", "kept"} : \E t \in Refilled(Taken(b)) : RxApply(t)
    BY <1>1 DEF bkn_do_skb_rx
  <2>2. PICK t \in Refilled(Taken(b)) : RxApply(t)
    BY <2>1
  <2>3. Taken(b).nomem = rx_nomem /\ "nomem" \in DOMAIN Taken(b)
    BY DEF Taken, RxState
  <2> QED
    BY <2>2, <2>3, RefillNomem DEF RxApply
<1>2. CASE bkn_rxtick
  <2> DEFINE T == IF rx.tokens + TOKENS_PER_TICK > BURST THEN BURST ELSE rx.tokens + TOKENS_PER_TICK
             s == [RxState EXCEPT !.rx.tokens = T]
  <2>1. PICK t \in Refilled(s) : RxApply(Unsuppressed(t))
    BY <1>2 DEF bkn_rxtick
  <2>2. s.nomem = rx_nomem /\ "nomem" \in DOMAIN s
    BY DEF RxState
  <2> HIDE DEF s
  <2>3. t.nomem \in 0 .. MAX_NOMEM /\ rx_nomem <= t.nomem
    BY <2>1, <2>2, RefillNomem
  <2>4. Unsuppressed(t).nomem = t.nomem
    BY DEF Unsuppressed
  <2> QED
    BY <2>1, <2>3, <2>4 DEF RxApply
<1>3. CASE DmaRxLatch \/ DeliverRx \/ DmaRxDone \/ HwRx \/ UNCHANGED rxvars
  BY <1>3 DEF DmaRxLatch, DeliverRx, DmaRxDone, HwRx, rxvars
<1> QED
  BY <1>1, <1>2, <1>3 DEF CdmaRxNext

LEMMA HandlerStep ==
    ASSUME rxh \in HandlerType, rxh.pc = "deliver" => rxh.left > 0, [CdmaRxNext]_rxvars
    PROVE  rxh' \in HandlerType /\ (rxh'.pc = "deliver" => rxh'.left > 0)
<1> /\ rxh.left \in 0 .. MAX_RX_DCBS /\ rxh.budget \in 1 .. MAX_RX_DCBS
    /\ rxh.napi \in BOOLEAN
  BY DEF HandlerType
<1>1. CASE DmaRxLatch
  <2> DEFINE l == rxh.budget
  <2>1. rxh' = [rxh EXCEPT !.pc = "rx", !.left = l] /\ l \in 0 .. MAX_RX_DCBS
    BY <1>1 DEF DmaRxLatch
  <2> HIDE DEF l
  <2> QED
    BY <2>1 DEF HandlerType
<1>2. CASE DeliverRx
  BY <1>2 DEF DeliverRx, MoreRx, Looks, HandlerType
<1>3. CASE bkn_do_skb_rx
  <2> DEFINE l == rxh.left - 1
  <2>1. rxh' = [rxh EXCEPT !.pc = "rx", !.left = l] /\ rxh.left > 0
    BY <1>3 DEF bkn_do_skb_rx, MoreRx, Looks
  <2>2. l \in 0 .. MAX_RX_DCBS
    BY <2>1
  <2> HIDE DEF l
  <2> QED
    BY <2>1, <2>2 DEF HandlerType
<1>4. CASE DmaRxDone
  <2> DEFINE b == IF rxh.napi THEN rxh.left = 0 ELSE rxh.left \in 1 .. rxh.budget - 1
  <2>1. rxh' = [rxh EXCEPT !.pc = "idle", !.again = b]
    BY <1>4, Zenon DEF DmaRxDone
  <2>2. b \in BOOLEAN
    <3>1. CASE rxh.napi
      BY <3>1
    <3>2. CASE ~rxh.napi
      BY <3>2
    <3> QED
      BY <3>1, <3>2
  <2> HIDE DEF b
  <2> QED
    BY <2>1, <2>2 DEF HandlerType
<1>5. CASE bkn_rxtick \/ HwRx \/ UNCHANGED rxvars
  BY <1>5 DEF bkn_rxtick, HwRx, rxvars
<1> QED
  BY <1>1, <1>2, <1>3, <1>4, <1>5 DEF CdmaRxNext

LEMMA CdmaRxNextInv == CdmaRxIInv /\ [CdmaRxNext]_rxvars => CdmaRxIInv'
<1> SUFFICES ASSUME CdmaRxIInv, [CdmaRxNext]_rxvars
             PROVE  CdmaRxIInv'
  OBVIOUS
<1>1. rx_nomem' \in 0 .. MAX_NOMEM /\ rx_nomem <= rx_nomem'
  BY NomemStep DEF CdmaRxIInv
<1>2. rxh' \in HandlerType /\ (rxh'.pc = "deliver" => rxh'.left > 0)
  BY HandlerStep DEF CdmaRxIInv
<1>3. ASSUME rx_nomem' <= 1
      PROVE  rxhw' \in ChannelType /\ \E e \in 0 .. MAX_RX_DCBS : Sound(e)'
  <2>1. PICK d \in 0 .. MAX_RX_DCBS : Here(d)
    BY <1>1, <1>3 DEF CdmaRxIInv, Here
  <2>2. CASE DmaRxLatch
    BY <2>1, <2>2, LatchStep
  <2>3. CASE DeliverRx
    BY <2>1, <2>3, DeliverStep
  <2>4. CASE bkn_do_skb_rx
    BY <1>3, <2>1, <2>4, TakeStep
  <2>5. CASE DmaRxDone
    BY <2>1, <2>5, DoneStep
  <2>6. CASE bkn_rxtick
    BY <1>3, <2>1, <2>6, TickStep
  <2>7. CASE HwRx
    BY <2>1, <2>7, HwStep
  <2>8. CASE UNCHANGED rxvars
    BY <2>1, <2>8 DEF rxvars, Here, Sound, RxState
  <2> QED
    BY <2>2, <2>3, <2>4, <2>5, <2>6, <2>7, <2>8 DEF CdmaRxNext
<1> QED
  BY <1>1, <1>2, <1>3 DEF CdmaRxIInv

LEMMA CdmaRxInvariant == CdmaRxSpec => []CdmaRxIInv
BY CdmaRxInitInv, CdmaRxNextInv, PTL DEF CdmaRxSpec

-----------------------------------------------------------------------------
(* Whatever fails: a refill that does not fill the ring ends at a DCB      *)
(* without buffer, at which the handler stops as well.                     *)
RingBounded(s) ==
    /\ s.cur = Wrap(s.dirty + s.free)
    /\ s.free < MAX_RX_DCBS => s.dcb[s.cur] \in {"empty", "stray"}

CdmaRxTInv ==
    /\ rx \in RxType /\ RingBounded(rx)
    /\ rxhw \in ChannelType /\ ~Follows(rxhw.pos, rxhw.halt)
    /\ rxh.pc = "deliver" => rx.dcb[rx.dirty] = "done"

LEMMA DoneHasFree ==
    ASSUME NEW s \in RxType, RingBounded(s), s.dcb[s.dirty] = "done"
    PROVE  s.free > 0
BY DEF RxType, RxDcbs, RingBounded, Wrap

(* What a refill of a ring leaves, and what is applied of it. *)
LEMMA RefillBounded ==
    ASSUME NEW r \in Parts, r.rx.cur = Wrap(r.rx.dirty + r.rx.free), NEW t \in Refilled(r)
    PROVE  /\ t \in Parts /\ RingBounded(t.rx) /\ t.rx.dirty = r.rx.dirty
           /\ r.rx.free > 0 => t.rx.dcb[t.rx.dirty] = r.rx.dcb[r.rx.dirty]
<1>1. PICK n \in 0 .. MAX_RX_DCBS - r.rx.free : Filled(r, t, n)
  BY RefillParts
<1>2. t \in Parts /\ t.rx.dirty = r.rx.dirty
  BY <1>1 DEF Filled
<1>3. RingBounded(t.rx)
  BY RefillParts DEF RingBounded
<1>4. r.rx.dirty \in RxDcbs /\ Ahead(r.rx, r.rx.dirty) = 0
  BY DEF Parts, RxType, RxDcbs, Ahead
<1>5. r.rx.free > 0 => t.rx.dcb[r.rx.dirty] = r.rx.dcb[r.rx.dirty]
  BY <1>4, RefillParts
<1> QED
  BY <1>2, <1>3, <1>5

LEMMA AppliedType ==
    ASSUME NEW r \in Parts, RxApply(r), rxhw \in ChannelType
    PROVE  SameButIrq(r.rx, rx') /\ rxhw' \in ChannelType /\ ~Follows(rxhw'.pos, rxhw'.halt)
<1> DEFINE b == r.rx.irq \/ Follows(rxhw.pos, r.halt)
           p == IF Follows(rxhw.pos, r.halt) THEN 0 ELSE rxhw.pos
<1>1. rx' = [r.rx EXCEPT !.irq = b] /\ rxhw' = [halt |-> r.halt, pos |-> p]
  BY DEF RxApply
<1>2. r.rx \in RxType /\ r.halt \in 0 .. MAX_RX_DCBS
  BY DEF Parts
<1>3. b \in BOOLEAN /\ p \in 0 .. MAX_RX_DCBS /\ ~Follows(p, r.halt)
  BY <1>2 DEF RxType, ChannelType, Follows
<1> HIDE DEF b, p
<1> QED
  BY <1>1, <1>2, <1>3, SetIrq DEF ChannelType

LEMMA StateParts ==
    ASSUME CdmaRxTInv, rx_nomem \in Nat
    PROVE  /\ RxState \in Parts /\ RxState.rx = rx /\ RxState.halt = rxhw.halt
           /\ RxState = [rx |-> rx, halt |-> rxhw.halt, nomem |-> rx_nomem]
BY DEF CdmaRxTInv, RxState, Parts, ChannelType

LEMMA CdmaRxInitType == CdmaRxInit => CdmaRxTInv
<1> SUFFICES ASSUME CdmaRxInit PROVE CdmaRxTInv
  OBVIOUS
<1> DEFINE r == bkn_init_dcbs
<1>1. PICK t \in Refilled(r) : /\ rx = [t.rx EXCEPT !.running = t.rx.free = MAX_RX_DCBS]
                               /\ rxhw = [pos |-> 0, halt |-> t.halt]
  BY DEF CdmaRxInit
<1>2. r \in Parts /\ r.rx.free = 0 /\ r.rx.cur = 0 /\ r.rx.dirty = 0
  BY DEF bkn_init_dcbs, Parts, RxType, RxDcbs
<1> HIDE DEF r
<1>3. t \in Parts /\ RingBounded(t.rx)
  BY <1>2, RefillBounded DEF Wrap
<1> DEFINE b == t.rx.free = MAX_RX_DCBS
<1>4. t.rx \in RxType /\ t.halt \in 0 .. MAX_RX_DCBS /\ b \in BOOLEAN
  BY <1>3 DEF Parts
<1>5. rx = [t.rx EXCEPT !.running = b]
  BY <1>1
<1> HIDE DEF b
<1>6. rx \in RxType /\ RingBounded(rx)
  BY <1>3, <1>4, <1>5, SetRunning DEF RingBounded
<1>7. rxhw \in ChannelType /\ ~Follows(rxhw.pos, rxhw.halt)
  BY <1>1, <1>4 DEF ChannelType, Follows
<1>8. rxh.pc = "idle"
  BY DEF CdmaRxInit
<1> QED
  BY <1>6, <1>7, <1>8 DEF CdmaRxTInv

LEMMA TakenParts ==
    ASSUME CdmaRxTInv, rx_nomem \in Nat, rx.dcb[rx.dirty] = "done", NEW b \in {"empty", "kept"}
    PROVE  LET r == Taken(b) IN r \in Parts /\ r.rx.cur = Wrap(r.rx.dirty + r.rx.free)
<1> DEFINE dcb == [rx.dcb EXCEPT ![rx.dirty] = b]
           free == rx.free - 1
           dirty == (rx.dirty + 1) % MAX_RX_DCBS
           q == [rx EXCEPT !.dcb = dcb, !.free = free, !.dirty = dirty]
<1>1. rx \in RxType /\ RingBounded(rx)
  BY DEF CdmaRxTInv
<1>2. rx.dirty \in RxDcbs /\ rx.free \in 0 .. MAX_RX_DCBS /\ rx.free > 0
  BY <1>1, DoneHasFree DEF RxType
<1>3. dirty = Wrap(rx.dirty + 1) /\ dirty \in RxDcbs
  <2>1. rx.dirty + 1 \in 0 .. 2 * MAX_RX_DCBS - 1
    BY <1>2 DEF RxDcbs
  <2>2. dirty = Wrap(rx.dirty + 1)
    BY <2>1, WrapMod
  <2> QED
    BY <1>2, <2>2 DEF Wrap, RxDcbs
<1>4. dcb \in [RxDcbs -> {"filled", "done", "empty", "kept", "stray"}] /\ free \in 0 .. MAX_RX_DCBS
  BY <1>1, <1>2 DEF RxType
<1>5. Taken(b) = [RxState EXCEPT !.rx = q]
  <2>1. RxState = [rx |-> rx, halt |-> rxhw.halt, nomem |-> rx_nomem]
    BY StateParts
  <2> QED
    BY <2>1 DEF Taken
<1> HIDE DEF dcb, dirty
<1>6. q \in RxType /\ q.cur = rx.cur /\ q.free = rx.free - 1 /\ q.dirty = dirty
  BY <1>1, <1>3, <1>4 DEF RxType
<1>7. q.cur = Wrap(q.dirty + q.free)
  BY <1>1, <1>2, <1>3, <1>6 DEF RingBounded, Wrap, RxDcbs
<1> HIDE DEF q
<1>8. Taken(b).rx = q /\ Taken(b) \in Parts
  BY <1>5, <1>6, StateParts DEF Parts
<1> QED
  BY <1>7, <1>8

LEMMA TakeType ==
    ASSUME CdmaRxTInv, rx_nomem \in Nat, bkn_do_skb_rx, rxh \in HandlerType
    PROVE  CdmaRxTInv'
<1>1. PICK b \in {"empty", "kept"} : \E t \in Refilled(Taken(b)) : RxApply(t)
  BY DEF bkn_do_skb_rx
<1>2. PICK t \in Refilled(Taken(b)) : RxApply(t)
  BY <1>1
<1>3. rx.dcb[rx.dirty] = "done"
  BY DEF bkn_do_skb_rx, MoreRx, CdmaRxTInv
<1>4. t \in Parts /\ RingBounded(t.rx)
  BY <1>3, TakenParts, RefillBounded
<1>5. SameButIrq(t.rx, rx') /\ rxhw' \in ChannelType /\ ~Follows(rxhw'.pos, rxhw'.halt)
  BY <1>2, <1>4, AppliedType DEF CdmaRxTInv
<1>6. rxh'.pc = "rx"
  BY DEF bkn_do_skb_rx, HandlerType
<1> QED
  BY <1>4, <1>5, <1>6 DEF CdmaRxTInv, RingBounded, SameButIrq

LEMMA TickType ==
    ASSUME CdmaRxTInv, rx_nomem \in Nat, bkn_rxtick
    PROVE  CdmaRxTInv'
<1> DEFINE T == IF rx.tokens + TOKENS_PER_TICK > BURST THEN BURST ELSE rx.tokens + TOKENS_PER_TICK
           q == [rx EXCEPT !.tokens = T]
           s == [RxState EXCEPT !.rx.tokens = T]
<1>1. UNCHANGED rxh /\ \E t \in Refilled(s) : RxApply(Unsuppressed(t))
  BY DEF bkn_rxtick
<1>2. PICK t \in Refilled(s) : RxApply(Unsuppressed(t))
  BY <1>1
<1>3. rx \in RxType /\ RingBounded(rx) /\ rx.tokens \in 0 .. TOKEN_LIMIT - 1
  BY DEF CdmaRxTInv, RxType
<1>4. T \in 0 .. TOKEN_LIMIT - 1
  BY <1>3
<1>5. s = [rx |-> q, halt |-> rxhw.halt, nomem |-> rx_nomem]
  BY StateParts
<1> HIDE DEF T, s
<1>6. q \in RxType /\ q.cur = rx.cur /\ q.dirty = rx.dirty /\ q.free = rx.free /\ q.dcb = rx.dcb
  BY <1>3, <1>4 DEF RxType
<1> HIDE DEF q
<1>7. s \in Parts /\ s.rx = q
  BY <1>5, <1>6 DEF CdmaRxTInv, Parts, ChannelType
<1>8. /\ t \in Parts /\ RingBounded(t.rx) /\ t.rx.dirty = rx.dirty
      /\ rx.free > 0 => t.rx.dcb[t.rx.dirty] = rx.dcb[rx.dirty]
  BY <1>2, <1>3, <1>6, <1>7, RefillBounded DEF RingBounded
<1> DEFINE u == Unsuppressed(t)
<1>9. u \in Parts /\ u.rx = t.rx
  <2> DEFINE h == IF t.halt = t.rx.dirty THEN MAX_RX_DCBS ELSE t.halt
  <2>1. u = [t EXCEPT !.halt = h] /\ h \in 0 .. MAX_RX_DCBS
    BY <1>8 DEF Unsuppressed, Parts
  <2> HIDE DEF u, h
  <2> QED
    BY <1>8, <2>1 DEF Parts
<1>10. RxApply(u)
  BY <1>2
<1> HIDE DEF u
<1>11. SameButIrq(t.rx, rx') /\ rxhw' \in ChannelType /\ ~Follows(rxhw'.pos, rxhw'.halt)
  BY <1>9, <1>10, AppliedType DEF CdmaRxTInv
<1>12. rxh'.pc = "deliver" => rx'.dcb[rx'.dirty] = "done"
  BY <1>1, <1>3, <1>8, <1>11, DoneHasFree DEF CdmaRxTInv, SameButIrq
<1> QED
  BY <1>8, <1>11, <1>12 DEF CdmaRxTInv, RingBounded, SameButIrq

LEMMA HwType ==
    ASSUME CdmaRxTInv, HwRx
    PROVE  CdmaRxTInv'
<1> DEFINE p == rxhw.pos
           q == IF Follows(p + 1, rxhw.halt) THEN 0 ELSE p + 1
           dcb == [rx.dcb EXCEPT ![p] = IF @ \in {"empty", "stray"} THEN "stray" ELSE "done"]
<1>1. /\ p # rxhw.halt /\ UNCHANGED rxh
      /\ rx' = [rx EXCEPT !.dcb = dcb, !.irq = TRUE]
      /\ rxhw' = [rxhw EXCEPT !.pos = q]
  BY DEF HwRx
<1>2. rx \in RxType /\ RingBounded(rx) /\ rxhw \in ChannelType /\ ~Follows(p, rxhw.halt)
  BY DEF CdmaRxTInv
<1>3. p \in RxDcbs
  BY <1>1, <1>2 DEF ChannelType, Follows, RxDcbs
<1>4. q \in 0 .. MAX_RX_DCBS /\ ~Follows(q, rxhw.halt)
  BY <1>3 DEF Follows, RxDcbs
<1>5. /\ dcb \in [RxDcbs -> {"filled", "done", "empty", "kept", "stray"}]
      /\ \A i \in RxDcbs : dcb[i] \in {rx.dcb[i], IF rx.dcb[i] \in {"empty", "stray"} THEN "stray" ELSE "done"}
  BY <1>2, <1>3 DEF RxType
<1> HIDE DEF dcb, q, p
<1>6. /\ rx' \in RxType /\ rx'.dcb = dcb /\ rx'.free = rx.free /\ rx'.cur = rx.cur /\ rx'.dirty = rx.dirty
  BY <1>1, <1>2, <1>5 DEF RxType
<1>7. rx.cur \in RxDcbs /\ rx.dirty \in RxDcbs
  BY <1>2 DEF RxType
<1>8. RingBounded(rx')
  BY <1>2, <1>5, <1>6, <1>7 DEF RingBounded
<1>9. rxhw' \in ChannelType /\ ~Follows(rxhw'.pos, rxhw'.halt)
  BY <1>1, <1>2, <1>4 DEF ChannelType
<1>10. rxh'.pc = "deliver" => rx'.dcb[rx'.dirty] = "done"
  BY <1>1, <1>5, <1>6, <1>7 DEF CdmaRxTInv
<1> QED
  BY <1>6, <1>8, <1>9, <1>10 DEF CdmaRxTInv

LEMMA HandlerStepType ==
    ASSUME CdmaRxTInv, rxh \in HandlerType, DmaRxLatch \/ DeliverRx \/ DmaRxDone \/ UNCHANGED rxvars
    PROVE  CdmaRxTInv'
<1>1. CASE DmaRxLatch
  <2>1. rx' = [rx EXCEPT !.irq = FALSE] /\ rxhw' = rxhw /\ rxh'.pc = "rx"
    BY <1>1 DEF DmaRxLatch, HandlerType
  <2>2. SameButIrq(rx, rx')
    BY <2>1, SetIrq DEF CdmaRxTInv
  <2> QED
    BY <2>1, <2>2 DEF CdmaRxTInv, RingBounded, SameButIrq
<1>2. CASE DeliverRx
  BY <1>2 DEF DeliverRx, MoreRx, CdmaRxTInv
<1>3. CASE DmaRxDone
  <2>1. UNCHANGED <<rx, rxhw>> /\ rxh'.pc = "idle"
    BY <1>3 DEF DmaRxDone, HandlerType
  <2> QED
    BY <2>1 DEF CdmaRxTInv
<1>4. CASE UNCHANGED rxvars
  BY <1>4 DEF rxvars, CdmaRxTInv
<1> QED
  BY <1>1, <1>2, <1>3, <1>4

(* The variables keep their types (bkn_init_dcbs, bkn_rx_refill,           *)
(* bkn_do_skb_rx), however often memory or a mapping fails: there are      *)
(* never less than no DCBs to take.                                        *)
THEOREM CdmaRxTypeCorrect == CdmaRxSpec => []CdmaRxTypeOK
<1>1. CdmaRxIInv /\ CdmaRxTInv /\ [CdmaRxNext]_rxvars => CdmaRxTInv'
  <2> SUFFICES ASSUME CdmaRxIInv, CdmaRxTInv, [CdmaRxNext]_rxvars
               PROVE  CdmaRxTInv'
    OBVIOUS
  <2>1. rxh \in HandlerType /\ rx_nomem \in Nat
    BY DEF CdmaRxIInv
  <2> QED
    BY <2>1, TakeType, TickType, HwType, HandlerStepType DEF CdmaRxNext
<1>2. CdmaRxIInv /\ CdmaRxTInv => CdmaRxTypeOK
  BY DEF CdmaRxIInv, CdmaRxTInv, CdmaRxTypeOK, ChannelType, HandlerType
<1> QED
  BY <1>1, <1>2, CdmaRxInitType, CdmaRxInvariant, PTL DEF CdmaRxSpec

(* The channel writes only into DCBs that have a buffer and no packet yet, *)
(* until an allocation fails for the second time (bkn_rx_refill,           *)
(* bkn_rx_add_tokens).                                                     *)
THEOREM CdmaRxHwOnFilled == CdmaRxSpec => []CdmaRxOnFilled
<1>1. CdmaRxIInv => CdmaRxOnFilled
  <2> SUFFICES ASSUME CdmaRxIInv, rx_nomem <= 1, rx.running, rxhw.pos # rxhw.halt
               PROVE  rx.dcb[rxhw.pos] = "filled"
    BY DEF CdmaRxOnFilled
  <2>1. PICK d \in 0 .. MAX_RX_DCBS : Here(d)
    BY DEF CdmaRxIInv, Here
  <2>2. /\ rx \in RxType /\ RingOK(rx, d) /\ HwOK(rx, rxhw.pos, rxhw.halt, d)
        /\ ~Follows(rxhw.pos, rxhw.halt)
    BY <2>1, StateIs DEF Here, Sound, ChannelOK
  <2>3. rxhw.pos \in RxDcbs /\ d < rx.free /\ Ahead(rx, rxhw.pos) = d
    BY <2>2, HwAhead
  <2> QED
    BY <2>1, <2>2, <2>3 DEF RingOK
<1> QED
  BY <1>1, CdmaRxInvariant, PTL

(* Tokens never run out (bkn_rx_refill) where bkn_rx_rate_config makes the *)
(* burst greater than the ring, and a tick add a token for every DCB: a    *)
(* refill takes one per DCB without looking, and never takes more than     *)
(* there are, until an allocation fails for the second time.               *)
THEOREM CdmaRxRateKept == Limits /\ CdmaRxSpec => []CdmaRxRate
<1>1. Limits /\ CdmaRxIInv => CdmaRxRate
  <2> SUFFICES ASSUME Limits, CdmaRxIInv, rx_nomem <= 1
               PROVE  rx.tokens <= BURST
    BY DEF CdmaRxRate
  <2>1. PICK d \in 0 .. MAX_RX_DCBS : Here(d)
    BY DEF CdmaRxIInv, Here
  <2>2. TokensOK(rx, rxhw.pos, rxhw.halt, d)
    BY <2>1, StateIs DEF Here, Sound, ChannelOK
  <2> QED
    BY <2>2 DEF TokensOK
<1>2. [](CdmaRxIInv) /\ Limits => []CdmaRxRate
  <2>1. CASE Limits
    <3>1. CdmaRxIInv => CdmaRxRate
      BY <1>1, <2>1
    <3> QED
      BY <3>1, PTL
  <2>2. CASE ~Limits
    BY <2>2
  <2> QED
    BY <2>1, <2>2
<1> QED
  BY <1>2, CdmaRxInvariant

(* The default settings of rx_rate and rx_burst are such, for every clock  *)
(* rate of Linux.                                                          *)
LEMMA DefaultRates ==
    ASSUME RX_RATE = 100000, RX_BURST = 0, MAX_RX_DCBS = 64, HZ \in {100, 250, 300, 1000}
    PROVE  Limits
<1>1. burst_max = 10000
  BY Z3 DEF burst_max
<1>2. RX_RATE \div burst_max = 10
  BY <1>1, Z3
<1>3. jiffies_per_rxtick = HZ \div 10 /\ jiffies_per_rxtick \in {10, 25, 30, 100}
  BY <1>2, Z3 DEF jiffies_per_rxtick, AtLeast
<1>4. rxticks_per_sec = 10
  BY <1>3, Z3 DEF rxticks_per_sec
<1>5. rate_max = 100000 /\ BURST = 10000
  BY <1>1, <1>4, Z3 DEF rate_max, BURST, AtLeast
<1>6. rate_max \div HZ \in {1000, 400, 333, 100}
  BY <1>5, Z3
<1>7. jiffies_per_rxtick * (rate_max \div HZ) >= 1000
  BY <1>3, <1>6, Z3
<1> QED
  BY <1>5, <1>7 DEF Limits, TOKENS_PER_TICK

-----------------------------------------------------------------------------
(***************************************************************************)
(* KnetCdmaTx.  The DCBs of the ring are counted from "dirty" on, and d of *)
(* them are done.  The chains that KNET has are a queue, each linked to    *)
(* the next.  The channel and the halt address are in one of two modes:    *)
(* packets of the ring are sent up to "cur" (RingMode), or the chains up   *)
(* to the end of one of them (ChainMode), which the channel still comes to *)
(* (ToChain) or is in (InChain).                                           *)
(***************************************************************************)
USE CdmaTxAssumption

TxWrap(i) == IF i >= MAX_TX_DCBS THEN i - MAX_TX_DCBS ELSE i
TxAhead(t, i) == IF i >= t.dirty THEN i - t.dirty ELSE i - t.dirty + MAX_TX_DCBS
Used(t) == MAX_TX_DCBS - t.free

(* The DCBs in use, from "dirty" on: the first d of them are done.         *)
TxRingOK(t, d) ==
    /\ t.free >= 1 /\ d \in 0 .. Used(t)
    /\ t.cur = TxWrap(t.dirty + Used(t))
    /\ \A i \in TxDcbs : TxAhead(t, i) < Used(t) =>
          /\ t.done[i] <=> TxAhead(t, i) < d
          /\ t.dcb[i] # "free"
SkbsFrom(t, n) ==
    \A i \in TxDcbs : n <= TxAhead(t, i) /\ TxAhead(t, i) < Used(t) => t.dcb[i] = "skb"

(* The chains that KNET has, the one being sent included, each linked to   *)
(* the next; e is the last.                                                *)
Queue(t) == IF t.api_active THEN <<t.api_dcb_chain>> \o t.api_dcb_list ELSE t.api_dcb_list
QueueOK(q, C, e) ==
    /\ q \in Seq(Chains)
    /\ \A j, k \in 1 .. Len(q) : q[j] = q[k] => j = k
    /\ \A k \in 1 .. Len(q) : C[q[k]].api
    /\ \A k \in 1 .. Len(q) - 1 : C[q[k]].link = At(q[k + 1], 1)
    /\ e = IF Len(q) = 0 THEN NoChain ELSE q[Len(q)]
Fresh(q, C, k) == \A j \in k .. Len(q) : C[q[j]].done = 0
Sent(q, C, k) == \A j \in 1 .. k - 1 : C[q[j]].done = DCB_CNT + 1

(* The channel, at p, comes to DCB i of the ring next: it is there, or it  *)
(* is at the reload DCB of a chain that KNET has given back.               *)
ComesTo(q, C, p, i) ==
    \/ p.at = Ring /\ TxWrap(p.i) = i
    \/ /\ p.at \in Chains /\ p.i = DCB_CNT + 1
       /\ C[p.at].done = DCB_CNT /\ C[p.at].link = At(Ring, i)
       /\ \A k \in 1 .. Len(q) : q[k] # p.at
InChain(q, C, p, k) ==
    /\ p.at = q[k] /\ C[q[k]].done = p.i - 1
    /\ Sent(q, C, k) /\ Fresh(q, C, k + 1)

RingMode(s, p, d) ==
    /\ ~s.t.api_active /\ s.halt = At(Ring, s.t.cur)
    /\ ComesTo(Queue(s.t), s.c, p, TxWrap(s.t.dirty + d))
    /\ Fresh(Queue(s.t), s.c, 1) /\ SkbsFrom(s.t, d)
ToChain(s, p, d) ==
    /\ d = 0 /\ Used(s.t) > 0 /\ s.t.dcb[s.t.dirty] = Queue(s.t)[1] /\ SkbsFrom(s.t, 1)
    /\ ComesTo(Queue(s.t), s.c, p, s.t.dirty) /\ Fresh(Queue(s.t), s.c, 1)
ChainMode(s, p, d) ==
    /\ s.t.api_active
    /\ \E m \in 1 .. Len(Queue(s.t)) :
          /\ s.halt = LastDcb(Queue(s.t)[m])
          /\ \/ ToChain(s, p, d)
             \/ SkbsFrom(s.t, d) /\ \E k \in 1 .. m : InChain(Queue(s.t), s.c, p, k)

TxParts == [t : TxType, c : [Chains -> ChainType], halt : Places]
TxOK(s, p, d) ==
    /\ s \in TxParts /\ p \in Places
    /\ TxRingOK(s.t, d) /\ QueueOK(Queue(s.t), s.c, s.t.api_dcb_chain_end)
    /\ RingMode(s, p, d) \/ ChainMode(s, p, d)

CdmaTxIInv ==
    /\ CdmaTxTypeOK
    /\ \E d \in 0 .. MAX_TX_DCBS : TxOK(State, txhw.pos, d)

-----------------------------------------------------------------------------
LEMMA TxWrapMod ==
    ASSUME NEW i \in 0 .. 2 * MAX_TX_DCBS - 1
    PROVE  i % MAX_TX_DCBS = TxWrap(i)
<1>1. CASE i < MAX_TX_DCBS
  BY <1>1, Z3 DEF TxWrap
<1>2. CASE i >= MAX_TX_DCBS
  BY <1>2, Z3 DEF TxWrap
<1> QED
  BY <1>1, <1>2

LEMMA NextIs ==
    ASSUME NEW i \in TxDcbs
    PROVE  TxNext1(i) = TxWrap(i + 1) /\ TxNext1(i) \in TxDcbs
BY DEF TxNext1, TxWrap, TxDcbs

LEMMA QueueIs ==
    ASSUME NEW t \in TxType
    PROVE  /\ ~t.api_active => Queue(t) = t.api_dcb_list
           /\ t.api_active /\ t.api_dcb_chain \in Chains =>
                 /\ Queue(t) \in Seq(Chains) /\ Len(Queue(t)) = Len(t.api_dcb_list) + 1
                 /\ Queue(t)[1] = t.api_dcb_chain
                 /\ \A k \in 1 .. Len(t.api_dcb_list) : Queue(t)[k + 1] = t.api_dcb_list[k]
<1>1. t.api_dcb_list \in Seq(Chains)
  BY DEF TxType
<1>2. ASSUME t.api_active, t.api_dcb_chain \in Chains
      PROVE  /\ Queue(t) \in Seq(Chains) /\ Len(Queue(t)) = Len(t.api_dcb_list) + 1
             /\ Queue(t)[1] = t.api_dcb_chain
             /\ \A k \in 1 .. Len(t.api_dcb_list) : Queue(t)[k + 1] = t.api_dcb_list[k]
  <2> DEFINE l == t.api_dcb_list
             h == <<t.api_dcb_chain>>
  <2>1. h \in Seq(Chains) /\ Len(h) = 1 /\ h[1] = t.api_dcb_chain
    BY <1>2
  <2>2. Queue(t) = h \o l
    BY <1>2 DEF Queue
  <2>3. Len(l) \in Nat
    BY <1>1
  <2> HIDE DEF h, l
  <2>4. /\ h \o l \in Seq(Chains) /\ Len(h \o l) = Len(h) + Len(l)
        /\ \A i \in 1 .. Len(h) + Len(l) : (h \o l)[i] = IF i <= Len(h) THEN h[i] ELSE l[i - Len(h)]
    BY <1>1, <2>1, ConcatProperties DEF l
  <2>5. Len(Queue(t)) = Len(l) + 1 /\ Queue(t)[1] = t.api_dcb_chain
    BY <2>1, <2>2, <2>3, <2>4
  <2>6. ASSUME NEW k \in 1 .. Len(l) PROVE Queue(t)[k + 1] = l[k]
    <3>1. k + 1 \in 1 .. Len(h) + Len(l) /\ ~(k + 1 <= Len(h)) /\ k + 1 - Len(h) = k
      BY <2>1, <2>3
    <3> QED
      BY <2>2, <2>4, <3>1
  <2> QED
    BY <2>2, <2>4, <2>5, <2>6 DEF l
<1> QED
  BY <1>2 DEF Queue

(* The channel that is sent exists: it is the first of a queue of chains.  *)
LEMMA QueueHead ==
    ASSUME NEW t \in TxType, t.api_active, Queue(t) \in Seq(Chains)
    PROVE  t.api_dcb_chain \in Chains
<1>1. t.api_dcb_list \in Seq(Chains) /\ t.api_dcb_chain \in Chains \cup {NoChain}
  BY DEF TxType
<1> DEFINE h == <<t.api_dcb_chain>>
           Names == Chains \cup {NoChain}
           l == t.api_dcb_list
<1>2. h \in Seq(Names) /\ l \in Seq(Names) /\ Len(h) = 1 /\ h[1] = t.api_dcb_chain
  BY <1>1
<1>3. Queue(t) = h \o l
  BY DEF Queue
<1> HIDE DEF h, l, Names
<1>4. /\ h \o l \in Seq(Names) /\ Len(h \o l) = Len(h) + Len(l)
      /\ \A i \in 1 .. Len(h) + Len(l) : (h \o l)[i] = IF i <= Len(h) THEN h[i] ELSE l[i - Len(h)]
  <2>1. ASSUME NEW S, NEW a \in Seq(S), NEW b \in Seq(S)
        PROVE  /\ a \o b \in Seq(S) /\ Len(a \o b) = Len(a) + Len(b)
               /\ \A i \in 1 .. Len(a) + Len(b) : (a \o b)[i] = IF i <= Len(a) THEN a[i] ELSE b[i - Len(a)]
    BY ConcatProperties
  <2>2. h \in Seq(Names) /\ l \in Seq(Names)
    BY <1>2
  <2> QED
    BY <2>1, <2>2, Zenon
<1>5. Len(l) \in Nat
  BY <1>2, LenProperties
<1>6. 1 \in 1 .. Len(Queue(t)) /\ Queue(t)[1] = t.api_dcb_chain
  BY <1>2, <1>3, <1>4, <1>5
<1> QED
  BY <1>6

-----------------------------------------------------------------------------
(* What matters of the Tx part of sinfo. *)
SameTx(t, u) ==
    /\ u.dcb = t.dcb /\ u.done = t.done /\ u.free = t.free /\ u.cur = t.cur /\ u.dirty = t.dirty
    /\ u.api_active = t.api_active /\ u.api_dcb_list = t.api_dcb_list
    /\ u.api_dcb_chain = t.api_dcb_chain /\ u.api_dcb_chain_end = t.api_dcb_chain_end

LEMMA SameOK ==
    ASSUME NEW s, NEW p, NEW d, TxOK(s, p, d),
           NEW u \in TxParts, SameTx(s.t, u.t), u.c = s.c, u.halt = s.halt
    PROVE  TxOK(u, p, d)
<1>1. \A i : TxAhead(u.t, i) = TxAhead(s.t, i)
  BY DEF TxAhead, SameTx
<1>2. Queue(u.t) = Queue(s.t) /\ Used(u.t) = Used(s.t)
  BY DEF Queue, Used, SameTx
<1>3. TxRingOK(u.t, d)
  BY <1>1, <1>2 DEF TxOK, TxRingOK, SameTx
<1>4. \A n : SkbsFrom(s.t, n) => SkbsFrom(u.t, n)
  BY <1>1, <1>2 DEF SkbsFrom, SameTx
<1>5. RingMode(s, p, d) => RingMode(u, p, d)
  BY <1>2, <1>4 DEF RingMode, SameTx
<1>6. ChainMode(s, p, d) => ChainMode(u, p, d)
  <2>1. ToChain(s, p, d) => ToChain(u, p, d)
    BY <1>2, <1>4 DEF ToChain, SameTx
  <2> QED
    BY <1>2, <1>4, <2>1 DEF ChainMode, SameTx
<1> QED
  BY <1>2, <1>3, <1>5, <1>6 DEF TxOK, SameTx

(* The type with its sets left open, for the prover. *)
TxFields(A, B, C, D, E, F, G) ==
    [dcb : A, done : B, free : C, cur : D, dirty : D,
     api_active : E, api_dcb_list : F, api_dcb_chain : G, api_dcb_chain_end : G,
     stopped : E, yield : E, irq : E]

LEMMA TxTypeIs ==
    TxType = TxFields([TxDcbs -> {"free", "skb"} \cup Chains], [TxDcbs -> BOOLEAN], 0 .. MAX_TX_DCBS,
                      TxDcbs, BOOLEAN, Seq(Chains), Chains \cup {NoChain})
BY DEF TxType, TxFields

LEMMA SetRing ==
    ASSUME NEW A, NEW B, NEW C, NEW D, NEW E, NEW F, NEW G,
           NEW t \in TxFields(A, B, C, D, E, F, G),
           NEW f \in A, NEW g \in B, NEW n \in C, NEW cur \in D, NEW dirty \in D
    PROVE  /\ [t EXCEPT !.dcb = f, !.done = g, !.cur = cur, !.free = n] \in TxFields(A, B, C, D, E, F, G)
           /\ [t EXCEPT !.dcb = f, !.done = g, !.dirty = dirty, !.free = n] \in TxFields(A, B, C, D, E, F, G)
BY DEF TxFields

LEMMA RingFacts ==
    ASSUME NEW t \in TxType, NEW d, TxRingOK(t, d)
    PROVE  /\ t.dirty \in TxDcbs /\ t.cur \in TxDcbs /\ t.free \in 1 .. MAX_TX_DCBS
           /\ Used(t) = MAX_TX_DCBS - t.free /\ Used(t) \in 0 .. MAX_TX_DCBS - 1
           /\ d \in 0 .. Used(t)
           /\ TxAhead(t, t.cur) = Used(t)
           /\ \A i \in TxDcbs : /\ TxAhead(t, i) \in 0 .. MAX_TX_DCBS - 1
                                /\ TxAhead(t, i) = Used(t) <=> i = t.cur
                                /\ TxAhead(t, i) = 0 <=> i = t.dirty
           /\ \A k \in 0 .. MAX_TX_DCBS - 1 :
                 /\ TxWrap(t.dirty + k) \in TxDcbs /\ TxAhead(t, TxWrap(t.dirty + k)) = k
<1>1. t.dirty \in TxDcbs /\ t.cur \in TxDcbs /\ t.free \in 0 .. MAX_TX_DCBS
  BY DEF TxType
<1>2. t.free >= 1 /\ d \in 0 .. Used(t) /\ t.cur = TxWrap(t.dirty + Used(t))
  BY DEF TxRingOK
<1>3. Used(t) = MAX_TX_DCBS - t.free /\ Used(t) \in 0 .. MAX_TX_DCBS - 1
  BY <1>1, <1>2 DEF Used
<1>4. ASSUME NEW i \in TxDcbs
      PROVE  /\ TxAhead(t, i) \in 0 .. MAX_TX_DCBS - 1
             /\ TxAhead(t, i) = Used(t) <=> i = t.cur
             /\ TxAhead(t, i) = 0 <=> i = t.dirty
  BY <1>1, <1>2, <1>3 DEF TxAhead, TxWrap, TxDcbs
<1>5. ASSUME NEW k \in 0 .. MAX_TX_DCBS - 1
      PROVE  TxWrap(t.dirty + k) \in TxDcbs /\ TxAhead(t, TxWrap(t.dirty + k)) = k
  BY <1>1 DEF TxAhead, TxWrap, TxDcbs
<1> QED
  BY <1>1, <1>2, <1>3, <1>4, <1>5

SameApi(t, u) ==
    /\ u.api_active = t.api_active /\ u.api_dcb_list = t.api_dcb_list
    /\ u.api_dcb_chain = t.api_dcb_chain /\ u.api_dcb_chain_end = t.api_dcb_chain_end

(* One more DCB of the ring is used ... *)
LEMMA UseDcbType ==
    ASSUME NEW s \in TxParts, s.t.free >= 1, NEW w \in {"skb"} \cup Chains
    PROVE  LET u == UseDcb(s, w)
           IN  /\ u \in TxParts /\ u.c = s.c /\ u.halt = s.halt /\ SameApi(s.t, u.t)
               /\ u.t.dcb = [s.t.dcb EXCEPT ![s.t.cur] = w]
               /\ u.t.done = [s.t.done EXCEPT ![s.t.cur] = FALSE]
               /\ u.t.cur = TxNext1(s.t.cur) /\ u.t.free = s.t.free - 1
               /\ u.t.dirty = s.t.dirty
<1> DEFINE u == UseDcb(s, w)
           f == [s.t.dcb EXCEPT ![s.t.cur] = w]
           g == [s.t.done EXCEPT ![s.t.cur] = FALSE]
           cur == TxNext1(s.t.cur)
           free == s.t.free - 1
           v == [s.t EXCEPT !.dcb = f, !.done = g, !.cur = cur, !.free = free]
<1>1. s.t \in TxType /\ s.c \in [Chains -> ChainType] /\ s.halt \in Places
  BY DEF TxParts
<1>2. u = [s EXCEPT !.t = v]
  BY <1>1 DEF UseDcb, TxParts, TxType
<1>3. s.t.cur \in TxDcbs
  BY <1>1 DEF TxType
<1>4. f \in [TxDcbs -> {"free", "skb"} \cup Chains]
  BY <1>1, <1>3 DEF TxType
<1>5. g \in [TxDcbs -> BOOLEAN]
  BY <1>1, <1>3 DEF TxType
<1>6. free \in 0 .. MAX_TX_DCBS
  BY <1>1 DEF TxType
<1>7. cur \in TxDcbs
  BY <1>3, NextIs
<1> HIDE DEF f, g, cur, free
<1>8. v \in TxType
  <2> DEFINE A == [TxDcbs -> {"free", "skb"} \cup Chains]
             B == [TxDcbs -> BOOLEAN]
             C == 0 .. MAX_TX_DCBS
             F == Seq(Chains)
             G == Chains \cup {NoChain}
  <2>1. TxType = TxFields(A, B, C, TxDcbs, BOOLEAN, F, G)
    BY TxTypeIs
  <2>2. f \in A /\ g \in B /\ free \in C /\ cur \in TxDcbs
    BY <1>4, <1>5, <1>6, <1>7
  <2> HIDE DEF A, B, C, F, G
  <2> QED
    BY <1>1, <2>1, <2>2, SetRing, Zenon
<1>9. /\ v.dcb = f /\ v.done = g /\ v.cur = cur /\ v.free = free /\ v.dirty = s.t.dirty
      /\ SameApi(s.t, v)
  BY <1>1 DEF TxType, SameApi
<1> HIDE DEF v, u
<1>10. u \in TxParts /\ u.t = v /\ u.c = s.c /\ u.halt = s.halt
  BY <1>2, <1>8 DEF TxParts
<1> QED
  BY <1>9, <1>10 DEF u, f, g, cur, free

(* ... and room for one more is left. *)
LEMMA UseDcbIs ==
    ASSUME NEW s \in TxParts, NEW d, TxRingOK(s.t, d), s.t.free >= 2,
           NEW w \in {"skb"} \cup Chains
    PROVE  LET u == UseDcb(s, w)
           IN  /\ u \in TxParts /\ u.c = s.c /\ u.halt = s.halt /\ SameApi(s.t, u.t)
               /\ TxRingOK(u.t, d)
               /\ u.t.dirty = s.t.dirty /\ u.t.free = s.t.free - 1
               /\ u.t.dcb[s.t.cur] = w
               /\ \A n \in Int : w = "skb" \/ Used(s.t) < n => (SkbsFrom(s.t, n) => SkbsFrom(u.t, n))
<1> DEFINE u == UseDcb(s, w)
           f == [s.t.dcb EXCEPT ![s.t.cur] = w]
           g == [s.t.done EXCEPT ![s.t.cur] = FALSE]
           cur == TxNext1(s.t.cur)
           free == s.t.free - 1
           v == u.t
<1>1. s.t \in TxType /\ s.t.cur \in TxDcbs
  BY DEF TxParts, TxType
<1>2. s.t.free >= 1
  BY <1>1 DEF TxType
<1>3. s.t.cur \in TxDcbs
  BY <1>1
<1>4. \A i \in TxDcbs : f[i] = IF i = s.t.cur THEN w ELSE s.t.dcb[i]
  BY <1>1 DEF TxType
<1>5. \A i \in TxDcbs : g[i] <=> i # s.t.cur /\ s.t.done[i]
  BY <1>1 DEF TxType
<1>6. free \in 1 .. MAX_TX_DCBS /\ free = s.t.free - 1
  BY <1>1 DEF TxType
<1>7. cur \in TxDcbs /\ cur = TxWrap(s.t.cur + 1)
  BY <1>1, NextIs
<1>9. /\ v.dcb = f /\ v.done = g /\ v.cur = cur /\ v.free = free /\ v.dirty = s.t.dirty
      /\ SameApi(s.t, v)
  BY <1>2, UseDcbType
<1>10. u \in TxParts /\ u.c = s.c /\ u.halt = s.halt
  BY <1>2, UseDcbType
<1> HIDE DEF f, g, cur, free, v, u
<1>11. \A i : TxAhead(v, i) = TxAhead(s.t, i)
  BY <1>9 DEF TxAhead
<1>12. /\ s.t.dirty \in TxDcbs /\ s.t.free \in 1 .. MAX_TX_DCBS
       /\ Used(s.t) = MAX_TX_DCBS - s.t.free /\ d \in 0 .. Used(s.t)
       /\ \A i \in TxDcbs : /\ TxAhead(s.t, i) \in 0 .. MAX_TX_DCBS - 1
                            /\ TxAhead(s.t, i) = Used(s.t) <=> i = s.t.cur
  BY <1>1, RingFacts
<1>13. Used(v) = Used(s.t) + 1
  BY <1>6, <1>9, <1>12 DEF Used
<1>14. TxRingOK(v, d)
  <2>1. v.free >= 1 /\ d \in 0 .. Used(v)
    BY <1>6, <1>9, <1>12, <1>13
  <2>2. v.cur = TxWrap(v.dirty + Used(v))
    <3>1. s.t.cur = TxWrap(s.t.dirty + Used(s.t))
      BY DEF TxRingOK
    <3> QED
      BY <1>3, <1>7, <1>9, <1>12, <1>13, <3>1 DEF TxWrap, TxDcbs
  <2>3. ASSUME NEW i \in TxDcbs, TxAhead(v, i) < Used(v)
        PROVE  (v.done[i] <=> TxAhead(v, i) < d) /\ v.dcb[i] # "free"
    <3>1. CASE i = s.t.cur
      <4>1. ~g[i] /\ f[i] = w /\ w # "free"
        BY <1>4, <1>5, <3>1, ChainNamesAssumption
      <4>2. ~(TxAhead(v, i) < d)
        BY <1>11, <1>12, <3>1
      <4> QED
        BY <1>9, <4>1, <4>2
    <3>2. CASE i # s.t.cur
      <4>1. TxAhead(s.t, i) < Used(s.t)
        BY <1>11, <1>12, <1>13, <2>3, <3>2
      <4>2. (s.t.done[i] <=> TxAhead(s.t, i) < d) /\ s.t.dcb[i] # "free"
        BY <4>1 DEF TxRingOK
      <4> QED
        BY <1>4, <1>5, <1>9, <1>11, <3>2, <4>2
    <3> QED
      BY <3>1, <3>2
  <2> QED
    BY <2>1, <2>2, <2>3 DEF TxRingOK
<1>15. ASSUME NEW n \in Int, w = "skb" \/ Used(s.t) < n, SkbsFrom(s.t, n)
       PROVE  SkbsFrom(v, n)
  <2> SUFFICES ASSUME NEW i \in TxDcbs, n <= TxAhead(v, i), TxAhead(v, i) < Used(v)
               PROVE  v.dcb[i] = "skb"
    BY DEF SkbsFrom
  <2>1. CASE i = s.t.cur
    BY <1>4, <1>9, <1>11, <1>12, <1>15, <2>1
  <2>2. CASE i # s.t.cur
    <3>1. n <= TxAhead(s.t, i) /\ TxAhead(s.t, i) < Used(s.t)
      BY <1>11, <1>12, <1>13, <2>2
    <3> QED
      BY <1>4, <1>9, <1>15, <2>2, <3>1 DEF SkbsFrom
  <2> QED
    BY <2>1, <2>2
<1> QED
  BY <1>3, <1>4, <1>6, <1>9, <1>10, <1>14, <1>15 DEF u, v

LEMMA PlacesAre ==
    /\ \A i \in 0 .. MAX_TX_DCBS : /\ At(Ring, i) \in Places
                                   /\ At(Ring, i).at = Ring /\ At(Ring, i).i = i
    /\ \A c \in Chains : \A i \in 1 .. DCB_CNT + 1 :
          At(c, i) \in Places /\ At(c, i).at = c /\ At(c, i).i = i /\ c # Ring
    /\ \A p \in Places : \/ p.at = Ring /\ p.i \in 0 .. MAX_TX_DCBS /\ p = At(Ring, p.i)
                         \/ p.at \in Chains /\ p.i \in 1 .. DCB_CNT + 1 /\ p = At(p.at, p.i)
BY ChainNamesAssumption DEF Places, At

LEMMA Goto ==
    ASSUME NEW s \in TxParts, NEW h \in Places
    PROVE  LET u == bkn_cdma_goto(s, h)
           IN  u \in TxParts /\ u.t = s.t /\ u.c = s.c /\ u.halt = h
BY DEF bkn_cdma_goto, TxParts

(* What suspends, resumes or yields changes a flag that does not matter.   *)
LEMMA SetFlags ==
    ASSUME NEW A, NEW B, NEW C, NEW D, NEW E, NEW F, NEW G,
           NEW t \in TxFields(A, B, C, D, E, F, G), NEW b \in E
    PROVE  /\ [t EXCEPT !.stopped = b] \in TxFields(A, B, C, D, E, F, G)
           /\ [t EXCEPT !.yield = b] \in TxFields(A, B, C, D, E, F, G)
           /\ [t EXCEPT !.irq = b] \in TxFields(A, B, C, D, E, F, G)
           /\ SameTx(t, [t EXCEPT !.stopped = b])
           /\ SameTx(t, [t EXCEPT !.yield = b])
           /\ SameTx(t, [t EXCEPT !.irq = b])
BY DEF TxFields, SameTx

LEMMA SetFlag ==
    ASSUME NEW t \in TxType, NEW b \in BOOLEAN
    PROVE  /\ [t EXCEPT !.stopped = b] \in TxType /\ SameTx(t, [t EXCEPT !.stopped = b])
           /\ [t EXCEPT !.yield = b] \in TxType /\ SameTx(t, [t EXCEPT !.yield = b])
           /\ [t EXCEPT !.irq = b] \in TxType /\ SameTx(t, [t EXCEPT !.irq = b])
<1> DEFINE A == [TxDcbs -> {"free", "skb"} \cup Chains]
           B == [TxDcbs -> BOOLEAN]
           C == 0 .. MAX_TX_DCBS
           F == Seq(Chains)
           G == Chains \cup {NoChain}
<1>1. TxType = TxFields(A, B, C, TxDcbs, BOOLEAN, F, G)
  BY TxTypeIs
<1> HIDE DEF A, B, C, F, G
<1> QED
  BY <1>1, SetFlags, Zenon

LEMMA Stopped ==
    ASSUME NEW s, NEW p, NEW d, TxOK(s, p, d)
    PROVE  TxOK(bkn_suspend_tx(s), p, d) /\ TxOK(bkn_resume_tx(s), p, d)
<1>1. s \in TxParts /\ s.t \in TxType
  BY DEF TxOK, TxParts
<1>2. ASSUME NEW b \in BOOLEAN, NEW u, u = [s EXCEPT !.t = [s.t EXCEPT !.stopped = b]]
      PROVE  TxOK(u, p, d)
  <2> DEFINE v == [s.t EXCEPT !.stopped = b]
  <2>1. v \in TxType /\ SameTx(s.t, v)
    BY <1>1, SetFlag
  <2> HIDE DEF v
  <2>2. u = [s EXCEPT !.t = v]
    BY <1>2 DEF v
  <2>3. u \in TxParts /\ u.t = v /\ u.c = s.c /\ u.halt = s.halt
    BY <1>1, <2>1, <2>2 DEF TxParts
  <2> QED
    BY <2>1, <2>3, SameOK
<1>3. TxOK(bkn_suspend_tx(s), p, d)
  <2>1. bkn_suspend_tx(s) = [s EXCEPT !.t = [s.t EXCEPT !.stopped = TRUE]]
    BY <1>1 DEF bkn_suspend_tx, TxParts
  <2> QED
    BY <1>2, <2>1
<1>4. TxOK(bkn_resume_tx(s), p, d)
  <2> DEFINE b == s.t.stopped /\ s.t.free <= 1
  <2>1. bkn_resume_tx(s) = [s EXCEPT !.t = [s.t EXCEPT !.stopped = b]]
    BY <1>1 DEF bkn_resume_tx, TxParts, TxType
  <2>2. b \in BOOLEAN
    BY <1>1 DEF TxType
  <2> HIDE DEF b
  <2> QED
    BY <1>2, <2>1, <2>2
<1> QED
  BY <1>3, <1>4

(* bkn_tx: a packet is put behind the others. *)
LEMMA SendSkb ==
    ASSUME NEW s, NEW p, NEW d, TxOK(s, p, d), s.t.free >= 2
    PROVE  TxOK(SkbHalt(UseDcb(s, "skb")), p, d)
<1>1. s \in TxParts /\ s.t \in TxType /\ TxRingOK(s.t, d) /\ p \in Places
  BY DEF TxOK, TxParts
<1> DEFINE u == UseDcb(s, "skb")
<1>2. /\ u \in TxParts /\ u.c = s.c /\ u.halt = s.halt /\ SameApi(s.t, u.t)
      /\ TxRingOK(u.t, d) /\ u.t.dirty = s.t.dirty /\ u.t.free = s.t.free - 1
      /\ \A n \in Int : SkbsFrom(s.t, n) => SkbsFrom(u.t, n)
  BY <1>1, UseDcbIs
<1> SUFFICES TxOK(SkbHalt(u), p, d)
  OBVIOUS
<1> HIDE DEF u
<1>3. Queue(u.t) = Queue(s.t)
  BY <1>2 DEF Queue, SameApi
<1>4. d \in Int /\ u.t.cur \in TxDcbs /\ u.t.dirty \in TxDcbs /\ Used(u.t) \in Nat /\ Used(s.t) \in Nat
  BY <1>1, <1>2, RingFacts DEF TxParts
<1>5. QueueOK(Queue(u.t), u.c, u.t.api_dcb_chain_end)
  BY <1>2, <1>3 DEF TxOK, SameApi
<1>6. CASE s.t.api_active
  <2>1. SkbHalt(u) = u
    BY <1>2, <1>6 DEF SkbHalt, SameApi
  <2>2. ChainMode(s, p, d)
    BY <1>6 DEF TxOK, RingMode
  <2>3. ToChain(s, p, d) => ToChain(u, p, d)
    <3> SUFFICES ASSUME ToChain(s, p, d) PROVE ToChain(u, p, d)
      OBVIOUS
    <3>1. Used(s.t) > 0 /\ Used(u.t) > 0
      BY <1>1, <1>2 DEF ToChain, Used, TxType
    <3>2. u.t.dcb[s.t.dirty] = s.t.dcb[s.t.dirty]
      <4>1. s.t.dirty # s.t.cur /\ s.t.dirty \in TxDcbs
        BY <1>1, <3>1, RingFacts
      <4>2. u.t.dcb = [s.t.dcb EXCEPT ![s.t.cur] = "skb"]
        BY <1>1 DEF u, UseDcb, TxParts, TxType
      <4> QED
        BY <1>1, <4>1, <4>2 DEF TxType
    <3> QED
      BY <1>2, <1>3, <3>1, <3>2 DEF ToChain
  <2>4. ChainMode(u, p, d)
    BY <1>2, <1>3, <1>4, <2>2, <2>3 DEF ChainMode, SameApi
  <2> QED
    BY <1>1, <1>2, <1>5, <2>1, <2>4 DEF TxOK
<1>7. CASE ~s.t.api_active
  <2>1. SkbHalt(u) = bkn_cdma_goto(u, At(Ring, u.t.cur))
    BY <1>2, <1>7 DEF SkbHalt, SameApi
  <2> DEFINE w == bkn_cdma_goto(u, At(Ring, u.t.cur))
  <2>2. At(Ring, u.t.cur) \in Places
    BY <1>4, PlacesAre DEF TxDcbs
  <2>3. w \in TxParts /\ w.t = u.t /\ w.c = u.c /\ w.halt = At(Ring, u.t.cur)
    BY <1>2, <2>2, Goto
  <2> SUFFICES TxOK(w, p, d)
    BY <2>1
  <2> HIDE DEF w
  <2>4. RingMode(s, p, d)
    BY <1>7 DEF TxOK, ChainMode
  <2>5. RingMode(w, p, d)
    BY <1>2, <1>3, <1>4, <2>3, <2>4 DEF RingMode, SameApi
  <2> QED
    BY <1>1, <1>2, <1>5, <2>3, <2>5 DEF TxOK
<1> QED
  BY <1>6, <1>7

(* What changes the API's part of t only. *)
SameRing(t, u) ==
    u.dcb = t.dcb /\ u.done = t.done /\ u.free = t.free /\ u.cur = t.cur /\ u.dirty = t.dirty
ApiIs(u, active, list, chain_, end) ==
    /\ u.api_active = active /\ u.api_dcb_list = list
    /\ u.api_dcb_chain = chain_ /\ u.api_dcb_chain_end = end

LEMMA SetApiFields ==
    ASSUME NEW A, NEW B, NEW C, NEW D, NEW E, NEW F, NEW G,
           NEW t \in TxFields(A, B, C, D, E, F, G), NEW e \in E, NEW f \in F, NEW g \in G
    PROVE  /\ [t EXCEPT !.api_active = e] \in TxFields(A, B, C, D, E, F, G)
           /\ [t EXCEPT !.api_dcb_chain = g] \in TxFields(A, B, C, D, E, F, G)
           /\ [t EXCEPT !.api_dcb_chain_end = g] \in TxFields(A, B, C, D, E, F, G)
           /\ [t EXCEPT !.api_dcb_list = f] \in TxFields(A, B, C, D, E, F, G)
           /\ [t EXCEPT !.api_dcb_chain = g, !.api_dcb_list = f] \in TxFields(A, B, C, D, E, F, G)
BY DEF TxFields

LEMMA SetActiveValues ==
    ASSUME NEW A, NEW B, NEW C, NEW D, NEW E, NEW F, NEW G,
           NEW t \in TxFields(A, B, C, D, E, F, G), NEW e \in E
    PROVE  /\ SameRing(t, [t EXCEPT !.api_active = e])
           /\ ApiIs([t EXCEPT !.api_active = e], e, t.api_dcb_list, t.api_dcb_chain, t.api_dcb_chain_end)
BY DEF TxFields, SameRing, ApiIs

LEMMA SetChainValues ==
    ASSUME NEW A, NEW B, NEW C, NEW D, NEW E, NEW F, NEW G,
           NEW t \in TxFields(A, B, C, D, E, F, G), NEW g \in G
    PROVE  /\ SameRing(t, [t EXCEPT !.api_dcb_chain = g])
           /\ ApiIs([t EXCEPT !.api_dcb_chain = g], t.api_active, t.api_dcb_list, g, t.api_dcb_chain_end)
BY DEF TxFields, SameRing, ApiIs

LEMMA SetEndValues ==
    ASSUME NEW A, NEW B, NEW C, NEW D, NEW E, NEW F, NEW G,
           NEW t \in TxFields(A, B, C, D, E, F, G), NEW g \in G
    PROVE  /\ SameRing(t, [t EXCEPT !.api_dcb_chain_end = g])
           /\ ApiIs([t EXCEPT !.api_dcb_chain_end = g], t.api_active, t.api_dcb_list, t.api_dcb_chain, g)
BY DEF TxFields, SameRing, ApiIs

LEMMA SetListValues ==
    ASSUME NEW A, NEW B, NEW C, NEW D, NEW E, NEW F, NEW G,
           NEW t \in TxFields(A, B, C, D, E, F, G), NEW f \in F, NEW g \in G
    PROVE  /\ SameRing(t, [t EXCEPT !.api_dcb_list = f])
           /\ ApiIs([t EXCEPT !.api_dcb_list = f], t.api_active, f, t.api_dcb_chain, t.api_dcb_chain_end)
           /\ SameRing(t, [t EXCEPT !.api_dcb_chain = g, !.api_dcb_list = f])
           /\ ApiIs([t EXCEPT !.api_dcb_chain = g, !.api_dcb_list = f], t.api_active, f, g, t.api_dcb_chain_end)
BY DEF TxFields, SameRing, ApiIs

LEMMA SetApi ==
    ASSUME NEW t \in TxType, NEW e \in BOOLEAN, NEW f \in Seq(Chains), NEW g \in Chains \cup {NoChain}
    PROVE  /\ LET u == [t EXCEPT !.api_active = e]
              IN  u \in TxType /\ SameRing(t, u)
                  /\ ApiIs(u, e, t.api_dcb_list, t.api_dcb_chain, t.api_dcb_chain_end)
           /\ LET u == [t EXCEPT !.api_dcb_chain = g]
              IN  u \in TxType /\ SameRing(t, u)
                  /\ ApiIs(u, t.api_active, t.api_dcb_list, g, t.api_dcb_chain_end)
           /\ LET u == [t EXCEPT !.api_dcb_chain_end = g]
              IN  u \in TxType /\ SameRing(t, u)
                  /\ ApiIs(u, t.api_active, t.api_dcb_list, t.api_dcb_chain, g)
           /\ LET u == [t EXCEPT !.api_dcb_list = f]
              IN  u \in TxType /\ SameRing(t, u)
                  /\ ApiIs(u, t.api_active, f, t.api_dcb_chain, t.api_dcb_chain_end)
           /\ LET u == [t EXCEPT !.api_dcb_chain = g, !.api_dcb_list = f]
              IN  u \in TxType /\ SameRing(t, u)
                  /\ ApiIs(u, t.api_active, f, g, t.api_dcb_chain_end)
<1> DEFINE A == [TxDcbs -> {"free", "skb"} \cup Chains]
           B == [TxDcbs -> BOOLEAN]
           C == 0 .. MAX_TX_DCBS
           E == BOOLEAN
           F == Seq(Chains)
           G == Chains \cup {NoChain}
<1>1. TxType = TxFields(A, B, C, TxDcbs, E, F, G)
  BY TxTypeIs
<1>2. e \in E /\ f \in F /\ g \in G
  OBVIOUS
<1> HIDE DEF A, B, C, E, F, G
<1>3. t \in TxFields(A, B, C, TxDcbs, E, F, G)
  BY <1>1
<1>4. /\ [t EXCEPT !.api_active = e] \in TxType
      /\ [t EXCEPT !.api_dcb_chain = g] \in TxType
      /\ [t EXCEPT !.api_dcb_chain_end = g] \in TxType
      /\ [t EXCEPT !.api_dcb_list = f] \in TxType
      /\ [t EXCEPT !.api_dcb_chain = g, !.api_dcb_list = f] \in TxType
  BY <1>1, <1>2, <1>3, SetApiFields, Zenon
<1>5. /\ SameRing(t, [t EXCEPT !.api_active = e])
      /\ ApiIs([t EXCEPT !.api_active = e], e, t.api_dcb_list, t.api_dcb_chain, t.api_dcb_chain_end)
  BY <1>2, <1>3, SetActiveValues, Zenon
<1>6. /\ SameRing(t, [t EXCEPT !.api_dcb_chain = g])
      /\ ApiIs([t EXCEPT !.api_dcb_chain = g], t.api_active, t.api_dcb_list, g, t.api_dcb_chain_end)
  BY <1>2, <1>3, SetChainValues, Zenon
<1>7. /\ SameRing(t, [t EXCEPT !.api_dcb_chain_end = g])
      /\ ApiIs([t EXCEPT !.api_dcb_chain_end = g], t.api_active, t.api_dcb_list, t.api_dcb_chain, g)
  BY <1>2, <1>3, SetEndValues, Zenon
<1>8. /\ SameRing(t, [t EXCEPT !.api_dcb_list = f])
      /\ ApiIs([t EXCEPT !.api_dcb_list = f], t.api_active, f, t.api_dcb_chain, t.api_dcb_chain_end)
  BY <1>2, <1>3, SetListValues, Zenon
<1>9. /\ SameRing(t, [t EXCEPT !.api_dcb_chain = g, !.api_dcb_list = f])
      /\ ApiIs([t EXCEPT !.api_dcb_chain = g, !.api_dcb_list = f], t.api_active, f, g, t.api_dcb_chain_end)
  BY <1>2, <1>3, SetListValues, Zenon
<1> QED
  BY <1>4, <1>5, <1>6, <1>7, <1>8, <1>9, Zenon

LEMMA SameRingOK ==
    ASSUME NEW t, NEW u, SameRing(t, u)
    PROVE  /\ \A d : TxRingOK(t, d) => TxRingOK(u, d)
           /\ \A n : SkbsFrom(t, n) => SkbsFrom(u, n)
           /\ Used(u) = Used(t)
<1>1. \A i : TxAhead(u, i) = TxAhead(t, i)
  BY DEF TxAhead, SameRing
<1> QED
  BY <1>1 DEF TxRingOK, SkbsFrom, Used, SameRing

(* The first chain of the list is sent ... *)
LEMMA StartIs ==
    ASSUME NEW s \in TxParts, ~s.t.api_active, s.t.api_dcb_list # <<>>
    PROVE  LET q == s.t.api_dcb_list
           IN  /\ q \in Seq(Chains) /\ Len(q) \in Nat \ {0} /\ q[1] \in Chains
               /\ Tail(q) \in Seq(Chains) /\ Len(Tail(q)) = Len(q) - 1
               /\ \A i \in 1 .. Len(q) - 1 : Tail(q)[i] = q[i + 1]
               /\ \E v \in TxParts :
                     /\ SameRing(s.t, v.t) /\ v.c = s.c
                     /\ ApiIs(v.t, TRUE, Tail(q), q[1], s.t.api_dcb_chain_end)
                     /\ bkn_api_tx(s) = bkn_cdma_goto(UseDcb(v, q[1]), LastDcb(q[1]))
<1> DEFINE q == s.t.api_dcb_list
           c == Head(q)
           a == [s.t EXCEPT !.api_dcb_chain = c, !.api_dcb_list = Tail(q)]
           b == [a EXCEPT !.api_active = TRUE]
           v == [s EXCEPT !.t = b]
<1>1. s.t \in TxType /\ q \in Seq(Chains) /\ s.t.api_active = FALSE
  BY DEF TxParts, TxType
<1>2. /\ c \in Chains /\ Tail(q) \in Seq(Chains) /\ Len(Tail(q)) = Len(q) - 1
      /\ \A i \in 1 .. Len(q) - 1 : Tail(q)[i] = q[i + 1]
      /\ c = q[1] /\ Len(q) \in Nat \ {0}
  BY <1>1, HeadTailProperties, EmptySeq
<1>3. bkn_api_tx(s) = bkn_cdma_goto(UseDcb(v, c), LastDcb(c))
  <2>1. bkn_api_tx(s) = bkn_tx_cdma_chain_switch([s EXCEPT !.t.api_dcb_chain = c, !.t.api_dcb_list = Tail(q)])
    BY <1>1 DEF bkn_api_tx
  <2>2. [s EXCEPT !.t.api_dcb_chain = c, !.t.api_dcb_list = Tail(q)] = [s EXCEPT !.t = a]
    BY DEF TxParts
  <2> DEFINE x == [s EXCEPT !.t = a]
  <2>3. x.t = a /\ a.api_active = FALSE /\ a.api_dcb_chain = c
    BY <1>1 DEF TxParts, TxType
  <2>4. [x EXCEPT !.t.api_active = ~@] = v
    BY <2>3 DEF TxParts
  <2> QED
    BY <2>1, <2>2, <2>3, <2>4 DEF bkn_tx_cdma_chain_switch
<1> HIDE DEF c
<1>4. a \in TxType /\ SameRing(s.t, a) /\ ApiIs(a, s.t.api_active, Tail(q), c, s.t.api_dcb_chain_end)
  BY <1>1, <1>2, SetApi
<1> HIDE DEF a
<1>5. b \in TxType /\ SameRing(a, b) /\ ApiIs(b, TRUE, a.api_dcb_list, a.api_dcb_chain, a.api_dcb_chain_end)
  <2>1. a \in TxType /\ TRUE \in BOOLEAN /\ <<>> \in Seq(Chains) /\ NoChain \in Chains \cup {NoChain}
    BY <1>4
  <2> QED
    BY <2>1, SetApi, Zenon
<1> HIDE DEF b
<1>6. SameRing(s.t, b) /\ ApiIs(b, TRUE, Tail(q), c, s.t.api_dcb_chain_end)
  BY <1>4, <1>5 DEF SameRing, ApiIs
<1>7. v \in TxParts /\ v.t = b /\ v.c = s.c
  BY <1>5 DEF TxParts
<1> HIDE DEF v, q
<1>8. /\ SameRing(s.t, v.t) /\ v.c = s.c /\ ApiIs(v.t, TRUE, Tail(q), q[1], s.t.api_dcb_chain_end)
      /\ bkn_api_tx(s) = bkn_cdma_goto(UseDcb(v, q[1]), LastDcb(q[1]))
  BY <1>2, <1>3, <1>6, <1>7
<1> QED
  BY <1>1, <1>2, <1>7, <1>8 DEF q

(* ... when the ring is empty. *)
LEMMA StartApi ==
    ASSUME NEW s, NEW p, NEW d, TxOK(s, p, d), ~s.t.api_active, s.t.free = MAX_TX_DCBS
    PROVE  TxOK(bkn_api_tx(s), p, d)
<1>1. /\ s \in TxParts /\ s.t \in TxType /\ TxRingOK(s.t, d) /\ p \in Places
      /\ RingMode(s, p, d)
  BY DEF TxOK, TxParts, ChainMode
<1>2. d = 0 /\ Used(s.t) = 0 /\ s.t.cur = s.t.dirty /\ s.t.dirty \in TxDcbs /\ TxWrap(s.t.dirty + d) = s.t.dirty
  BY <1>1, RingFacts DEF TxWrap, TxDcbs
<1> DEFINE q == s.t.api_dcb_list
<1>3. Queue(s.t) = q /\ q \in Seq(Chains) /\ s.t.api_active = FALSE
  BY <1>1 DEF Queue, TxType
<1>4. CASE q = <<>>
  <2>1. [s.t EXCEPT !.api_active = FALSE] = s.t
    BY <1>1, <1>3 DEF TxType
  <2>2. bkn_api_tx(s) = s
    BY <1>1, <1>4, <2>1 DEF bkn_api_tx, TxParts
  <2> QED
    BY <2>2
<1>5. CASE q # <<>>
  <2> DEFINE c == q[1]
  <2>1. /\ c \in Chains /\ Tail(q) \in Seq(Chains) /\ Len(Tail(q)) = Len(q) - 1
        /\ \A i \in 1 .. Len(q) - 1 : Tail(q)[i] = q[i + 1]
        /\ c = q[1] /\ Len(q) \in Nat \ {0}
    BY <1>1, <1>5, StartIs
  <2>2. PICK v \in TxParts :
           /\ SameRing(s.t, v.t) /\ v.c = s.c
           /\ ApiIs(v.t, TRUE, Tail(q), c, s.t.api_dcb_chain_end)
           /\ bkn_api_tx(s) = bkn_cdma_goto(UseDcb(v, c), LastDcb(c))
    BY <1>1, <1>5, StartIs
  <2> DEFINE b == v.t
             u == UseDcb(v, c)
             w == bkn_cdma_goto(u, LastDcb(c))
  <2> SUFFICES TxOK(w, p, d)
    BY <2>2
  <2> HIDE DEF c
  <2>5. b \in TxType /\ SameRing(s.t, b) /\ ApiIs(b, TRUE, Tail(q), c, s.t.api_dcb_chain_end)
    BY <2>2 DEF TxParts
  <2>6. v \in TxParts /\ v.t = b /\ v.c = s.c
    BY <2>2
  <2> HIDE DEF b
  <2>7. TxRingOK(b, d) /\ SkbsFrom(b, 1) /\ Used(b) = 0
    <3>1. SkbsFrom(s.t, 1)
      BY <1>1, <1>2, RingFacts DEF SkbsFrom
    <3> QED
      BY <1>1, <1>2, <2>5, <3>1, SameRingOK
  <2>8. /\ u \in TxParts /\ u.c = s.c /\ SameApi(b, u.t) /\ TxRingOK(u.t, d)
        /\ u.t.dirty = s.t.dirty /\ u.t.dcb[s.t.dirty] = c /\ Used(u.t) = 1 /\ SkbsFrom(u.t, 1)
    <3>1. b.free = MAX_TX_DCBS /\ b.cur = s.t.dirty /\ b.dirty = s.t.dirty
      BY <1>2, <2>5 DEF SameRing
    <3>2. /\ u \in TxParts /\ u.c = v.c /\ SameApi(b, u.t) /\ TxRingOK(u.t, d)
          /\ u.t.dirty = b.dirty /\ u.t.free = b.free - 1 /\ u.t.dcb[b.cur] = c
          /\ \A n \in Int : c = "skb" \/ Used(b) < n => (SkbsFrom(b, n) => SkbsFrom(u.t, n))
      <4>1. v.t.free >= 2 /\ c \in {"skb"} \cup Chains /\ TxRingOK(v.t, d)
        BY <2>1, <2>6, <2>7, <3>1
      <4> QED
        BY <2>6, <4>1, UseDcbIs
    <3>3. Used(u.t) = 1
      BY <3>1, <3>2 DEF Used
    <3> QED
      BY <2>6, <2>7, <3>1, <3>2, <3>3
  <2> HIDE DEF u
  <2>9. LastDcb(c) \in Places
    BY <2>1, PlacesAre DEF LastDcb
  <2>10. w \in TxParts /\ w.t = u.t /\ w.c = s.c /\ w.halt = LastDcb(c)
    BY <2>8, <2>9, Goto
  <2> HIDE DEF w
  <2>11. ApiIs(w.t, TRUE, Tail(q), c, s.t.api_dcb_chain_end) /\ w.t \in TxType
    BY <2>5, <2>8, <2>10 DEF ApiIs, SameApi, TxParts
  <2>12. Queue(w.t) = q
    <3>1. /\ Queue(w.t) \in Seq(Chains) /\ Len(Queue(w.t)) = Len(Tail(q)) + 1 /\ Queue(w.t)[1] = c
          /\ \A k \in 1 .. Len(Tail(q)) : Queue(w.t)[k + 1] = Tail(q)[k]
      <4>1. w.t.api_active /\ w.t.api_dcb_chain = c /\ w.t.api_dcb_list = Tail(q)
        BY <2>11 DEF ApiIs
      <4> HIDE DEF q
      <4>2. w.t.api_dcb_chain \in Chains
        BY <2>1, <4>1
      <4>3. /\ Queue(w.t) \in Seq(Chains) /\ Len(Queue(w.t)) = Len(w.t.api_dcb_list) + 1
            /\ Queue(w.t)[1] = w.t.api_dcb_chain
            /\ \A k \in 1 .. Len(w.t.api_dcb_list) : Queue(w.t)[k + 1] = w.t.api_dcb_list[k]
        <5>1. w.t \in TxType
          BY <2>11
        <5> QED
          BY <5>1, <4>1, <4>2, QueueIs, Zenon
      <4> QED
        BY <4>1, <4>3
    <3>2. Len(Queue(w.t)) = Len(q)
      BY <2>1, <3>1
    <3>3. ASSUME NEW i \in 1 .. Len(q) PROVE Queue(w.t)[i] = q[i]
      <4>1. CASE i = 1
        BY <2>1, <3>1, <4>1
      <4>2. CASE i # 1
        <5>1. i - 1 \in 1 .. Len(q) - 1 /\ (i - 1) + 1 = i
          BY <2>1, <4>2
        <5> QED
          BY <2>1, <3>1, <5>1
      <4> QED
        BY <4>1, <4>2
    <3> HIDE DEF q
    <3> QED
      BY <1>3, <3>1, <3>2, <3>3, SeqEqual
  <2>13. QueueOK(q, s.c, s.t.api_dcb_chain_end)
    BY <1>3 DEF TxOK
  <2>14. ToChain(w, p, d)
    BY <1>1, <1>2, <1>3, <2>1, <2>8, <2>10, <2>12 DEF ToChain, RingMode
  <2>15. ChainMode(w, p, d)
    <3>1. 1 \in 1 .. Len(q) /\ w.halt = LastDcb(q[1])
      BY <2>1, <2>10
    <3> QED
      BY <2>11, <2>12, <2>14, <3>1 DEF ChainMode, ApiIs
  <2> QED
    BY <1>1, <2>8, <2>10, <2>11, <2>12, <2>13, <2>15 DEF TxOK, ApiIs
<1> QED
  BY <1>4, <1>5

(* A chain comes to the end of the queue. *)
QueueAdds(q, r, c) ==
    /\ r \in Seq(Chains) /\ Len(r) = Len(q) + 1 /\ r[Len(q) + 1] = c
    /\ \A k \in 1 .. Len(q) : r[k] = q[k]

LEMMA QueueGrows ==
    ASSUME NEW t \in TxType, NEW u \in TxType, NEW c \in Chains, Queue(t) \in Seq(Chains),
           ApiIs(u, t.api_active, Append(t.api_dcb_list, c), t.api_dcb_chain, c)
    PROVE  QueueAdds(Queue(t), Queue(u), c)
<1> DEFINE l == t.api_dcb_list
           r == u.api_dcb_list
<1>1. l \in Seq(Chains) /\ r = Append(l, c)
  BY DEF ApiIs, TxType
<1>2. QueueAdds(l, r, c)
  BY <1>1, AppendProperties DEF QueueAdds
<1>3. CASE ~t.api_active
  <2>1. ~u.api_active
    BY <1>3 DEF ApiIs
  <2> QED
    BY <1>2, <1>3, <2>1 DEF Queue
<1>4. CASE t.api_active
  <2>1. u.api_active /\ t.api_dcb_chain \in Chains /\ u.api_dcb_chain = t.api_dcb_chain
    BY <1>4, QueueHead DEF ApiIs
  <2>2. /\ Len(Queue(t)) = Len(l) + 1 /\ Queue(t)[1] = t.api_dcb_chain
        /\ \A k \in 1 .. Len(l) : Queue(t)[k + 1] = l[k]
    BY <1>4, <2>1, QueueIs, Zenon
  <2>3. /\ Queue(u) \in Seq(Chains) /\ Len(Queue(u)) = Len(r) + 1 /\ Queue(u)[1] = u.api_dcb_chain
        /\ \A k \in 1 .. Len(r) : Queue(u)[k + 1] = r[k]
    BY <2>1, QueueIs, Zenon
  <2>4. Len(l) \in Nat /\ Len(r) = Len(l) + 1 /\ r[Len(l) + 1] = c /\ \A k \in 1 .. Len(l) : r[k] = l[k]
    BY <1>1, <1>2 DEF QueueAdds
  <2> HIDE DEF l, r
  <2>5. Len(Queue(u)) = Len(Queue(t)) + 1 /\ Queue(u)[Len(Queue(t)) + 1] = c
    <3>1. Len(l) + 1 \in 1 .. Len(r)
      BY <2>4
    <3> QED
      BY <2>2, <2>3, <2>4, <3>1
  <2>6. ASSUME NEW k \in 1 .. Len(Queue(t)) PROVE Queue(u)[k] = Queue(t)[k]
    <3>1. CASE k = 1
      BY <2>1, <2>2, <2>3, <3>1
    <3>2. CASE k # 1
      <4>1. k - 1 \in 1 .. Len(l) /\ k - 1 \in 1 .. Len(r) /\ (k - 1) + 1 = k
        BY <2>2, <2>4, <3>2
      <4> QED
        BY <2>2, <2>3, <2>4, <4>1
    <3> QED
      BY <3>1, <3>2
  <2> QED
    BY <2>3, <2>5, <2>6 DEF QueueAdds
<1> QED
  BY <1>3, <1>4

(* The records of the chains. *)
ChainFields(E, N, L) == [api : E, done : N, link : L]

LEMMA ChainLink ==
    ASSUME NEW E, NEW N, NEW L, NEW r \in ChainFields(E, N, L), NEW l \in L
    PROVE  /\ [r EXCEPT !.link = l] \in ChainFields(E, N, L)
           /\ [r EXCEPT !.link = l].api = r.api /\ [r EXCEPT !.link = l].done = r.done
           /\ [r EXCEPT !.link = l].link = l
BY DEF ChainFields

LEMMA ChainDone ==
    ASSUME NEW E, NEW N, NEW L, NEW r \in ChainFields(E, N, L), NEW n \in N
    PROVE  /\ [r EXCEPT !.done = n] \in ChainFields(E, N, L)
           /\ [r EXCEPT !.done = n].api = r.api /\ [r EXCEPT !.done = n].done = n
           /\ [r EXCEPT !.done = n].link = r.link
BY DEF ChainFields

LEMMA ChainApi ==
    ASSUME NEW E, NEW N, NEW L, NEW r \in ChainFields(E, N, L), NEW e \in E
    PROVE  /\ [r EXCEPT !.api = e] \in ChainFields(E, N, L)
           /\ [r EXCEPT !.api = e].api = e /\ [r EXCEPT !.api = e].done = r.done
           /\ [r EXCEPT !.api = e].link = r.link
BY DEF ChainFields

LEMMA SetLink ==
    ASSUME NEW r \in ChainType, NEW l \in Places, NEW u, u = [r EXCEPT !.link = l]
    PROVE  u \in ChainType /\ u.api = r.api /\ u.done = r.done /\ u.link = l
<1> DEFINE E == BOOLEAN
           N == 0 .. DCB_CNT + 1
<1>1. ChainType = ChainFields(E, N, Places)
  BY DEF ChainType, ChainFields
<1> HIDE DEF E, N
<1> QED
  BY <1>1, ChainLink

LEMMA SetDone ==
    ASSUME NEW r \in ChainType, NEW n \in 0 .. DCB_CNT + 1, NEW u, u = [r EXCEPT !.done = n]
    PROVE  u \in ChainType /\ u.api = r.api /\ u.done = n /\ u.link = r.link
<1> DEFINE E == BOOLEAN
           N == 0 .. DCB_CNT + 1
<1>1. ChainType = ChainFields(E, N, Places)
  BY DEF ChainType, ChainFields
<1>2. n \in N
  OBVIOUS
<1> HIDE DEF E, N
<1> QED
  BY <1>1, <1>2, ChainDone

LEMMA SetGiven ==
    ASSUME NEW r \in ChainType, NEW e \in BOOLEAN, NEW u, u = [r EXCEPT !.api = e]
    PROVE  u \in ChainType /\ u.api = e /\ u.done = r.done /\ u.link = r.link
<1> DEFINE E == BOOLEAN
           N == 0 .. DCB_CNT + 1
<1>1. ChainType = ChainFields(E, N, Places)
  BY DEF ChainType, ChainFields
<1>2. e \in E
  OBVIOUS
<1> HIDE DEF E, N
<1> QED
  BY <1>1, <1>2, ChainApi

(* The chain after the last one is known: its address goes into the reload *)
(* DCB of the last one.                                                    *)
ChainGiven(C, D, c, e) ==
    /\ D \in [Chains -> ChainType] /\ D[c].api /\ D[c].done = 0
    /\ \A x \in Chains \ {c} : /\ D[x].api <=> C[x].api
                               /\ D[x].done = C[x].done
                               /\ D[x].link = IF x = e THEN At(c, 1) ELSE C[x].link

LEMMA GiveQueue ==
    ASSUME NEW q, NEW r, NEW C \in [Chains -> ChainType], NEW D, NEW e, NEW c \in Chains,
           QueueOK(q, C, e), QueueAdds(q, r, c), ~C[c].api, ChainGiven(C, D, c, e)
    PROVE  QueueOK(r, D, c)
<1>1. q \in Seq(Chains) /\ Len(q) \in Nat /\ r \in Seq(Chains) /\ Len(r) = Len(q) + 1
  BY DEF QueueOK, QueueAdds
<1>2. \A k \in 1 .. Len(q) : r[k] = q[k] /\ q[k] \in Chains /\ q[k] # c
  BY <1>1 DEF QueueOK, QueueAdds
<1>3. r[Len(q) + 1] = c
  BY DEF QueueAdds
<1>4. ASSUME NEW j \in 1 .. Len(r), NEW k \in 1 .. Len(r), r[j] = r[k] PROVE j = k
  <2>1. \A i \in 1 .. Len(r) : i \in 1 .. Len(q) \/ i = Len(q) + 1
    BY <1>1
  <2>2. \A i, m \in 1 .. Len(q) : q[i] = q[m] => i = m
    BY DEF QueueOK
  <2> QED
    BY <1>2, <1>3, <1>4, <2>1, <2>2
<1>5. ASSUME NEW k \in 1 .. Len(r) PROVE D[r[k]].api
  <2>1. k \in 1 .. Len(q) \/ k = Len(q) + 1
    BY <1>1
  <2> QED
    BY <1>2, <1>3, <2>1 DEF QueueOK, ChainGiven
<1>6. ASSUME NEW k \in 1 .. Len(r) - 1 PROVE D[r[k]].link = At(r[k + 1], 1)
  <2>1. k \in 1 .. Len(q) /\ r[k] = q[k] /\ q[k] \in Chains \ {c}
    BY <1>1, <1>2
  <2>2. CASE k = Len(q)
    <3>1. e = q[k]
      BY <2>1, <2>2 DEF QueueOK
    <3> QED
      BY <1>3, <2>1, <2>2, <3>1 DEF ChainGiven
  <2>3. CASE k # Len(q)
    <3>1. k \in 1 .. Len(q) - 1 /\ k + 1 \in 1 .. Len(q) /\ Len(q) \in 1 .. Len(q)
      BY <1>1, <2>1, <2>3
    <3>2. e = q[Len(q)] /\ q[k] # e /\ C[q[k]].link = At(q[k + 1], 1)
      BY <1>1, <2>3, <3>1 DEF QueueOK
    <3> QED
      BY <1>2, <2>1, <3>1, <3>2 DEF ChainGiven
  <2> QED
    BY <2>2, <2>3
<1> QED
  BY <1>1, <1>3, <1>4, <1>5, <1>6 DEF QueueOK

LEMMA GiveOK ==
    ASSUME NEW s, NEW p, NEW d, TxOK(s, p, d), NEW c \in Chains, ~s.c[c].api, p.at # c,
           NEW u \in TxParts, SameRing(s.t, u.t),
           ApiIs(u.t, s.t.api_active, Append(s.t.api_dcb_list, c), s.t.api_dcb_chain, c),
           ChainGiven(s.c, u.c, c, s.t.api_dcb_chain_end),
           u.halt = s.halt \/ (s.t.api_active /\ u.halt = LastDcb(c))
    PROVE  TxOK(u, p, d)
<1> DEFINE q == Queue(s.t)
           r == Queue(u.t)
           C == s.c
           D == u.c
           e == s.t.api_dcb_chain_end
<1>1. /\ s \in TxParts /\ s.t \in TxType /\ C \in [Chains -> ChainType] /\ p \in Places
      /\ TxRingOK(s.t, d) /\ QueueOK(q, C, e) /\ u.t \in TxType
  BY DEF TxOK, TxParts
<1>2. QueueAdds(q, r, c)
  BY <1>1, QueueGrows DEF QueueOK
<1>3. QueueOK(r, D, c)
  BY <1>1, <1>2, GiveQueue
<1>4. /\ q \in Seq(Chains) /\ Len(q) \in Nat /\ Len(r) = Len(q) + 1 /\ r[Len(q) + 1] = c
      /\ \A k \in 1 .. Len(q) : r[k] = q[k] /\ q[k] \in Chains /\ q[k] # c
  BY <1>1, <1>2 DEF QueueOK, QueueAdds
<1>5. /\ D[c].done = 0
      /\ \A x \in Chains \ {c} : /\ D[x].done = C[x].done
                                 /\ x # e => D[x].link = C[x].link
  BY DEF ChainGiven
<1>6. e = NoChain \/ \E k \in 1 .. Len(q) : e = q[k]
  <2>1. CASE Len(q) = 0
    BY <1>1, <2>1 DEF QueueOK
  <2>2. CASE Len(q) # 0
    <3>1. Len(q) \in 1 .. Len(q)
      BY <1>4, <2>2
    <3> QED
      BY <1>1, <2>2, <3>1 DEF QueueOK
  <2> QED
    BY <2>1, <2>2
<1>7. NoChain \notin Chains
  BY ChainNamesAssumption
<1>8. \A k \in 1 .. Len(r) : k \in 1 .. Len(q) \/ k = Len(q) + 1
  BY <1>4
<1>9. \A i : ComesTo(q, C, p, i) => ComesTo(r, D, p, i)
  <2> SUFFICES ASSUME NEW i, ComesTo(q, C, p, i) PROVE ComesTo(r, D, p, i)
    OBVIOUS
  <2>1. CASE p.at = Ring /\ TxWrap(p.i) = i
    BY <2>1 DEF ComesTo
  <2>2. CASE /\ p.at \in Chains /\ p.i = DCB_CNT + 1
             /\ C[p.at].done = DCB_CNT /\ C[p.at].link = At(Ring, i)
             /\ \A k \in 1 .. Len(q) : q[k] # p.at
    <3>1. p.at \in Chains \ {c} /\ p.at # e
      BY <1>6, <1>7, <2>2
    <3>2. D[p.at].done = DCB_CNT /\ D[p.at].link = At(Ring, i)
      BY <1>5, <2>2, <3>1
    <3>3. \A k \in 1 .. Len(r) : r[k] # p.at
      BY <1>4, <1>8, <2>2
    <3> QED
      BY <2>2, <3>2, <3>3 DEF ComesTo
  <2> QED
    BY <2>1, <2>2 DEF ComesTo
<1> HIDE DEF q, r, C, D, e
<1>10. \A k \in Nat \ {0} : Fresh(q, C, k) => Fresh(r, D, k)
  <2> SUFFICES ASSUME NEW k \in Nat \ {0}, Fresh(q, C, k), NEW j \in k .. Len(r) PROVE D[r[j]].done = 0
    BY DEF Fresh
  <2>1. CASE j = Len(q) + 1
    BY <1>4, <1>5, <2>1
  <2>2. CASE j # Len(q) + 1
    <3>1. j \in 1 .. Len(q) /\ j \in k .. Len(q)
      BY <1>4, <2>2
    <3> QED
      BY <1>4, <1>5, <3>1 DEF Fresh
  <2> QED
    BY <2>1, <2>2
<1>11. ASSUME NEW k \in 1 .. Len(q), InChain(q, C, p, k) PROVE InChain(r, D, p, k)
  <2>1. p.at = r[k] /\ D[r[k]].done = p.i - 1
    BY <1>4, <1>5, <1>11 DEF InChain
  <2>2. Sent(r, D, k)
    BY <1>4, <1>5, <1>11 DEF InChain, Sent
  <2>3. Fresh(r, D, k + 1)
    BY <1>10, <1>11 DEF InChain
  <2> QED
    BY <2>1, <2>2, <2>3 DEF InChain
<1>12. TxRingOK(u.t, d) /\ (\A n : SkbsFrom(s.t, n) => SkbsFrom(u.t, n)) /\ Used(u.t) = Used(s.t)
  BY <1>1, SameRingOK, Zenon
<1>13. u.t.dirty = s.t.dirty /\ u.t.cur = s.t.cur /\ u.t.dcb = s.t.dcb
  BY DEF SameRing
<1>14. (u.t.api_active <=> s.t.api_active) /\ u.t.api_dcb_chain_end = c
  BY DEF ApiIs
<1>15. CASE ~s.t.api_active
  <2>1. RingMode(s, p, d)
    BY <1>15 DEF TxOK, ChainMode
  <2>2. RingMode(u, p, d)
    BY <1>9, <1>10, <1>12, <1>13, <1>14, <1>15, <2>1 DEF RingMode, q, r, C, D
  <2> QED
    BY <1>1, <1>3, <1>12, <1>14, <2>2 DEF TxOK, r, D
<1>16. CASE s.t.api_active
  <2>1. ChainMode(s, p, d)
    BY <1>16 DEF TxOK, RingMode
  <2>2. PICK m \in 1 .. Len(q) :
           /\ s.halt = LastDcb(q[m])
           /\ \/ ToChain(s, p, d)
              \/ SkbsFrom(s.t, d) /\ \E k \in 1 .. m : InChain(q, C, p, k)
    BY <2>1 DEF ChainMode, q, C
  <2>3. PICK n \in m .. Len(r) : u.halt = LastDcb(r[n])
    <3>1. m \in m .. Len(r) /\ Len(q) + 1 \in m .. Len(r) /\ LastDcb(r[m]) = LastDcb(q[m])
      BY <1>4
    <3> QED
      BY <1>4, <2>2, <3>1
  <2>4. ToChain(s, p, d) => ToChain(u, p, d)
    <3>1. r[1] = q[1]
      BY <1>4
    <3> QED
      BY <1>9, <1>10, <1>12, <1>13, <3>1 DEF ToChain, q, r, C, D
  <2>5. ASSUME NEW k \in 1 .. m, InChain(q, C, p, k) PROVE k \in 1 .. n /\ InChain(r, D, p, k)
    <3>1. k \in 1 .. Len(q) /\ k \in 1 .. n
      OBVIOUS
    <3> QED
      BY <1>11, <2>5, <3>1
  <2>6. n \in 1 .. Len(r)
    BY <1>4
  <2>7. ChainMode(u, p, d)
    BY <1>12, <1>14, <1>16, <2>2, <2>3, <2>4, <2>5, <2>6 DEF ChainMode, r, D
  <2> QED
    BY <1>1, <1>3, <1>12, <1>14, <2>7 DEF TxOK, r, D
<1> QED
  BY <1>15, <1>16

WithChain(s, c) ==
    [s EXCEPT !.c[c] = [api |-> TRUE, done |-> 0, link |-> NoLink],
              !.t.api_dcb_list = Append(@, c)]
WithLast(s, c) == [Stitch(WithChain(s, c), c) EXCEPT !.t.api_dcb_chain_end = c]

LEMMA GiveIs ==
    ASSUME NEW s \in TxParts, NEW c \in Chains, NEW s2, s2 = WithLast(s, c)
    PROVE  /\ s2 \in TxParts /\ SameRing(s.t, s2.t) /\ s2.halt = s.halt
           /\ ApiIs(s2.t, s.t.api_active, Append(s.t.api_dcb_list, c), s.t.api_dcb_chain, c)
           /\ ChainGiven(s.c, s2.c, c, s.t.api_dcb_chain_end)
<1> DEFINE s1 == WithChain(s, c)
           R == [api |-> TRUE, done |-> 0, link |-> NoLink]
           l == Append(s.t.api_dcb_list, c)
           t1 == [s.t EXCEPT !.api_dcb_list = l]
           C1 == [s.c EXCEPT ![c] = R]
           e == s.t.api_dcb_chain_end
           L == [C1[e] EXCEPT !.link = At(c, 1)]
           D == IF e = NoChain THEN C1 ELSE [C1 EXCEPT ![e] = L]
           t2 == [t1 EXCEPT !.api_dcb_chain_end = c]
<1>1. /\ s \in TxParts /\ s.t \in TxType /\ s.c \in [Chains -> ChainType] /\ s.halt \in Places
      /\ e \in Chains \cup {NoChain}
  BY DEF TxParts, TxType
<1>2. l \in Seq(Chains)
  BY <1>1 DEF TxType
<1>3. At(c, 1) \in Places /\ NoLink \in Places /\ LastDcb(c) \in Places
  BY CdmaTxAssumption, PlacesAre DEF NoLink, LastDcb
<1>4. R \in ChainType /\ R.api /\ R.done = 0
  BY <1>3, CdmaTxAssumption DEF ChainType
<1>5. /\ C1 \in [Chains -> ChainType]
      /\ \A x \in Chains : C1[x] = IF x = c THEN R ELSE s.c[x]
  BY <1>1, <1>4
<1>6. s1.t = t1 /\ s1.c = C1 /\ s1.halt = s.halt /\ s1 = [s EXCEPT !.t = t1, !.c = C1]
  BY <1>1 DEF TxParts, WithChain
<1> HIDE DEF R, l, s1
<1>7. t1 \in TxType /\ SameRing(s.t, t1) /\ ApiIs(t1, s.t.api_active, l, s.t.api_dcb_chain, e)
  <2>1. TRUE \in BOOLEAN /\ NoChain \in Chains \cup {NoChain}
    OBVIOUS
  <2> QED
    BY <1>1, <1>2, <2>1, SetApi, Zenon
<1> HIDE DEF t1, C1
<1>8. t2 \in TxType /\ SameRing(t1, t2) /\ ApiIs(t2, t1.api_active, t1.api_dcb_list, t1.api_dcb_chain, c)
  <2>1. TRUE \in BOOLEAN /\ <<>> \in Seq(Chains) /\ c \in Chains \cup {NoChain}
    OBVIOUS
  <2> QED
    BY <1>7, <2>1, SetApi, Zenon
<1> HIDE DEF t2
<1>9. SameRing(s.t, t2) /\ ApiIs(t2, s.t.api_active, l, s.t.api_dcb_chain, c)
  BY <1>7, <1>8 DEF SameRing, ApiIs
<1>10. ChainGiven(s.c, D, c, e)
  <2>1. CASE e = NoChain
    BY <1>4, <1>5, <2>1, ChainNamesAssumption DEF ChainGiven
  <2>2. CASE e # NoChain
    <3>1. e \in Chains
      BY <1>1, <2>2
    <3> HIDE DEF e
    <3>2. C1[e] \in ChainType
      BY <1>5, <3>1
    <3>3. L \in ChainType /\ L.api = C1[e].api /\ L.done = C1[e].done /\ L.link = At(c, 1)
      <4>1. \A r \in ChainType : r = C1[e] => L = [r EXCEPT !.link = At(c, 1)]
        OBVIOUS
      <4> HIDE DEF L
      <4> QED
        BY <1>3, <3>2, <4>1, SetLink
    <3> HIDE DEF L
    <3>4. /\ D \in [Chains -> ChainType]
          /\ \A x \in Chains : D[x] = IF x = e THEN L ELSE C1[x]
      BY <1>5, <2>2, <3>1, <3>3
    <3> HIDE DEF D
    <3> QED
      BY <1>4, <1>5, <3>1, <3>3, <3>4 DEF ChainGiven
  <2> QED
    BY <2>1, <2>2
<1>11. s2 = [s1 EXCEPT !.c = D, !.t = t2]
  <2>1. s1.t.api_dcb_chain_end = e
    BY <1>6, <1>7 DEF ApiIs
  <2>2. CASE e = NoChain
    <3>1. s2 = [s1 EXCEPT !.t.api_dcb_chain_end = c]
      BY <2>1, <2>2 DEF Stitch, WithLast, s1
    <3> QED
      BY <1>1, <1>6, <2>2, <3>1 DEF t2, TxParts
  <2>3. CASE e # NoChain
    <3>1. Stitch(s1, c) = [s1 EXCEPT !.c[e].link = At(c, 1)]
      BY <2>1, <2>3 DEF Stitch
    <3>2. [s1 EXCEPT !.c[e].link = At(c, 1)] = [s1 EXCEPT !.c = [C1 EXCEPT ![e] = L]]
      BY <1>6
    <3>3. Stitch(s1, c) = [s1 EXCEPT !.c = D]
      BY <2>3, <3>1, <3>2
    <3>4. s2 = [s1 EXCEPT !.c = D, !.t.api_dcb_chain_end = c]
      BY <3>3 DEF WithLast, s1
    <3> HIDE DEF D
    <3> QED
      BY <1>1, <1>6, <3>4 DEF t2, TxParts
  <2> QED
    BY <2>2, <2>3
<1>12. D \in [Chains -> ChainType]
  BY <1>10 DEF ChainGiven
<1> HIDE DEF D, e
<1>13. s2 \in TxParts /\ s2.t = t2 /\ s2.c = D /\ s2.halt = s.halt
  BY <1>1, <1>6, <1>8, <1>11, <1>12 DEF TxParts
<1> QED
  BY <1>9, <1>10, <1>13 DEF e, l

LEMMA Give ==
    ASSUME NEW s, NEW p, NEW d, TxOK(s, p, d), NEW c \in Chains, ~s.c[c].api, p.at # c,
           NEW s2, s2 = WithLast(s, c)
    PROVE  TxOK(IF s.t.api_active THEN bkn_cdma_goto(s2, LastDcb(c))
                ELSE IF s.t.free = MAX_TX_DCBS THEN bkn_api_tx(s2) ELSE s2, p, d)
<1>1. s \in TxParts
  BY DEF TxOK
<1>2. /\ s2 \in TxParts /\ SameRing(s.t, s2.t) /\ s2.halt = s.halt
      /\ ApiIs(s2.t, s.t.api_active, Append(s.t.api_dcb_list, c), s.t.api_dcb_chain, c)
      /\ ChainGiven(s.c, s2.c, c, s.t.api_dcb_chain_end)
  BY <1>1, GiveIs
<1>3. LastDcb(c) \in Places
  BY PlacesAre DEF LastDcb
<1>4. TxOK(s2, p, d)
  BY <1>2, GiveOK
<1>5. s.t.api_active => TxOK(bkn_cdma_goto(s2, LastDcb(c)), p, d)
  <2> DEFINE u == bkn_cdma_goto(s2, LastDcb(c))
  <2>1. u \in TxParts /\ u.t = s2.t /\ u.c = s2.c /\ u.halt = LastDcb(c)
    BY <1>2, <1>3, Goto
  <2> HIDE DEF u
  <2>2. s.t.api_active => TxOK(u, p, d)
    BY <1>2, <2>1, GiveOK
  <2> QED
    BY <2>2 DEF u
<1>6. ~s.t.api_active /\ s.t.free = MAX_TX_DCBS => TxOK(bkn_api_tx(s2), p, d)
  <2>1. (s2.t.api_active <=> s.t.api_active) /\ s2.t.free = s.t.free
    BY <1>2 DEF ApiIs, SameRing
  <2> QED
    BY <1>4, <2>1, StartApi
<1> QED
  BY <1>4, <1>5, <1>6

-----------------------------------------------------------------------------
(* What a function of the driver gives is the next state. *)
LEMMA AppliedIs ==
    ASSUME CdmaTxTypeOK, NEW s \in TxParts, Apply(s)
    PROVE  /\ State' = s /\ tx' = s.t /\ tx' \in TxType /\ chain' \in [Chains -> ChainType]
           /\ txhw' \in [pos : Places, halt : Places] /\ txhw'.pos = txhw.pos
<1>1. tx' = s.t /\ chain' = s.c /\ txhw' = [txhw EXCEPT !.halt = s.halt]
  BY DEF Apply
<1>2. s.t \in TxType /\ s.c \in [Chains -> ChainType] /\ s.halt \in Places
  BY DEF TxParts
<1>3. txhw \in [pos : Places, halt : Places]
  BY DEF CdmaTxTypeOK
<1>4. txhw' \in [pos : Places, halt : Places] /\ txhw'.pos = txhw.pos /\ txhw'.halt = s.halt
  BY <1>1, <1>2, <1>3
<1>5. State' = [t |-> s.t, c |-> s.c, halt |-> s.halt]
  BY <1>1, <1>4 DEF State
<1>6. State' = s
  BY <1>5 DEF TxParts
<1> QED
  BY <1>1, <1>2, <1>4, <1>6

LEMMA TxApplied ==
    ASSUME CdmaTxTypeOK, NEW s \in TxParts, NEW d, TxOK(s, txhw.pos, d), Apply(s)
    PROVE  /\ TxOK(State, txhw.pos, d)' /\ tx' \in TxType /\ chain' \in [Chains -> ChainType]
           /\ txhw' \in [pos : Places, halt : Places]
BY AppliedIs

(* The invariant with its d. *)
TxInv(d) == CdmaTxTypeOK /\ TxOK(State, txhw.pos, d)

LEMMA TxInvIs == CdmaTxIInv <=> \E d \in 0 .. MAX_TX_DCBS : TxInv(d)
BY DEF CdmaTxIInv, TxInv

LEMMA TxStateIs ==
    ASSUME CdmaTxTypeOK
    PROVE  State \in TxParts /\ State.t = tx /\ State.c = chain /\ State.halt = txhw.halt
<1>1. tx \in TxType /\ chain \in [Chains -> ChainType] /\ txhw.halt \in Places
  BY DEF CdmaTxTypeOK
<1> QED
  BY <1>1 DEF State, TxParts

LEMMA StackXmitStep ==
    ASSUME NEW d \in 0 .. MAX_TX_DCBS, TxInv(d), StackXmit
    PROVE  TxInv(d)'
<1>1. CdmaTxTypeOK'
  BY DEF TxInv, StackXmit, CdmaTxTypeOK
<1>2. TxOK(State, txhw.pos, d)'
  <2>1. State' = State /\ txhw' = txhw
    BY DEF StackXmit, State
  <2> QED
    BY <2>1 DEF TxInv
<1> QED
  BY <1>1, <1>2 DEF TxInv, StackXmit

LEMMA TxStep ==
    ASSUME NEW d \in 0 .. MAX_TX_DCBS, TxInv(d), bkn_tx
    PROVE  TxInv(d)'
<1> DEFINE u == UseDcb(State, "skb")
           s == SkbHalt(u)
<1>1. CdmaTxTypeOK /\ TxOK(State, txhw.pos, d) /\ State.t = tx /\ txh.pc # "done"
  BY TxStateIs DEF TxInv, bkn_tx, TxLockFree
<1>2. PICK v : TxOK(v, txhw.pos, d) /\ Apply(v)
  <2>1. CASE tx.free > 1 /\ Apply(IF s.t.free <= 1 THEN bkn_suspend_tx(s) ELSE s)
    <3>1. TxOK(s, txhw.pos, d)
      <4>1. State.t.free >= 2
        BY <1>1, <2>1 DEF CdmaTxTypeOK, TxType
      <4> QED
        BY <1>1, <4>1, SendSkb
    <3> HIDE DEF s
    <3>2. TxOK(bkn_suspend_tx(s), txhw.pos, d)
      BY <3>1, Stopped
    <3> QED
      BY <2>1, <3>1, <3>2
  <2>2. CASE tx.free <= 1 /\ Apply(bkn_suspend_tx(State))
    BY <1>1, <2>2, Stopped
  <2> QED
    BY <2>1, <2>2 DEF bkn_tx
<1>3. v \in TxParts
  BY <1>2 DEF TxOK
<1>4. /\ TxOK(State, txhw.pos, d)' /\ tx' \in TxType /\ chain' \in [Chains -> ChainType]
      /\ txhw' \in [pos : Places, halt : Places]
  BY <1>1, <1>2, <1>3, TxApplied
<1>5. CdmaTxTypeOK'
  BY <1>1, <1>4 DEF bkn_tx, CdmaTxTypeOK
<1> QED
  BY <1>1, <1>4, <1>5 DEF TxInv, bkn_tx

LEMMA DmaInfoStep ==
    ASSUME NEW d \in 0 .. MAX_TX_DCBS, TxInv(d), NEW c \in Chains, bkn_knet_dma_info_tx(c)
    PROVE  TxInv(d)'
<1> DEFINE s == bkn_suspend_tx(State)
           s2 == WithLast(s, c)
           v == IF s.t.api_active THEN bkn_cdma_goto(s2, LastDcb(c))
                ELSE IF s.t.free = MAX_TX_DCBS THEN bkn_api_tx(s2) ELSE s2
<1>1. /\ CdmaTxTypeOK /\ TxOK(State, txhw.pos, d) /\ State \in TxParts
      /\ State.t = tx /\ State.c = chain /\ tx \in TxType /\ txh.pc # "done"
  BY TxStateIs DEF TxInv, bkn_knet_dma_info_tx, TxLockFree, CdmaTxTypeOK
<1>2. TxOK(s, txhw.pos, d)
  BY <1>1, Stopped
<1>3. s.c = chain /\ s.t.api_active = tx.api_active /\ s.t.free = tx.free
  <2>1. State = [t |-> tx, c |-> chain, halt |-> txhw.halt]
    BY DEF State
  <2> QED
    BY <1>1, <2>1 DEF bkn_suspend_tx, TxType
<1>4. ~chain[c].api /\ txhw.pos.at # c
  BY DEF bkn_knet_dma_info_tx
<1>5. Apply(v) \/ Apply(s)
  BY <1>3 DEF bkn_knet_dma_info_tx, WithChain, WithLast
<1> HIDE DEF s
<1>6. TxOK(v, txhw.pos, d)
  BY <1>2, <1>3, <1>4, Give
<1> HIDE DEF v
<1>7. v \in TxParts /\ s \in TxParts
  BY <1>2, <1>6 DEF TxOK
<1>8. /\ TxOK(State, txhw.pos, d)' /\ tx' \in TxType /\ chain' \in [Chains -> ChainType]
      /\ txhw' \in [pos : Places, halt : Places]
  BY <1>1, <1>2, <1>5, <1>6, <1>7, TxApplied
<1>9. CdmaTxTypeOK'
  BY <1>1, <1>8 DEF bkn_knet_dma_info_tx, CdmaTxTypeOK
<1> QED
  BY <1>1, <1>8, <1>9 DEF TxInv, bkn_knet_dma_info_tx

LEMMA TxLatchStep ==
    ASSUME NEW d \in 0 .. MAX_TX_DCBS, TxInv(d), DmaTxLatch
    PROVE  TxInv(d)'
<1>1. CdmaTxTypeOK /\ TxOK(State, txhw.pos, d)
  BY DEF TxInv
<1>2. State' = State /\ txhw' = txhw
  BY DEF DmaTxLatch, State
<1>3. CdmaTxTypeOK'
  BY <1>1 DEF DmaTxLatch, CdmaTxTypeOK
<1> QED
  BY <1>1, <1>2, <1>3 DEF TxInv

(* bkn_do_tx frees what is done, neither more nor less. *)
LEMMA DoneIs ==
    ASSUME tx \in TxType, NEW d, TxRingOK(tx, d), NEW n \in 0 .. MAX_TX_DCBS, DonePrefix(n)
    PROVE  n = d
<1>1. /\ tx.dirty \in TxDcbs /\ d \in 0 .. Used(tx) /\ Used(tx) = MAX_TX_DCBS - tx.free
      /\ Used(tx) \in 0 .. MAX_TX_DCBS - 1
      /\ \A k \in 0 .. MAX_TX_DCBS - 1 :
            TxWrap(tx.dirty + k) \in TxDcbs /\ TxAhead(tx, TxWrap(tx.dirty + k)) = k
  BY RingFacts
<1>2. \A k \in 0 .. MAX_TX_DCBS - 1 : (tx.dirty + k) % MAX_TX_DCBS = TxWrap(tx.dirty + k)
  BY <1>1, TxWrapMod DEF TxDcbs
<1>3. ASSUME NEW k \in 0 .. Used(tx) - 1 PROVE tx.done[(tx.dirty + k) % MAX_TX_DCBS] <=> k < d
  BY <1>1, <1>2 DEF TxRingOK
<1>4. n <= Used(tx)
  BY <1>1 DEF DonePrefix
<1>5. ~(n > d)
  <2> SUFFICES ASSUME n > d PROVE FALSE
    BY <1>1
  <2>1. d \in 0 .. n - 1 /\ d \in 0 .. Used(tx) - 1
    BY <1>1, <1>4
  <2>2. tx.done[(tx.dirty + d) % MAX_TX_DCBS]
    BY <2>1 DEF DonePrefix
  <2> QED
    BY <1>1, <1>3, <2>1, <2>2
<1>6. ~(n < d)
  <2> SUFFICES ASSUME n < d PROVE FALSE
    BY <1>1
  <2>1. n \in 0 .. Used(tx) - 1
    BY <1>1
  <2>2. ~tx.done[(tx.dirty + n) % MAX_TX_DCBS]
    BY <1>1, <2>1 DEF DonePrefix
  <2> QED
    BY <1>3, <2>1, <2>2
<1> QED
  BY <1>1, <1>5, <1>6

Freed(t, v, f, g, n, dirty) ==
    /\ SameApi(t, v) /\ v.cur = t.cur
    /\ v.free = n /\ v.dirty = dirty /\ v.dcb = f /\ v.done = g

LEMMA FreeFields ==
    ASSUME NEW A, NEW B, NEW C, NEW D, NEW E, NEW F, NEW G,
           NEW t \in TxFields(A, B, C, D, E, F, G),
           NEW f \in A, NEW g \in B, NEW n \in C, NEW dirty \in D, NEW irq \in E,
           NEW v, v = [t EXCEPT !.irq = irq, !.free = n, !.dirty = dirty, !.dcb = f, !.done = g]
    PROVE  v \in TxFields(A, B, C, D, E, F, G) /\ Freed(t, v, f, g, n, dirty)
BY DEF TxFields, SameApi, Freed

(* The ring after that: nothing is left that is done. *)
FreedDcbs(t, n) == {(t.dirty + k) % MAX_TX_DCBS : k \in 0 .. n - 1}
FreeDcbs(t, n) ==
    [t EXCEPT !.irq = FALSE, !.free = @ + n, !.dirty = (@ + n) % MAX_TX_DCBS,
              !.dcb = [i \in TxDcbs |-> IF i \in FreedDcbs(t, n) THEN "free" ELSE @[i]],
              !.done = [i \in TxDcbs |-> @[i] /\ i \notin FreedDcbs(t, n)]]

LEMMA FreeType ==
    ASSUME NEW t \in TxType, NEW n \in 0 .. MAX_TX_DCBS - t.free, NEW v, v = FreeDcbs(t, n)
    PROVE  /\ v \in TxType
           /\ Freed(t, v, [i \in TxDcbs |-> IF i \in FreedDcbs(t, n) THEN "free" ELSE t.dcb[i]],
                    [i \in TxDcbs |-> t.done[i] /\ i \notin FreedDcbs(t, n)],
                    t.free + n, (t.dirty + n) % MAX_TX_DCBS)
<1> DEFINE f == [i \in TxDcbs |-> IF i \in FreedDcbs(t, n) THEN "free" ELSE t.dcb[i]]
           g == [i \in TxDcbs |-> t.done[i] /\ i \notin FreedDcbs(t, n)]
           free == t.free + n
           dirty == (t.dirty + n) % MAX_TX_DCBS
           irq == FALSE
<1>1. v = [t EXCEPT !.irq = irq, !.free = free, !.dirty = dirty, !.dcb = f, !.done = g]
  BY DEF FreeDcbs
<1> DEFINE A == [TxDcbs -> {"free", "skb"} \cup Chains]
           B == [TxDcbs -> BOOLEAN]
           C == 0 .. MAX_TX_DCBS
           E == BOOLEAN
           F == Seq(Chains)
           G == Chains \cup {NoChain}
<1>2. TxType = TxFields(A, B, C, TxDcbs, E, F, G)
  BY TxTypeIs
<1>3. f \in A
  BY DEF TxType
<1>4. g \in B /\ irq \in E
  OBVIOUS
<1>5. free \in C
  BY DEF TxType
<1>6. dirty \in TxDcbs
  <2>1. t.dirty \in 0 .. MAX_TX_DCBS - 1 /\ t.free \in 0 .. MAX_TX_DCBS
    BY DEF TxType, TxDcbs
  <2>2. t.dirty + n \in 0 .. 2 * MAX_TX_DCBS - 1
    BY <2>1
  <2>3. dirty = TxWrap(t.dirty + n)
    BY <2>2, TxWrapMod
  <2> HIDE DEF dirty
  <2> QED
    BY <2>2, <2>3 DEF TxWrap, TxDcbs
<1> HIDE DEF A, B, C, E, F, G, f, g, free, dirty, irq
<1>7. t \in TxFields(A, B, C, TxDcbs, E, F, G)
  BY <1>2
<1>8. v \in TxType /\ Freed(t, v, f, g, free, dirty)
  BY <1>1, <1>2, <1>3, <1>4, <1>5, <1>6, <1>7, FreeFields, Zenon
<1> QED
  BY <1>8 DEF f, g, free, dirty

LEMMA FreeDone ==
    ASSUME NEW t \in TxType, NEW d, TxRingOK(t, d), NEW v, v = FreeDcbs(t, d)
    PROVE  /\ v \in TxType /\ SameApi(t, v) /\ TxRingOK(v, 0)
           /\ v.cur = t.cur /\ v.dirty = TxWrap(t.dirty + d)
           /\ SkbsFrom(t, d) => SkbsFrom(v, 0)
           /\ d = 0 => /\ SkbsFrom(t, 1) => SkbsFrom(v, 1)
                       /\ v.dirty = t.dirty /\ v.dcb = t.dcb /\ Used(v) = Used(t)
<1> DEFINE f == [i \in TxDcbs |-> IF i \in FreedDcbs(t, d) THEN "free" ELSE t.dcb[i]]
           g == [i \in TxDcbs |-> t.done[i] /\ i \notin FreedDcbs(t, d)]
           n == t.free + d
           dirty == (t.dirty + d) % MAX_TX_DCBS
<1>1. /\ t.dirty \in TxDcbs /\ t.cur \in TxDcbs /\ t.free \in 1 .. MAX_TX_DCBS
      /\ Used(t) = MAX_TX_DCBS - t.free /\ Used(t) \in 0 .. MAX_TX_DCBS - 1
      /\ d \in 0 .. Used(t)
      /\ \A i \in TxDcbs : TxAhead(t, i) \in 0 .. MAX_TX_DCBS - 1
      /\ \A k \in 0 .. MAX_TX_DCBS - 1 :
            TxWrap(t.dirty + k) \in TxDcbs /\ TxAhead(t, TxWrap(t.dirty + k)) = k
  BY RingFacts
<1>2. \A k \in 0 .. MAX_TX_DCBS - 1 : (t.dirty + k) % MAX_TX_DCBS = TxWrap(t.dirty + k)
  BY <1>1, TxWrapMod DEF TxDcbs
<1>3. \A i \in TxDcbs : i \in FreedDcbs(t, d) <=> TxAhead(t, i) < d
  <2> TAKE i \in TxDcbs
  <2>1. ASSUME i \in FreedDcbs(t, d) PROVE TxAhead(t, i) < d
    <3>1. PICK k \in 0 .. d - 1 : i = (t.dirty + k) % MAX_TX_DCBS
      BY <2>1 DEF FreedDcbs
    <3> QED
      BY <1>1, <1>2, <3>1
  <2>2. ASSUME TxAhead(t, i) < d PROVE i \in FreedDcbs(t, d)
    <3>1. TxAhead(t, i) \in 0 .. d - 1 /\ TxAhead(t, i) \in 0 .. MAX_TX_DCBS - 1
      BY <1>1, <2>2
    <3>2. i = TxWrap(t.dirty + TxAhead(t, i))
      BY <1>1 DEF TxAhead, TxWrap, TxDcbs
    <3> QED
      BY <1>2, <3>1, <3>2 DEF FreedDcbs
  <2> QED
    BY <2>1, <2>2
<1>4. dirty = TxWrap(t.dirty + d) /\ dirty \in TxDcbs /\ n \in 1 .. MAX_TX_DCBS
  <2>1. d \in 0 .. MAX_TX_DCBS - 1
    BY <1>1
  <2> QED
    BY <1>1, <1>2, <2>1
<1>5. /\ f \in [TxDcbs -> {"free", "skb"} \cup Chains]
      /\ \A i \in TxDcbs : f[i] = IF TxAhead(t, i) < d THEN "free" ELSE t.dcb[i]
  BY <1>3 DEF TxType
<1>6. /\ g \in [TxDcbs -> BOOLEAN]
      /\ \A i \in TxDcbs : g[i] <=> t.done[i] /\ ~(TxAhead(t, i) < d)
  BY <1>3
<1>7. d = 0 => f = t.dcb
  <2> SUFFICES ASSUME d = 0 PROVE f = t.dcb
    OBVIOUS
  <2>1. \A i \in TxDcbs : f[i] = t.dcb[i]
    BY <1>1, <1>5
  <2> QED
    BY <1>5, <2>1 DEF TxType
<1>8. d \in 0 .. MAX_TX_DCBS - t.free
  BY <1>1
<1>9. /\ v \in TxType /\ SameApi(t, v)
      /\ v.free = n /\ v.dirty = dirty /\ v.dcb = f /\ v.done = g /\ v.cur = t.cur
  <2>1. v \in TxType /\ Freed(t, v, f, g, n, dirty)
    BY <1>8, FreeType
  <2> QED
    BY <2>1 DEF Freed
<1> HIDE DEF f, g, n, dirty
<1>10. Used(v) = Used(t) - d
  BY <1>1, <1>9 DEF Used, n
<1>11. \A i \in TxDcbs : TxAhead(v, i) = IF TxAhead(t, i) >= d THEN TxAhead(t, i) - d
                                         ELSE TxAhead(t, i) - d + MAX_TX_DCBS
  <2>1. /\ MAX_TX_DCBS \in Nat /\ d \in 0 .. MAX_TX_DCBS - 1 /\ t.dirty \in 0 .. MAX_TX_DCBS - 1
        /\ v.dirty = IF t.dirty + d >= MAX_TX_DCBS THEN t.dirty + d - MAX_TX_DCBS ELSE t.dirty + d
    BY <1>1, <1>4, <1>9 DEF TxWrap, TxDcbs
  <2> QED
    BY ONLY <2>1 DEF TxAhead, TxDcbs
<1>12. \A i \in TxDcbs : TxAhead(v, i) < Used(v) => d <= TxAhead(t, i) /\ TxAhead(t, i) < Used(t)
  <2> TAKE i \in TxDcbs
  <2>1. TxAhead(t, i) \in 0 .. MAX_TX_DCBS - 1 /\ Used(t) \in 0 .. MAX_TX_DCBS - 1 /\ d \in 0 .. Used(t)
    BY <1>1
  <2> QED
    BY <1>10, <1>11, <2>1
<1>13. TxRingOK(v, 0)
  <2>1. v.free >= 1 /\ 0 \in 0 .. Used(v)
    BY <1>1, <1>4, <1>9, <1>10
  <2>2. v.cur = TxWrap(v.dirty + Used(v))
    <3>1. t.cur = TxWrap(t.dirty + Used(t))
      BY DEF TxRingOK
    <3>2. /\ MAX_TX_DCBS \in Nat /\ d \in 0 .. Used(t) /\ t.dirty \in 0 .. MAX_TX_DCBS - 1
          /\ Used(t) \in 0 .. MAX_TX_DCBS - 1 /\ Used(v) = Used(t) - d
          /\ v.dirty = TxWrap(t.dirty + d) /\ v.cur = t.cur
      BY <1>1, <1>4, <1>9, <1>10 DEF TxDcbs
    <3> QED
      BY ONLY <3>1, <3>2 DEF TxWrap
  <2>3. ASSUME NEW i \in TxDcbs, TxAhead(v, i) < Used(v)
        PROVE  (v.done[i] <=> TxAhead(v, i) < 0) /\ v.dcb[i] # "free"
    <3>1. d <= TxAhead(t, i) /\ TxAhead(t, i) < Used(t)
      BY <1>12, <2>3
    <3>2. (t.done[i] <=> TxAhead(t, i) < d) /\ t.dcb[i] # "free"
      BY <3>1 DEF TxRingOK
    <3>3. ~(TxAhead(t, i) < d) /\ ~(TxAhead(v, i) < 0)
      <4>1. TxAhead(t, i) \in Int /\ d \in Int
        BY <1>1
      <4> QED
        BY <1>11, <3>1, <4>1
    <3> QED
      BY <1>5, <1>6, <1>9, <3>2, <3>3
  <2> QED
    BY <2>1, <2>2, <2>3 DEF TxRingOK
<1>14. ASSUME SkbsFrom(t, d) PROVE SkbsFrom(v, 0)
  <2> SUFFICES ASSUME NEW i \in TxDcbs, TxAhead(v, i) < Used(v) PROVE v.dcb[i] = "skb"
    BY DEF SkbsFrom
  <2>1. d <= TxAhead(t, i) /\ TxAhead(t, i) < Used(t) /\ d \in Int /\ TxAhead(t, i) \in Int
    BY <1>1, <1>12
  <2>2. t.dcb[i] = "skb"
    BY <1>14, <2>1 DEF SkbsFrom
  <2> QED
    BY <1>5, <1>9, <2>1, <2>2
<1>15. ASSUME d = 0 PROVE /\ SkbsFrom(t, 1) => SkbsFrom(v, 1)
                          /\ v.dirty = t.dirty /\ v.dcb = t.dcb /\ Used(v) = Used(t)
  <2>1. v.dirty = t.dirty
    BY <1>1, <1>4, <1>9, <1>15 DEF TxWrap, TxDcbs
  <2>2. Used(v) = Used(t) /\ v.dcb = t.dcb
    BY <1>1, <1>7, <1>9, <1>10, <1>15
  <2>3. \A i : TxAhead(v, i) = TxAhead(t, i)
    BY <2>1 DEF TxAhead
  <2> QED
    BY <2>1, <2>2, <2>3 DEF SkbsFrom
<1> QED
  BY <1>4, <1>9, <1>13, <1>14, <1>15

LEMMA DoTxStep ==
    ASSUME NEW d \in 0 .. MAX_TX_DCBS, TxInv(d), bkn_do_tx
    PROVE  TxInv(0)'
<1>1. /\ CdmaTxTypeOK /\ TxOK(State, txhw.pos, d) /\ State \in TxParts
      /\ State.t = tx /\ State.c = chain /\ State.halt = txhw.halt
      /\ tx \in TxType /\ chain \in [Chains -> ChainType] /\ txhw.halt \in Places
      /\ TxRingOK(tx, d) /\ QueueOK(Queue(tx), chain, tx.api_dcb_chain_end)
  BY TxStateIs DEF TxInv, CdmaTxTypeOK, TxOK
<1>2. PICK n \in 0 .. MAX_TX_DCBS :
         LET freed == {(tx.dirty + k) % MAX_TX_DCBS : k \in 0 .. n - 1}
         IN  /\ DonePrefix(n)
             /\ tx' = [tx EXCEPT
                   !.irq = FALSE, !.free = @ + n, !.dirty = (@ + n) % MAX_TX_DCBS,
                   !.dcb = [i \in TxDcbs |-> IF i \in freed THEN "free" ELSE @[i]],
                   !.done = [i \in TxDcbs |-> @[i] /\ i \notin freed]]
             /\ txh' = [txh EXCEPT !.pc = "done", !.done = n]
  BY DEF bkn_do_tx
<1>3. n = d
  BY <1>1, <1>2, DoneIs
<1> DEFINE v == FreeDcbs(tx, d)
<1>4. tx' = v
  BY <1>2, <1>3 DEF FreeDcbs, FreedDcbs
<1>5. /\ v \in TxType /\ SameApi(tx, v) /\ TxRingOK(v, 0)
      /\ v.cur = tx.cur /\ v.dirty = TxWrap(tx.dirty + d)
      /\ SkbsFrom(tx, d) => SkbsFrom(v, 0)
      /\ d = 0 => /\ SkbsFrom(tx, 1) => SkbsFrom(v, 1)
                  /\ v.dirty = tx.dirty /\ v.dcb = tx.dcb /\ Used(v) = Used(tx)
  BY <1>1, FreeDone
<1> HIDE DEF v
<1> DEFINE u == [t |-> v, c |-> chain, halt |-> txhw.halt]
<1>6. chain' = chain /\ txhw' = txhw
  BY DEF bkn_do_tx
<1>7. u \in TxParts /\ u.t = v /\ u.c = chain /\ u.halt = txhw.halt /\ State' = u
  BY <1>1, <1>4, <1>5, <1>6 DEF TxParts, State
<1> HIDE DEF u
<1>8. Queue(v) = Queue(tx) /\ v.api_active = tx.api_active /\ v.api_dcb_chain_end = tx.api_dcb_chain_end
  BY <1>5 DEF Queue, SameApi
<1>9. TxWrap(v.dirty + 0) = v.dirty
  BY <1>5 DEF TxWrap, TxType, TxDcbs
<1>10. RingMode(State, txhw.pos, d) => RingMode(u, txhw.pos, 0)
  BY <1>1, <1>5, <1>7, <1>8, <1>9 DEF RingMode
<1>11. ToChain(State, txhw.pos, d) => ToChain(u, txhw.pos, 0)
  BY <1>1, <1>5, <1>7, <1>8 DEF ToChain
<1>12. ChainMode(State, txhw.pos, d) => ChainMode(u, txhw.pos, 0)
  BY <1>1, <1>5, <1>7, <1>8, <1>11 DEF ChainMode
<1>13. TxOK(u, txhw.pos, 0)
  BY <1>1, <1>5, <1>7, <1>8, <1>10, <1>12 DEF TxOK
<1>14. CdmaTxTypeOK'
  <2>1. txh' \in [pc : {"idle", "latched", "done"}, done : 0 .. MAX_TX_DCBS, behind : BOOLEAN]
    BY <1>1, <1>2 DEF CdmaTxTypeOK
  <2> QED
    BY <1>1, <1>4, <1>5, <1>6, <2>1 DEF bkn_do_tx, CdmaTxTypeOK
<1> QED
  BY <1>6, <1>7, <1>13, <1>14 DEF TxInv

LEMMA SkbsDoneStep ==
    ASSUME NEW d \in 0 .. MAX_TX_DCBS, TxInv(d), ~tx.api_active, SkbsDone
    PROVE  /\ TxOK(State, txhw.pos, d)' /\ tx' \in TxType /\ chain' \in [Chains -> ChainType]
           /\ txhw' \in [pos : Places, halt : Places]
<1> DEFINE s == IF tx.free = MAX_TX_DCBS THEN bkn_api_tx(State) ELSE State
<1>1. CdmaTxTypeOK /\ TxOK(State, txhw.pos, d) /\ State.t = tx
  BY TxStateIs DEF TxInv
<1>2. TxOK(s, txhw.pos, d)
  BY <1>1, StartApi
<1>3. Apply(IF s.t.api_active THEN s ELSE bkn_resume_tx(s))
  BY DEF SkbsDone, ChainsDone
<1> HIDE DEF s
<1>4. PICK v : TxOK(v, txhw.pos, d) /\ Apply(v)
  BY <1>2, <1>3, Stopped
<1>5. v \in TxParts
  BY <1>4 DEF TxOK
<1> QED
  BY <1>1, <1>4, <1>5, TxApplied

-----------------------------------------------------------------------------
(* The first n chains leave the queue. *)
QueueLoses(q, r, n) ==
    /\ r \in Seq(Chains) /\ Len(r) = Len(q) - n
    /\ \A k \in 1 .. Len(r) : r[k] = q[n + k]
ChainsBack(q, C, D, n) ==
    /\ D \in [Chains -> ChainType]
    /\ \A x \in Chains : /\ D[x].done = C[x].done /\ D[x].link = C[x].link
                         /\ (\A k \in 1 .. n : q[k] # x) => D[x].api = C[x].api

LEMMA DrainSeq ==
    ASSUME NEW t \in TxType, NEW q \in Seq(Chains), NEW n \in 0 .. Len(q) - 1,
           t.api_active, t.api_dcb_chain = q[n + 1], t.api_dcb_list = SubSeq(q, n + 2, Len(q))
    PROVE  QueueLoses(q, Queue(t), n)
<1> DEFINE l == SubSeq(q, n + 2, Len(q))
<1>1. Len(q) \in Nat /\ n + 1 \in 1 .. Len(q) /\ q[n + 1] \in Chains
  OBVIOUS
<1>2. /\ Len(l) = IF n + 2 <= Len(q) THEN Len(q) - (n + 2) + 1 ELSE 0
      /\ \A i \in 1 .. Len(q) - (n + 2) + 1 : l[i] = q[(n + 2) + i - 1]
  <2>1. n + 2 \in Int /\ Len(q) \in Int /\ \A i \in n + 2 .. Len(q) : q[i] \in Chains
    BY <1>1
  <2> HIDE DEF l
  <2> QED
    BY <2>1, SubSeqProperties DEF l
<1> HIDE DEF l
<1>3. Len(l) = Len(q) - n - 1 /\ \A i \in 1 .. Len(l) : l[i] = q[n + (i + 1)]
  BY <1>1, <1>2
<1>4. /\ Queue(t) \in Seq(Chains) /\ Len(Queue(t)) = Len(t.api_dcb_list) + 1
      /\ Queue(t)[1] = t.api_dcb_chain
      /\ \A k \in 1 .. Len(t.api_dcb_list) : Queue(t)[k + 1] = t.api_dcb_list[k]
  <2>1. t.api_dcb_chain \in Chains
    BY <1>1
  <2> QED
    BY <2>1, QueueIs, Zenon
<1>5. t.api_dcb_list = l
  BY DEF l
<1>6. Len(Queue(t)) = Len(q) - n
  BY <1>1, <1>3, <1>4, <1>5
<1>7. ASSUME NEW k \in 1 .. Len(Queue(t)) PROVE Queue(t)[k] = q[n + k]
  <2>1. CASE k = 1
    BY <1>4, <2>1
  <2>2. CASE k # 1
    <3>1. k - 1 \in 1 .. Len(l) /\ (k - 1) + 1 = k
      BY <1>1, <1>3, <1>6, <2>2
    <3> QED
      BY <1>3, <1>4, <1>5, <3>1
  <2> QED
    BY <2>1, <2>2
<1> QED
  BY <1>4, <1>6, <1>7 DEF QueueLoses

LEMMA DrainedQueue ==
    ASSUME NEW q, NEW r, NEW C \in [Chains -> ChainType], NEW D, NEW e, NEW n \in 0 .. Len(q) - 1,
           QueueOK(q, C, e), QueueLoses(q, r, n), ChainsBack(q, C, D, n)
    PROVE  QueueOK(r, D, e)
<1>1. q \in Seq(Chains) /\ Len(q) \in Nat /\ r \in Seq(Chains) /\ Len(r) = Len(q) - n
  BY DEF QueueOK, QueueLoses
<1>2. \A k \in 1 .. Len(r) : n + k \in 1 .. Len(q) /\ r[k] = q[n + k] /\ q[n + k] \in Chains
  BY <1>1 DEF QueueLoses
<1>3. ASSUME NEW j \in 1 .. Len(r), NEW k \in 1 .. Len(r), r[j] = r[k] PROVE j = k
  <2>1. n + j = n + k
    BY <1>2, <1>3 DEF QueueOK
  <2> QED
    BY <1>1, <2>1
<1>4. ASSUME NEW k \in 1 .. Len(r) PROVE D[r[k]].api
  <2>1. \A j \in 1 .. n : q[j] # r[k]
    <3> SUFFICES ASSUME NEW j \in 1 .. n, q[j] = q[n + k] PROVE FALSE
      BY <1>2
    <3>1. j \in 1 .. Len(q) /\ n + k \in 1 .. Len(q)
      BY <1>1, <1>2
    <3>2. j = n + k
      BY <3>1 DEF QueueOK
    <3> QED
      BY <1>1, <3>2
  <2>2. C[q[n + k]].api
    BY <1>2 DEF QueueOK
  <2> QED
    BY <1>2, <2>1, <2>2 DEF ChainsBack
<1>5. ASSUME NEW k \in 1 .. Len(r) - 1 PROVE D[r[k]].link = At(r[k + 1], 1)
  <2>1. k \in 1 .. Len(r) /\ k + 1 \in 1 .. Len(r) /\ n + k \in 1 .. Len(q) - 1 /\ n + (k + 1) = (n + k) + 1
    BY <1>1
  <2>2. C[q[n + k]].link = At(q[(n + k) + 1], 1)
    BY <2>1 DEF QueueOK
  <2> QED
    BY <1>2, <2>1, <2>2 DEF ChainsBack
<1>6. e = IF Len(r) = 0 THEN NoChain ELSE r[Len(r)]
  <2>1. Len(r) \in 1 .. Len(r) /\ n + Len(r) = Len(q) /\ Len(q) # 0
    BY <1>1
  <2> QED
    BY <1>2, <2>1 DEF QueueOK
<1> QED
  BY <1>1, <1>3, <1>4, <1>5, <1>6 DEF QueueOK

LEMMA DrainedOK ==
    ASSUME NEW s, NEW p, NEW d \in 0 .. MAX_TX_DCBS, TxOK(s, p, d), s.t.api_active, NEW u \in TxParts,
           NEW n \in 0 .. Len(Queue(s.t)) - 1,
           \A k \in 1 .. n : s.c[Queue(s.t)[k]].done = DCB_CNT + 1,
           SameRing(s.t, u.t), u.t.api_active, u.t.api_dcb_chain_end = s.t.api_dcb_chain_end,
           QueueLoses(Queue(s.t), Queue(u.t), n), ChainsBack(Queue(s.t), s.c, u.c, n),
           u.halt = s.halt
    PROVE  TxOK(u, p, d)
<1> DEFINE q == Queue(s.t)
           r == Queue(u.t)
           C == s.c
           D == u.c
<1>1. /\ s \in TxParts /\ s.t \in TxType /\ C \in [Chains -> ChainType] /\ p \in Places
      /\ TxRingOK(s.t, d) /\ QueueOK(q, C, s.t.api_dcb_chain_end) /\ ChainMode(s, p, d)
  BY DEF TxOK, TxParts, RingMode
<1>2. QueueOK(r, D, u.t.api_dcb_chain_end)
  BY <1>1, DrainedQueue
<1>3. q \in Seq(Chains) /\ Len(q) \in Nat /\ r \in Seq(Chains) /\ Len(r) = Len(q) - n
  BY <1>1 DEF QueueOK, QueueLoses
<1>4. \A k \in 1 .. Len(r) : n + k \in 1 .. Len(q) /\ r[k] = q[n + k] /\ q[n + k] \in Chains
  BY <1>3 DEF QueueLoses
<1>5. \A x \in Chains : D[x].done = C[x].done /\ D[x].link = C[x].link
  BY DEF ChainsBack
<1>6. TxRingOK(u.t, d) /\ (\A i : SkbsFrom(s.t, i) => SkbsFrom(u.t, i)) /\ Used(u.t) = Used(s.t)
  BY <1>1, SameRingOK, Zenon
<1>7. u.t.dirty = s.t.dirty /\ u.t.cur = s.t.cur /\ u.t.dcb = s.t.dcb
  BY DEF SameRing
<1>8. \A k \in 1 .. n : C[q[k]].done = DCB_CNT + 1
  OBVIOUS
<1>9. PICK m \in 1 .. Len(q) :
         /\ s.halt = LastDcb(q[m])
         /\ \/ ToChain(s, p, d)
            \/ SkbsFrom(s.t, d) /\ \E k \in 1 .. m : InChain(q, C, p, k)
  BY <1>1 DEF ChainMode
<1> HIDE DEF q, r, C, D
<1>10. CASE ToChain(s, p, d)
  <2>1. /\ Used(s.t) > 0 /\ s.t.dcb[s.t.dirty] = q[1] /\ SkbsFrom(s.t, 1)
        /\ ComesTo(q, C, p, s.t.dirty) /\ Fresh(q, C, 1) /\ d = 0
    BY <1>10 DEF ToChain, q, C
  <2>2. n = 0
    <3> SUFFICES ASSUME n # 0 PROVE FALSE
      OBVIOUS
    <3>1. 1 \in 1 .. n /\ 1 \in 1 .. Len(q)
      BY <1>3 DEF q
    <3>2. C[q[1]].done = 0 /\ C[q[1]].done = DCB_CNT + 1
      BY <1>8, <2>1, <3>1 DEF Fresh
    <3> QED
      BY <3>2, CdmaTxAssumption
  <2>3. Len(r) = Len(q) /\ \A k \in 1 .. Len(q) : r[k] = q[k] /\ q[k] \in Chains
    BY <1>3, <1>4, <2>2
  <2>4. ComesTo(r, D, p, s.t.dirty)
    BY <1>5, <2>1, <2>3 DEF ComesTo
  <2>5. Fresh(r, D, 1)
    BY <1>5, <2>1, <2>3 DEF Fresh
  <2>6. ToChain(u, p, d)
    <3>1. 1 \in 1 .. Len(q)
      BY <1>3, <1>9
    <3> QED
      BY <1>6, <1>7, <2>1, <2>3, <2>4, <2>5, <3>1 DEF ToChain, r, D
  <2>7. m \in 1 .. Len(r) /\ u.halt = LastDcb(r[m])
    BY <1>9, <2>3
  <2>8. ChainMode(u, p, d)
    BY <2>6, <2>7 DEF ChainMode, r
  <2> QED
    BY <1>1, <1>2, <1>6, <2>8 DEF TxOK, r, D
<1>11. CASE SkbsFrom(s.t, d) /\ \E k \in 1 .. m : InChain(q, C, p, k)
  <2>1. PICK k \in 1 .. m : InChain(q, C, p, k)
    BY <1>11
  <2>2. /\ k \in 1 .. Len(q) /\ p.at = q[k] /\ C[q[k]].done = p.i - 1
        /\ Sent(q, C, k) /\ Fresh(q, C, k + 1) /\ q[k] \in Chains
    BY <1>3, <2>1 DEF InChain
  <2>3. p.i \in 1 .. DCB_CNT + 1
    BY <1>1, <2>2, PlacesAre, ChainNamesAssumption
  <2>4. n < k
    <3> SUFFICES ASSUME ~(n < k) PROVE FALSE
      OBVIOUS
    <3>1. k \in 1 .. n
      BY <1>3
    <3>2. C[q[k]].done = DCB_CNT + 1
      BY <1>8, <3>1
    <3> QED
      BY <2>2, <2>3, <3>2, CdmaTxAssumption
  <2>5. k - n \in 1 .. Len(r) /\ m - n \in 1 .. Len(r) /\ k - n \in 1 .. m - n
        /\ n + (k - n) = k /\ n + (m - n) = m
    BY <1>3, <2>4
  <2>6. r[k - n] = q[k] /\ r[m - n] = q[m]
    BY <1>4, <2>5
  <2>7. Sent(r, D, k - n)
    <3> SUFFICES ASSUME NEW j \in 1 .. (k - n) - 1 PROVE D[r[j]].done = DCB_CNT + 1
      BY DEF Sent
    <3>1. j \in 1 .. Len(r) /\ n + j \in 1 .. k - 1
      BY <1>3, <2>5
    <3>2. C[q[n + j]].done = DCB_CNT + 1
      BY <2>2, <3>1 DEF Sent
    <3>3. r[j] = q[n + j] /\ q[n + j] \in Chains
      BY <1>4, <3>1
    <3> QED
      BY <1>5, <3>2, <3>3
  <2>8. Fresh(r, D, (k - n) + 1)
    <3> SUFFICES ASSUME NEW j \in (k - n) + 1 .. Len(r) PROVE D[r[j]].done = 0
      BY DEF Fresh
    <3>1. j \in 1 .. Len(r) /\ n + j \in k + 1 .. Len(q)
      BY <1>3, <2>5
    <3>2. C[q[n + j]].done = 0
      BY <2>2, <3>1 DEF Fresh
    <3>3. r[j] = q[n + j] /\ q[n + j] \in Chains
      BY <1>4, <3>1
    <3> QED
      BY <1>5, <3>2, <3>3
  <2>9. InChain(r, D, p, k - n)
    BY <1>5, <2>2, <2>6, <2>7, <2>8 DEF InChain
  <2>10. u.halt = LastDcb(r[m - n]) /\ SkbsFrom(u.t, d)
    BY <1>6, <1>9, <1>11, <2>6
  <2>11. ChainMode(u, p, d)
    BY <2>5, <2>9, <2>10 DEF ChainMode, r, D
  <2> QED
    BY <1>1, <1>2, <1>6, <2>11 DEF TxOK, r, D
<1> QED
  BY <1>9, <1>10, <1>11

(* The records that Drain makes. *)
LEMMA DrainFields ==
    ASSUME NEW A, NEW B, NEW C, NEW D, NEW E, NEW F, NEW G,
           NEW t \in TxFields(A, B, C, D, E, F, G), NEW f \in F, NEW g \in G, NEW y \in E
    PROVE  [t EXCEPT !.api_dcb_chain = g, !.api_dcb_list = f, !.yield = y] \in TxFields(A, B, C, D, E, F, G)
BY DEF TxFields

LEMMA DrainValues ==
    ASSUME NEW A, NEW B, NEW C, NEW D, NEW E, NEW F, NEW G,
           NEW t \in TxFields(A, B, C, D, E, F, G), NEW f \in F, NEW g \in G, NEW y \in E
    PROVE  /\ SameRing(t, [t EXCEPT !.api_dcb_chain = g, !.api_dcb_list = f, !.yield = y])
           /\ ApiIs([t EXCEPT !.api_dcb_chain = g, !.api_dcb_list = f, !.yield = y],
                    t.api_active, f, g, t.api_dcb_chain_end)
BY DEF TxFields, SameRing, ApiIs

LEMMA DrainType ==
    ASSUME NEW t \in TxType, NEW f \in Seq(Chains), NEW g \in Chains, NEW y \in BOOLEAN,
           NEW v, v = [t EXCEPT !.api_dcb_chain = g, !.api_dcb_list = f, !.yield = y]
    PROVE  /\ v \in TxType
           /\ SameRing(t, v) /\ ApiIs(v, t.api_active, f, g, t.api_dcb_chain_end)
<1> DEFINE A == [TxDcbs -> {"free", "skb"} \cup Chains]
           B == [TxDcbs -> BOOLEAN]
           C == 0 .. MAX_TX_DCBS
           E == BOOLEAN
           F == Seq(Chains)
           G == Chains \cup {NoChain}
<1>1. TxType = TxFields(A, B, C, TxDcbs, E, F, G)
  BY TxTypeIs
<1>2. f \in F /\ g \in G /\ y \in E
  OBVIOUS
<1> HIDE DEF A, B, C, E, F, G
<1>3. t \in TxFields(A, B, C, TxDcbs, E, F, G)
  BY <1>1
<1> QED
  <2>1. [t EXCEPT !.api_dcb_chain = g, !.api_dcb_list = f, !.yield = y] \in TxType
    BY <1>1, <1>2, <1>3, DrainFields, Zenon
  <2>2. /\ SameRing(t, [t EXCEPT !.api_dcb_chain = g, !.api_dcb_list = f, !.yield = y])
        /\ ApiIs([t EXCEPT !.api_dcb_chain = g, !.api_dcb_list = f, !.yield = y],
                 t.api_active, f, g, t.api_dcb_chain_end)
    BY <1>2, <1>3, DrainValues, Zenon
  <2> QED
    BY <2>1, <2>2, Zenon

DrainChains(q, C, n) ==
    [c \in Chains |-> IF \E k \in 1 .. n : q[k] = c THEN [C[c] EXCEPT !.api = FALSE] ELSE C[c]]

LEMMA DrainChainsBack ==
    ASSUME NEW q, NEW n, NEW C \in [Chains -> ChainType]
    PROVE  ChainsBack(q, C, DrainChains(q, C, n), n)
<1> DEFINE b == FALSE
           R(c) == [C[c] EXCEPT !.api = b]
           D == DrainChains(q, C, n)
<1>1. D = [c \in Chains |-> IF \E k \in 1 .. n : q[k] = c THEN R(c) ELSE C[c]]
  BY DEF DrainChains
<1>2. b \in BOOLEAN
  OBVIOUS
<1> HIDE DEF b, D
<1>3. ASSUME NEW c \in Chains
      PROVE  R(c) \in ChainType /\ R(c).done = C[c].done /\ R(c).link = C[c].link
  <2>1. C[c] \in ChainType
    OBVIOUS
  <2> DEFINE r == C[c]
             u == R(c)
  <2>2. r \in ChainType /\ u = [r EXCEPT !.api = b]
    BY <2>1
  <2> HIDE DEF r, R, u
  <2>3. u \in ChainType /\ u.done = r.done /\ u.link = r.link
    BY <1>2, <2>2, SetGiven
  <2> QED
    BY <2>3 DEF r, u
<1> HIDE DEF R
<1>4. \A c \in Chains : D[c] = IF \E k \in 1 .. n : q[k] = c THEN R(c) ELSE C[c]
  BY <1>1, Zenon
<1>5. D \in [Chains -> ChainType]
  BY <1>1, <1>3
<1> QED
  BY <1>3, <1>4, <1>5 DEF ChainsBack, D

LEMMA DrainIs ==
    ASSUME CdmaTxTypeOK, tx.api_active, tx.api_dcb_chain \in Chains,
           NEW n \in 0 .. Len(tx.api_dcb_list), NEW u, u = Drain(n)
    PROVE  /\ u \in TxParts /\ SameRing(tx, u.t) /\ u.halt = txhw.halt
           /\ u.t.api_active /\ u.t.api_dcb_chain \in Chains
           /\ u.t.api_dcb_chain_end = tx.api_dcb_chain_end
           /\ Queue(tx) \in Seq(Chains) /\ n \in 0 .. Len(Queue(tx)) - 1
           /\ QueueLoses(Queue(tx), Queue(u.t), n) /\ ChainsBack(Queue(tx), chain, u.c, n)
<1> DEFINE q == Queue(tx)
           C == DrainChains(q, chain, n)
           l == SubSeq(q, n + 2, Len(q))
           y == tx.yield \/ n = DrainMax
           v == [tx EXCEPT !.api_dcb_chain = q[n + 1], !.api_dcb_list = l, !.yield = y]
<1>1. /\ State \in TxParts /\ State.t = tx /\ State.c = chain /\ State.halt = txhw.halt
      /\ tx \in TxType /\ chain \in [Chains -> ChainType] /\ txhw.halt \in Places
  BY TxStateIs DEF CdmaTxTypeOK
<1>2. Waiting = q
  BY DEF Waiting, Queue
<1>3. q \in Seq(Chains) /\ Len(q) \in Nat /\ n \in 0 .. Len(q) - 1
  <2>2. Len(q) = Len(tx.api_dcb_list) + 1 /\ q \in Seq(Chains)
    BY <1>1, QueueIs, Zenon
  <2>3. n <= Len(tx.api_dcb_list)
    OBVIOUS
  <2> HIDE DEF q
  <2>4. Len(q) \in Nat
    BY <2>2
  <2> QED
    BY <2>2, <2>3, <2>4
<1>4. q[n + 1] \in Chains /\ l \in Seq(Chains)
  <2>1. n + 1 \in 1 .. Len(q) /\ n + 2 \in Int /\ Len(q) \in Int
    BY <1>3
  <2> HIDE DEF q
  <2>2. \A i \in n + 2 .. Len(q) : q[i] \in Chains
    BY <1>3
  <2>3. l \in Seq(Chains)
    BY <2>1, <2>2, SubSeqProperties
  <2> QED
    BY <1>3, <2>1, <2>3
<1>5. u = [State EXCEPT !.c = C, !.t = v]
  <2>1. State = [t |-> tx, c |-> chain, halt |-> txhw.halt]
    BY DEF State
  <2>2. State.t = tx /\ State.t.yield = tx.yield
    BY <1>1
  <2>3. u = [State EXCEPT !.c = C, !.t.api_dcb_chain = q[n + 1], !.t.api_dcb_list = l,
                          !.t.yield = @ \/ n = DrainMax]
    BY <1>1, <1>2 DEF Drain, DrainChains
  <2> HIDE DEF C, q, l
  <2>4. [State EXCEPT !.c = C, !.t.api_dcb_chain = q[n + 1], !.t.api_dcb_list = l,
                      !.t.yield = @ \/ n = DrainMax]
            = [State EXCEPT !.c = C, !.t = v]
    BY <2>1
  <2> QED
    BY <2>3, <2>4
<1>6. y \in BOOLEAN
  BY <1>1 DEF TxType
<1>7. v \in TxType /\ SameRing(tx, v) /\ ApiIs(v, tx.api_active, l, q[n + 1], tx.api_dcb_chain_end)
  <2> HIDE DEF y, l, q
  <2> QED
    BY <1>1, <1>4, <1>6, DrainType
<1>8. ChainsBack(q, chain, C, n)
  BY <1>1, DrainChainsBack
<1> HIDE DEF v, C, y, q
<1>9. C \in [Chains -> ChainType] /\ \A x \in Chains : C[x].done = chain[x].done
  BY <1>8 DEF ChainsBack
<1>10. u \in TxParts /\ u.t = v /\ u.c = C /\ u.halt = txhw.halt
  BY <1>1, <1>5, <1>7, <1>9 DEF TxParts
<1>11. QueueLoses(q, Queue(v), n)
  <2>1. v.api_active /\ v.api_dcb_chain = q[n + 1] /\ v.api_dcb_list = l
    BY <1>7 DEF ApiIs
  <2> QED
    BY <1>3, <1>7, <2>1, DrainSeq
<1> QED
  BY <1>3, <1>4, <1>7, <1>8, <1>10, <1>11 DEF ApiIs, q

LEMMA DrainOK ==
    ASSUME CdmaTxTypeOK, NEW d \in 0 .. MAX_TX_DCBS, TxOK(State, txhw.pos, d), tx.api_active,
           NEW n \in 0 .. Len(tx.api_dcb_list), Drained(n)
    PROVE  /\ TxOK(Drain(n), txhw.pos, d) /\ Drain(n).t.api_active
           /\ \A x \in Chains : Drain(n).c[x].done = chain[x].done
<1> DEFINE u == Drain(n)
<1>1. /\ State.t = tx /\ State.c = chain /\ State.halt = txhw.halt /\ tx \in TxType
      /\ QueueOK(Queue(tx), chain, tx.api_dcb_chain_end)
  BY TxStateIs DEF CdmaTxTypeOK, TxOK
<1>2. tx.api_dcb_chain \in Chains
  BY <1>1, QueueHead DEF QueueOK
<1>3. /\ u \in TxParts /\ SameRing(tx, u.t) /\ u.halt = txhw.halt
      /\ u.t.api_active /\ u.t.api_dcb_chain_end = tx.api_dcb_chain_end
      /\ n \in 0 .. Len(Queue(tx)) - 1
      /\ QueueLoses(Queue(tx), Queue(u.t), n) /\ ChainsBack(Queue(tx), chain, u.c, n)
  BY <1>2, DrainIs
<1> HIDE DEF u
<1>4. \A k \in 1 .. n : chain[Queue(tx)[k]].done = DCB_CNT + 1
  BY DEF Drained, Waiting, Queue
<1>5. TxOK(u, txhw.pos, d)
  BY <1>1, <1>3, <1>4, DrainedOK
<1>6. \A x \in Chains : u.c[x].done = chain[x].done
  BY <1>3 DEF ChainsBack
<1> QED
  BY <1>3, <1>5, <1>6 DEF u

(* The last chain is sent: the channel goes on in the ring. *)
LEMMA LastChain ==
    ASSUME NEW s, NEW p, TxOK(s, p, 0), s.t.api_active,
           s.t.api_dcb_chain = s.t.api_dcb_chain_end, s.c[s.t.api_dcb_chain].done >= DCB_CNT
    PROVE  /\ s.t.api_dcb_chain \in Chains /\ s.t.api_dcb_list = <<>>
           /\ p.at = s.t.api_dcb_chain /\ p.i = DCB_CNT + 1
           /\ s.c[s.t.api_dcb_chain].done = DCB_CNT /\ SkbsFrom(s.t, 0)
<1> DEFINE q == Queue(s.t)
           c == s.t.api_dcb_chain
           C == s.c
<1>1. /\ s \in TxParts /\ s.t \in TxType /\ C \in [Chains -> ChainType] /\ p \in Places
      /\ QueueOK(q, C, s.t.api_dcb_chain_end) /\ ChainMode(s, p, 0)
  BY DEF TxOK, TxParts, RingMode
<1>2. c \in Chains
  BY <1>1, QueueHead DEF QueueOK
<1>3. Len(q) = Len(s.t.api_dcb_list) + 1 /\ q[1] = c
  BY <1>1, <1>2, QueueIs, Zenon
<1>4. s.t.api_dcb_list \in Seq(Chains) /\ Len(s.t.api_dcb_list) \in Nat
  BY <1>1 DEF TxType
<1> HIDE DEF q, c, C
<1>5. Len(q) = 1
  <2>1. 1 \in 1 .. Len(q) /\ Len(q) \in 1 .. Len(q) /\ Len(q) # 0
    BY <1>3, <1>4
  <2>2. q[Len(q)] = q[1]
    BY <1>1, <1>3, <2>1 DEF QueueOK, c
  <2> QED
    BY <1>1, <2>1, <2>2 DEF QueueOK
<1>6. s.t.api_dcb_list = <<>>
  <2> DEFINE l == s.t.api_dcb_list
  <2>1. l \in Seq(Chains) /\ Len(l) \in Nat /\ Len(q) = Len(l) + 1
    BY <1>3, <1>4
  <2> HIDE DEF l
  <2>2. Len(l) = 0
    <3>1. \A a, b \in Int : b = a + 1 /\ b = 1 => a = 0
      OBVIOUS
    <3>2. Len(l) \in Int /\ Len(q) \in Int
      BY <2>1, <1>5
    <3> QED
      BY <1>5, <2>1, <3>1, <3>2, Zenon
  <2>3. l = <<>>
    BY <2>1, <2>2, EmptySeq
  <2> QED
    BY <2>3 DEF l
<1>7. PICK m \in 1 .. Len(q) :
         /\ s.halt = LastDcb(q[m])
         /\ \/ ToChain(s, p, 0)
            \/ SkbsFrom(s.t, 0) /\ \E k \in 1 .. m : InChain(q, C, p, k)
  BY <1>1 DEF ChainMode, q, C
<1>8. ~ToChain(s, p, 0)
  <2> SUFFICES ASSUME ToChain(s, p, 0) PROVE FALSE
    OBVIOUS
  <2>1. Fresh(q, C, 1)
    BY DEF ToChain, q, C
  <2>2. 1 \in 1 .. Len(q)
    BY <1>5
  <2>3. C[c].done = 0 /\ C[c].done >= DCB_CNT
    BY <1>3, <2>1, <2>2 DEF Fresh, C, c
  <2> QED
    BY <2>3, CdmaTxAssumption
<1>9. PICK k \in 1 .. m : InChain(q, C, p, k)
  BY <1>7, <1>8
<1>10. k = 1
  BY <1>5
<1>11. p.at = c /\ C[c].done = p.i - 1 /\ C[c].done >= DCB_CNT
  BY <1>3, <1>9, <1>10 DEF InChain, C, c
<1>12. p.i \in 1 .. DCB_CNT + 1
  BY <1>1, <1>2, <1>11, PlacesAre, ChainNamesAssumption
<1>13. p.i = DCB_CNT + 1 /\ C[c].done = DCB_CNT
  BY <1>11, <1>12, CdmaTxAssumption
<1> QED
  BY <1>2, <1>6, <1>7, <1>8, <1>11, <1>13 DEF c, C

LEMMA ApiDoneIs ==
    ASSUME NEW s \in TxParts, s.t.api_active, s.t.api_dcb_chain \in Chains
    PROVE  \E w \in TxParts :
              /\ ApiDone(s) = bkn_resume_tx(w)
              /\ SameRing(s.t, w.t) /\ ApiIs(w.t, FALSE, s.t.api_dcb_list, NoChain, NoChain)
              /\ w.halt = At(Ring, s.t.cur)
              /\ w.c[s.t.api_dcb_chain].done = s.c[s.t.api_dcb_chain].done
              /\ w.c[s.t.api_dcb_chain].link = At(Ring, s.t.dirty)
<1> DEFINE c == s.t.api_dcb_chain
           no == FALSE
           v1 == [s.t EXCEPT !.api_active = no]
           v2 == [v1 EXCEPT !.api_dcb_chain = NoChain]
           v3 == [v2 EXCEPT !.api_dcb_chain_end = NoChain]
           v4 == [v3 EXCEPT !.yield = no]
           l == At(Ring, s.t.dirty)
           h == At(Ring, s.t.cur)
           r == s.c[c]
           r1 == [r EXCEPT !.link = l]
           r2 == [r1 EXCEPT !.api = no]
           D == [s.c EXCEPT ![c] = r2]
           w == [s EXCEPT !.t = v4, !.c = D, !.halt = h]
<1>1. s.t \in TxType /\ s.c \in [Chains -> ChainType]
  BY DEF TxParts
<1>2. c \in Chains
  OBVIOUS
<1>3. ApiDone(s) = bkn_resume_tx(w)
  <2>1. bkn_tx_cdma_chain_switch(s) = bkn_cdma_goto([[s EXCEPT !.t.api_active = ~@] EXCEPT !.c[c].link = l], h)
    BY DEF bkn_tx_cdma_chain_switch
  <2>2. [s EXCEPT !.t.api_active = ~@] = [s EXCEPT !.t = v1]
    BY <1>1 DEF TxParts, TxType
  <2> DEFINE x1 == [s EXCEPT !.t = v1]
             x2 == [x1 EXCEPT !.c[c].link = l]
             x3 == bkn_cdma_goto(x2, h)
             x4 == Return(x3, c)
  <2> HIDE DEF l, h, c, v1
  <2>3. x2 = [s EXCEPT !.t = v1, !.c = [s.c EXCEPT ![c] = r1]]
    BY <1>1 DEF TxParts
  <2>4. x3 = [s EXCEPT !.t = v1, !.c = [s.c EXCEPT ![c] = r1], !.halt = h]
    BY <1>1, <2>3 DEF bkn_cdma_goto, TxParts
  <2> HIDE DEF x3, r1
  <2>5. x4 = [s EXCEPT !.t = v2, !.c = D, !.halt = h]
    BY <1>1, <1>2, <2>4 DEF Return, TxParts, c
  <2> HIDE DEF x4, v2, D
  <2>6. [x4 EXCEPT !.t.api_dcb_chain_end = NoChain, !.t.yield = FALSE] = w
    BY <1>1, <2>5 DEF TxParts
  <2>7. ApiDone(s) = bkn_resume_tx([x4 EXCEPT !.t.api_dcb_chain_end = NoChain, !.t.yield = FALSE])
    BY <2>1, <2>2 DEF ApiDone, x4, x3, c
  <2> QED
    BY <2>6, <2>7, Zenon
<1>4. no \in BOOLEAN /\ ~no
  OBVIOUS
<1> HIDE DEF no
<1>5. v1 \in TxType /\ SameRing(s.t, v1) /\ ApiIs(v1, no, s.t.api_dcb_list, s.t.api_dcb_chain, s.t.api_dcb_chain_end)
  <2>1. NoChain \in Chains \cup {NoChain} /\ <<>> \in Seq(Chains)
    OBVIOUS
  <2> QED
    BY <1>1, <1>4, <2>1, SetApi, Zenon
<1> HIDE DEF v1
<1>6. v2 \in TxType /\ SameRing(v1, v2) /\ ApiIs(v2, v1.api_active, v1.api_dcb_list, NoChain, v1.api_dcb_chain_end)
  <2>1. NoChain \in Chains \cup {NoChain} /\ <<>> \in Seq(Chains)
    OBVIOUS
  <2> QED
    BY <1>4, <1>5, <2>1, SetApi, Zenon
<1> HIDE DEF v2
<1>7. v3 \in TxType /\ SameRing(v2, v3) /\ ApiIs(v3, v2.api_active, v2.api_dcb_list, v2.api_dcb_chain, NoChain)
  <2>1. NoChain \in Chains \cup {NoChain} /\ <<>> \in Seq(Chains)
    OBVIOUS
  <2> QED
    BY <1>4, <1>6, <2>1, SetApi, Zenon
<1> HIDE DEF v3
<1>8. v4 \in TxType /\ SameTx(v3, v4)
  BY <1>4, <1>7, SetFlag, Zenon
<1> HIDE DEF v4
<1>9. SameRing(s.t, v4) /\ ApiIs(v4, no, s.t.api_dcb_list, NoChain, NoChain)
  BY <1>2, <1>5, <1>6, <1>7, <1>8 DEF SameRing, ApiIs, SameTx
<1>10. s.t.dirty \in TxDcbs /\ s.t.cur \in TxDcbs
  BY <1>1 DEF TxType
<1>11. l \in Places /\ h \in Places
  BY <1>10, PlacesAre DEF TxDcbs
<1>12. r \in ChainType
  BY <1>1, <1>2
<1> HIDE DEF l, h, r
<1>13. r1 \in ChainType /\ r1.done = r.done /\ r1.link = l
  BY <1>11, <1>12, SetLink
<1> HIDE DEF r1
<1>14. r2 \in ChainType /\ r2.done = r.done /\ r2.link = l
  BY <1>4, <1>13, SetGiven
<1> HIDE DEF r2
<1>15. D \in [Chains -> ChainType] /\ D[c] = r2
  BY <1>1, <1>2, <1>14
<1> HIDE DEF D
<1>16. w \in TxParts /\ w.t = v4 /\ w.c = D /\ w.halt = h
  BY <1>1, <1>8, <1>11, <1>15 DEF TxParts
<1> HIDE DEF w
<1>17. ApiIs(w.t, FALSE, s.t.api_dcb_list, NoChain, NoChain)
  BY <1>9, <1>16 DEF no
<1>18. w.c[c].done = s.c[c].done /\ w.c[c].link = At(Ring, s.t.dirty) /\ w.halt = At(Ring, s.t.cur)
  BY <1>13, <1>14, <1>15, <1>16 DEF r, l, h
<1>19. SameRing(s.t, w.t)
  BY <1>9, <1>16
<1> QED
  BY <1>3, <1>16, <1>17, <1>18, <1>19

LEMMA ApiDoneOK ==
    ASSUME NEW s, NEW p, TxOK(s, p, 0), s.t.api_active,
           s.t.api_dcb_chain = s.t.api_dcb_chain_end, s.c[s.t.api_dcb_chain].done >= DCB_CNT
    PROVE  TxOK(ApiDone(s), p, 0)
<1>1. /\ s \in TxParts /\ s.t \in TxType /\ p \in Places /\ TxRingOK(s.t, 0)
  BY DEF TxOK, TxParts
<1>2. /\ s.t.api_dcb_chain \in Chains /\ s.t.api_dcb_list = <<>>
      /\ p.at = s.t.api_dcb_chain /\ p.i = DCB_CNT + 1
      /\ s.c[s.t.api_dcb_chain].done = DCB_CNT /\ SkbsFrom(s.t, 0)
  BY LastChain
<1>3. PICK u \in TxParts :
         /\ ApiDone(s) = bkn_resume_tx(u)
         /\ SameRing(s.t, u.t) /\ ApiIs(u.t, FALSE, s.t.api_dcb_list, NoChain, NoChain)
         /\ u.halt = At(Ring, s.t.cur)
         /\ u.c[s.t.api_dcb_chain].done = s.c[s.t.api_dcb_chain].done
         /\ u.c[s.t.api_dcb_chain].link = At(Ring, s.t.dirty)
  BY <1>1, <1>2, ApiDoneIs
<1>4. Queue(u.t) = <<>> /\ ~u.t.api_active /\ u.t.api_dcb_chain_end = NoChain
  BY <1>2, <1>3 DEF Queue, ApiIs
<1>5. QueueOK(<<>>, u.c, NoChain)
  BY DEF QueueOK
<1>6. u.t.dirty = s.t.dirty /\ u.t.cur = s.t.cur
  BY <1>3 DEF SameRing
<1>7. TxRingOK(u.t, 0) /\ SkbsFrom(u.t, 0)
  BY <1>1, <1>2, <1>3, SameRingOK, Zenon
<1>8. ComesTo(<<>>, u.c, p, TxWrap(u.t.dirty + 0))
  <2>1. TxWrap(u.t.dirty + 0) = s.t.dirty
    BY <1>1, <1>6 DEF TxWrap, TxDcbs, TxType
  <2>2. u.c[p.at].done = DCB_CNT /\ u.c[p.at].link = At(Ring, s.t.dirty) /\ p.at \in Chains
    BY <1>2, <1>3
  <2> QED
    BY <1>2, <2>1, <2>2 DEF ComesTo
<1>9. RingMode(u, p, 0)
  BY <1>3, <1>4, <1>6, <1>7, <1>8 DEF RingMode, Fresh
<1>10. TxOK(u, p, 0)
  BY <1>1, <1>4, <1>5, <1>7, <1>9 DEF TxOK
<1> QED
  BY <1>3, <1>10, Stopped

(* The ring DCB at dirty is done if any is. *)
LEMMA NoneDone ==
    ASSUME NEW t \in TxType, NEW d \in 0 .. MAX_TX_DCBS, TxRingOK(t, d), ~t.done[t.dirty]
    PROVE  d = 0
<1>1. t.dirty \in TxDcbs /\ TxAhead(t, t.dirty) = 0 /\ d \in 0 .. Used(t) /\ Used(t) \in Nat
  BY DEF TxType, TxDcbs, TxAhead, TxRingOK, Used
<1> QED
  BY <1>1 DEF TxRingOK

LEMMA ApiChainsDoneStep ==
    ASSUME NEW d \in 0 .. MAX_TX_DCBS, TxInv(d), tx.api_active, ApiChainsDone, ~txh'.behind
    PROVE  /\ TxOK(State, txhw.pos, d)' /\ tx' \in TxType /\ chain' \in [Chains -> ChainType]
           /\ txhw' \in [pos : Places, halt : Places]
<1>1. CdmaTxTypeOK /\ TxOK(State, txhw.pos, d) /\ State.t = tx /\ tx \in TxType
  BY TxStateIs DEF TxInv, CdmaTxTypeOK
<1>2. PICK n \in 0 .. Len(tx.api_dcb_list) :
         /\ Drained(n)
         /\ LET s == Drain(n)
            IN  IF /\ n < DrainMax /\ s.t.api_dcb_chain = s.t.api_dcb_chain_end
                   /\ chain[s.t.api_dcb_chain].done >= DCB_CNT
                THEN ChainsDone(ApiDone(s), txh.behind \/ tx.done[tx.dirty])
                ELSE ChainsDone(s, txh.behind)
  BY DEF ApiChainsDone
<1> DEFINE s == Drain(n)
           last == /\ n < DrainMax /\ s.t.api_dcb_chain = s.t.api_dcb_chain_end
                   /\ chain[s.t.api_dcb_chain].done >= DCB_CNT
<1>3. /\ TxOK(s, txhw.pos, d) /\ s.t.api_active
      /\ \A x \in Chains : s.c[x].done = chain[x].done
  BY <1>1, <1>2, DrainOK
<1>4. /\ last => Apply(ApiDone(s)) /\ ~tx.done[tx.dirty]
      /\ ~last => Apply(s)
  <2>1. \A x, b : ChainsDone(x, b) => Apply(x) /\ txh'.behind = b
    BY DEF ChainsDone
  <2>2. IF last THEN ChainsDone(ApiDone(s), txh.behind \/ tx.done[tx.dirty])
        ELSE ChainsDone(s, txh.behind)
    BY <1>2
  <2> HIDE DEF s, last
  <2> QED
    BY <2>1, <2>2, Zenon
<1> HIDE DEF s
<1>5. s.t.api_dcb_chain \in Chains
  BY <1>3, QueueHead DEF TxOK, TxParts, QueueOK
<1>6. PICK v : TxOK(v, txhw.pos, d) /\ Apply(v)
  <2>1. CASE last
    <3>1. Apply(ApiDone(s)) /\ ~tx.done[tx.dirty]
      BY <1>4, <2>1
    <3>2. s.c[s.t.api_dcb_chain].done >= DCB_CNT /\ s.t.api_dcb_chain = s.t.api_dcb_chain_end
      BY <1>3, <1>5, <2>1
    <3>3. d = 0
      <4>1. TxRingOK(tx, d)
        BY <1>1 DEF TxOK
      <4> QED
        BY <1>1, <3>1, <4>1, NoneDone
    <3>4. TxOK(ApiDone(s), txhw.pos, 0)
      BY <1>3, <3>2, <3>3, ApiDoneOK
    <3> QED
      BY <3>1, <3>3, <3>4
  <2>2. CASE ~last
    <3>1. Apply(s)
      BY <1>4, <2>2
    <3> QED
      BY <1>3, <3>1
  <2> QED
    BY <2>1, <2>2
<1>7. v \in TxParts
  BY <1>6 DEF TxOK
<1> QED
  BY <1>1, <1>6, <1>7, TxApplied

LEMMA ChainsDoneHandler ==
    ASSUME CdmaTxTypeOK, bkn_tx_cdma_chain_done
    PROVE  txh' \in [pc : {"idle", "latched", "done"}, done : 0 .. MAX_TX_DCBS, behind : BOOLEAN]
<1>1. /\ txh \in [pc : {"idle", "latched", "done"}, done : 0 .. MAX_TX_DCBS, behind : BOOLEAN]
      /\ tx.done \in [TxDcbs -> BOOLEAN] /\ tx.dirty \in TxDcbs
  BY DEF CdmaTxTypeOK, TxType
<1>2. txh.behind \in BOOLEAN /\ (txh.behind \/ tx.done[tx.dirty]) \in BOOLEAN
  BY <1>1
<1>3. PICK b \in BOOLEAN : txh' = [pc |-> "idle", done |-> 0, behind |-> b]
  <2>1. \A s, b : ChainsDone(s, b) => txh' = [pc |-> "idle", done |-> 0, behind |-> b]
    BY DEF ChainsDone
  <2>2. CASE tx.api_active
    <3>1. ApiChainsDone
      BY <2>2 DEF bkn_tx_cdma_chain_done
    <3> QED
      BY <1>2, <2>1, <3>1 DEF ApiChainsDone
  <2>3. CASE ~tx.api_active
    <3>1. SkbsDone
      BY <2>3 DEF bkn_tx_cdma_chain_done
    <3> QED
      BY <1>2, <2>1, <3>1 DEF SkbsDone
  <2> QED
    BY <2>2, <2>3
<1> QED
  BY <1>3, CdmaTxAssumption

LEMMA ChainDoneStep ==
    ASSUME NEW d \in 0 .. MAX_TX_DCBS, TxInv(d), bkn_tx_cdma_chain_done, ~txh'.behind
    PROVE  TxInv(d)'
<1>1. CdmaTxTypeOK
  BY DEF TxInv
<1>2. /\ TxOK(State, txhw.pos, d)' /\ tx' \in TxType /\ chain' \in [Chains -> ChainType]
      /\ txhw' \in [pos : Places, halt : Places]
  BY ApiChainsDoneStep, SkbsDoneStep DEF bkn_tx_cdma_chain_done
<1>3. txh' \in [pc : {"idle", "latched", "done"}, done : 0 .. MAX_TX_DCBS, behind : BOOLEAN]
  BY <1>1, ChainsDoneHandler
<1>4. CdmaTxTypeOK'
  BY <1>1, <1>2, <1>3 DEF bkn_tx_cdma_chain_done, CdmaTxTypeOK
<1> QED
  BY <1>2, <1>4 DEF TxInv

-----------------------------------------------------------------------------
(* The channel has sent the packet of a DCB of the ring, or followed it.   *)
MarkDcb(t, i) == [t EXCEPT !.done[i] = TRUE, !.irq = TRUE]
Marked(t, v, g) ==
    /\ SameApi(t, v) /\ v.cur = t.cur /\ v.dirty = t.dirty /\ v.free = t.free /\ v.dcb = t.dcb
    /\ v.done = g

LEMMA MarkFields ==
    ASSUME NEW A, NEW B, NEW C, NEW D, NEW E, NEW F, NEW G,
           NEW t \in TxFields(A, B, C, D, E, F, G), NEW g \in B, NEW irq \in E,
           NEW v, v = [t EXCEPT !.done = g, !.irq = irq]
    PROVE  v \in TxFields(A, B, C, D, E, F, G) /\ Marked(t, v, g)
BY DEF TxFields, SameApi, Marked

LEMMA MarkType ==
    ASSUME NEW t \in TxType, NEW i \in TxDcbs, NEW v, v = MarkDcb(t, i)
    PROVE  v \in TxType /\ Marked(t, v, [t.done EXCEPT ![i] = TRUE])
<1> DEFINE g == [t.done EXCEPT ![i] = TRUE]
           irq == TRUE
<1>1. v = [t EXCEPT !.done = g, !.irq = irq]
  BY DEF MarkDcb
<1> DEFINE A == [TxDcbs -> {"free", "skb"} \cup Chains]
           B == [TxDcbs -> BOOLEAN]
           C == 0 .. MAX_TX_DCBS
           E == BOOLEAN
           F == Seq(Chains)
           G == Chains \cup {NoChain}
<1>2. TxType = TxFields(A, B, C, TxDcbs, E, F, G)
  BY TxTypeIs
<1>3. g \in B /\ irq \in E
  BY DEF TxType
<1> HIDE DEF A, B, C, E, F, G, g, irq
<1>4. t \in TxFields(A, B, C, TxDcbs, E, F, G)
  BY <1>2
<1>5. v \in TxType /\ Marked(t, v, g)
  BY <1>1, <1>2, <1>3, <1>4, MarkFields, Zenon
<1> QED
  BY <1>5 DEF g

LEMMA Mark ==
    ASSUME NEW t \in TxType, NEW d, TxRingOK(t, d), d < Used(t),
           NEW i, i = TxWrap(t.dirty + d), NEW v, v = MarkDcb(t, i)
    PROVE  /\ v \in TxType /\ SameApi(t, v)
           /\ v.dirty = t.dirty /\ v.cur = t.cur /\ v.dcb = t.dcb /\ Used(v) = Used(t)
           /\ TxRingOK(v, d + 1) /\ TxWrap(i + 1) = TxWrap(t.dirty + (d + 1))
           /\ \A n : SkbsFrom(t, n) => SkbsFrom(v, n)
<1> DEFINE g == [t.done EXCEPT ![i] = TRUE]
<1>1. /\ t.dirty \in TxDcbs /\ t.free \in 1 .. MAX_TX_DCBS
      /\ Used(t) = MAX_TX_DCBS - t.free /\ Used(t) \in 0 .. MAX_TX_DCBS - 1
      /\ d \in 0 .. Used(t)
      /\ \A k \in 0 .. MAX_TX_DCBS - 1 :
            TxWrap(t.dirty + k) \in TxDcbs /\ TxAhead(t, TxWrap(t.dirty + k)) = k
  BY RingFacts
<1>2. i \in TxDcbs /\ TxAhead(t, i) = d
  BY <1>1
<1>3. /\ g \in [TxDcbs -> BOOLEAN]
      /\ \A x \in TxDcbs : g[x] <=> x = i \/ t.done[x]
  BY <1>2 DEF TxType
<1>4. v \in TxType /\ Marked(t, v, g)
  BY <1>2, MarkType
<1> HIDE DEF g
<1>5. /\ SameApi(t, v) /\ v.cur = t.cur /\ v.dirty = t.dirty /\ v.free = t.free /\ v.dcb = t.dcb
      /\ v.done = g
  BY <1>4 DEF Marked
<1>6. Used(v) = Used(t) /\ \A x : TxAhead(v, x) = TxAhead(t, x)
  BY <1>5 DEF Used, TxAhead
<1>7. \A x \in TxDcbs : TxAhead(t, x) = d => x = i
  BY <1>1 DEF TxAhead, TxWrap, TxDcbs
<1>8. TxRingOK(v, d + 1)
  <2>1. v.free >= 1 /\ d + 1 \in 0 .. Used(v)
    BY <1>1, <1>5, <1>6
  <2>2. v.cur = TxWrap(v.dirty + Used(v))
    BY <1>5, <1>6 DEF TxRingOK
  <2>3. ASSUME NEW x \in TxDcbs, TxAhead(v, x) < Used(v)
        PROVE  (v.done[x] <=> TxAhead(v, x) < d + 1) /\ v.dcb[x] # "free"
    <3>1. (t.done[x] <=> TxAhead(t, x) < d) /\ t.dcb[x] # "free"
      BY <1>6, <2>3 DEF TxRingOK
    <3>2. TxAhead(t, x) \in Int /\ d \in Int
      BY <1>1 DEF TxAhead, TxDcbs
    <3>3. TxAhead(t, x) < d + 1 <=> TxAhead(t, x) < d \/ x = i
      BY <1>2, <1>7, <3>2
    <3> QED
      BY <1>3, <1>5, <1>6, <3>1, <3>3
  <2> QED
    BY <2>1, <2>2, <2>3 DEF TxRingOK
<1>9. TxWrap(i + 1) = TxWrap(t.dirty + (d + 1))
  BY <1>1 DEF TxWrap, TxDcbs
<1>10. \A n : SkbsFrom(t, n) => SkbsFrom(v, n)
  BY <1>5, <1>6 DEF SkbsFrom
<1> QED
  BY <1>4, <1>5, <1>6, <1>8, <1>9, <1>10

LEMMA ReloadRing ==
    ASSUME NEW s, NEW p, NEW d, TxOK(s, p, d), p.at = Ring, p.i = MAX_TX_DCBS
    PROVE  TxOK(s, At(Ring, 0), d)
<1> DEFINE o == At(Ring, 0)
<1>1. Ring \notin Chains
  BY ChainNamesAssumption
<1>2. o \in Places /\ o.at = Ring /\ o.i = 0
  BY PlacesAre
<1>3. TxWrap(p.i) = TxWrap(o.i)
  BY <1>2 DEF TxWrap
<1> HIDE DEF o
<1>4. \A q, C, i : ComesTo(q, C, p, i) => ComesTo(q, C, o, i)
  BY <1>1, <1>2, <1>3 DEF ComesTo
<1>5. RingMode(s, p, d) => RingMode(s, o, d)
  BY <1>4 DEF RingMode
<1>6. ToChain(s, p, d) => ToChain(s, o, d)
  BY <1>4 DEF ToChain
<1>7. ChainMode(s, p, d) => ChainMode(s, o, d)
  <2> SUFFICES ASSUME ChainMode(s, p, d), QueueOK(Queue(s.t), s.c, s.t.api_dcb_chain_end)
               PROVE  ChainMode(s, o, d)
    BY DEF TxOK
  <2>1. PICK m \in 1 .. Len(Queue(s.t)) :
           /\ s.halt = LastDcb(Queue(s.t)[m])
           /\ \/ ToChain(s, p, d)
              \/ SkbsFrom(s.t, d) /\ \E k \in 1 .. m : InChain(Queue(s.t), s.c, p, k)
    BY DEF ChainMode
  <2>2. ASSUME NEW k \in 1 .. m PROVE ~InChain(Queue(s.t), s.c, p, k)
    <3> DEFINE q == Queue(s.t)
    <3>1. q \in Seq(Chains)
      BY DEF QueueOK
    <3> HIDE DEF q
    <3>2. k \in 1 .. Len(q)
      BY <3>1, <2>1 DEF q
    <3>3. q[k] \in Chains
      BY <3>1, <3>2
    <3> QED
      BY <1>1, <3>3 DEF InChain, q
  <2> QED
    BY <1>6, <2>1, <2>2 DEF ChainMode
<1> QED
  BY <1>2, <1>5, <1>7 DEF TxOK, o

LEMMA RingMoves ==
    ASSUME NEW s, NEW p, NEW d, TxOK(s, p, d), p # s.halt, p.at = Ring, p.i \in TxDcbs,
           NEW u \in TxParts, u.t = MarkDcb(s.t, p.i), u.c = s.c, u.halt = s.halt,
           NEW o, o = IF s.t.dcb[p.i] \in Chains THEN At(s.t.dcb[p.i], 1) ELSE At(Ring, p.i + 1)
    PROVE  d + 1 \in 0 .. MAX_TX_DCBS /\ TxOK(u, o, d + 1)
<1> DEFINE q == Queue(s.t)
           C == s.c
           t == s.t
           v == u.t
           i == p.i
<1>1. /\ s \in TxParts /\ t \in TxType /\ p \in Places /\ TxRingOK(t, d)
      /\ QueueOK(q, C, t.api_dcb_chain_end) /\ q \in Seq(Chains)
  BY DEF TxOK, TxParts, QueueOK
<1>2. Ring \notin Chains /\ "skb" \notin Chains
  BY ChainNamesAssumption
<1>3. /\ t.dirty \in TxDcbs /\ t.cur \in TxDcbs /\ Used(t) \in 0 .. MAX_TX_DCBS - 1 /\ d \in 0 .. Used(t)
      /\ t.cur = TxWrap(t.dirty + Used(t))
      /\ \A k \in 0 .. MAX_TX_DCBS - 1 :
            TxWrap(t.dirty + k) \in TxDcbs /\ TxAhead(t, TxWrap(t.dirty + k)) = k
  BY <1>1, RingFacts DEF TxRingOK
<1>4. p = At(Ring, i) /\ TxWrap(i) = i
  <2>1. p = At(Ring, p.i)
    BY <1>1, <1>2, PlacesAre
  <2> QED
    BY <2>1 DEF TxWrap, TxDcbs
<1>5. \A x : ComesTo(q, C, p, x) => i = x
  BY <1>2, <1>4 DEF ComesTo
<1> HIDE DEF q, C, t, v, i
<1>6. ASSUME d < Used(t), i = TxWrap(t.dirty + d)
      PROVE  /\ v \in TxType /\ SameApi(t, v)
             /\ v.dirty = t.dirty /\ v.cur = t.cur /\ v.dcb = t.dcb /\ Used(v) = Used(t)
             /\ TxRingOK(v, d + 1) /\ TxWrap(i + 1) = TxWrap(t.dirty + (d + 1))
             /\ \A n : SkbsFrom(t, n) => SkbsFrom(v, n)
             /\ Queue(v) = q
             /\ SkbsFrom(t, d) => SkbsFrom(t, d + 1)
  <2>1. v = MarkDcb(t, i)
    BY DEF v, t, i
  <2>2. /\ v \in TxType /\ SameApi(t, v)
        /\ v.dirty = t.dirty /\ v.cur = t.cur /\ v.dcb = t.dcb /\ Used(v) = Used(t)
        /\ TxRingOK(v, d + 1) /\ TxWrap(i + 1) = TxWrap(t.dirty + (d + 1))
        /\ \A n : SkbsFrom(t, n) => SkbsFrom(v, n)
    BY <1>1, <1>6, <2>1, Mark
  <2>3. Queue(v) = q
    BY <2>2 DEF Queue, SameApi, q, t
  <2>4. SkbsFrom(t, d) => SkbsFrom(t, d + 1)
    <3>1. \A x \in TxDcbs : d + 1 <= TxAhead(t, x) => d <= TxAhead(t, x)
      BY <1>3 DEF TxAhead, TxDcbs
    <3> QED
      BY <3>1 DEF SkbsFrom
  <2> QED
    BY <2>2, <2>3, <2>4
<1>7. QueueOK(q, u.c, t.api_dcb_chain_end)
  BY <1>1 DEF C
<1>8. CASE RingMode(s, p, d)
  <2>1. ~t.api_active /\ s.halt = At(Ring, t.cur) /\ i = TxWrap(t.dirty + d) /\ Fresh(q, C, 1) /\ SkbsFrom(t, d)
    BY <1>5, <1>8 DEF RingMode, q, C, t
  <2>2. d < Used(t)
    <3>1. d # Used(t)
      BY <1>3, <1>4, <2>1
    <3> QED
      BY <1>3, <3>1
  <2>3. t.dcb[i] = "skb"
    <3>1. i \in TxDcbs /\ TxAhead(t, i) = d
      BY <1>3, <2>1, <2>2
    <3> QED
      BY <1>3, <2>1, <2>2, <3>1 DEF SkbsFrom
  <2>4. o = At(Ring, i + 1)
    BY <1>2, <2>3 DEF t, i
  <2>5. o \in Places /\ o.at = Ring /\ o.i = i + 1
    <3>1. i + 1 \in 0 .. MAX_TX_DCBS
      BY DEF i, TxDcbs
    <3> QED
      BY <2>4, <3>1, PlacesAre
  <2>6. ComesTo(q, C, o, TxWrap(v.dirty + (d + 1)))
    BY <1>6, <2>1, <2>2, <2>5 DEF ComesTo
  <2>7. RingMode(u, o, d + 1)
    BY <1>6, <2>1, <2>2, <2>6 DEF RingMode, v, SameApi, C
  <2> QED
    BY <1>3, <1>6, <1>7, <2>1, <2>2, <2>5, <2>7 DEF TxOK, v, SameApi
<1>9. CASE ChainMode(s, p, d)
  <2>1. PICK m \in 1 .. Len(q) :
           /\ s.halt = LastDcb(q[m])
           /\ \/ ToChain(s, p, d)
              \/ SkbsFrom(t, d) /\ \E k \in 1 .. m : InChain(q, C, p, k)
    BY <1>9 DEF ChainMode, q, C, t
  <2>2. ASSUME NEW k \in 1 .. m PROVE ~InChain(q, C, p, k)
    <3>1. q[k] \in Chains
      BY <1>1, <2>1
    <3>2. p.at = Ring
      OBVIOUS
    <3> QED
      BY <1>2, <3>1, <3>2 DEF InChain
  <2>3. ToChain(s, p, d)
    BY <2>1, <2>2
  <2>4. /\ d = 0 /\ Used(t) > 0 /\ t.dcb[t.dirty] = q[1] /\ SkbsFrom(t, 1)
        /\ i = t.dirty /\ Fresh(q, C, 1)
    BY <1>5, <2>3 DEF ToChain, t, q, C
  <2>5. d < Used(t) /\ i = TxWrap(t.dirty + d)
    BY <1>3, <2>4 DEF TxWrap, TxDcbs
  <2>6. 1 \in 1 .. Len(q) /\ q[1] \in Chains
    BY <1>1, <2>1
  <2>7. o = At(q[1], 1) /\ o \in Places /\ o.at = q[1] /\ o.i = 1
    <3>1. o = At(q[1], 1)
      BY <2>4, <2>6 DEF t, i
    <3>2. 1 \in 1 .. DCB_CNT + 1
      BY CdmaTxAssumption
    <3> QED
      BY <2>6, <3>1, <3>2, PlacesAre
  <2>8. InChain(q, C, o, 1)
    <3>1. C[q[1]].done = 0
      BY <2>4, <2>6 DEF Fresh
    <3>2. Fresh(q, C, 1 + 1)
      BY <2>4 DEF Fresh
    <3> QED
      BY <2>7, <3>1, <3>2 DEF InChain, Sent
  <2>9. SkbsFrom(v, d + 1)
    BY <1>6, <2>4, <2>5
  <2>10. ChainMode(u, o, d + 1)
    <3>1. v.api_active
      BY <1>6, <1>9, <2>5 DEF ChainMode, SameApi, t
    <3>2. Queue(v) = q /\ u.halt = LastDcb(q[m]) /\ 1 \in 1 .. m
      BY <1>6, <2>1, <2>5
    <3> QED
      BY <2>8, <2>9, <3>1, <3>2 DEF ChainMode, v, C
  <2> QED
    BY <1>3, <1>6, <1>7, <2>5, <2>7, <2>10 DEF TxOK, v, SameApi
<1> QED
  BY <1>8, <1>9 DEF TxOK

(* The channel has handled DCB i of chain c. *)
DcbSent(C, D, c, i) ==
    /\ D \in [Chains -> ChainType] /\ D[c].done = i
    /\ \A x \in Chains : /\ D[x].api = C[x].api /\ D[x].link = C[x].link
                         /\ x # c => D[x].done = C[x].done

LEMMA DcbSentIs ==
    ASSUME NEW C \in [Chains -> ChainType], NEW c \in Chains, NEW i \in 1 .. DCB_CNT + 1
    PROVE  DcbSent(C, [C EXCEPT ![c].done = i], c, i)
<1> DEFINE r == C[c]
           u == [r EXCEPT !.done = i]
           D == [C EXCEPT ![c] = u]
<1>1. r \in ChainType /\ i \in 0 .. DCB_CNT + 1
  BY CdmaTxAssumption
<1> HIDE DEF r
<1>2. u \in ChainType /\ u.api = r.api /\ u.done = i /\ u.link = r.link
  BY <1>1, SetDone
<1> HIDE DEF u
<1>3. D \in [Chains -> ChainType] /\ \A x \in Chains : D[x] = IF x = c THEN u ELSE C[x]
  BY <1>2
<1>4. D = [C EXCEPT ![c].done = i]
  BY DEF u, r
<1> HIDE DEF D
<1>5. DcbSent(C, D, c, i)
  BY <1>2, <1>3 DEF DcbSent, r
<1> QED
  BY <1>4, <1>5

LEMMA SentQueue ==
    ASSUME NEW q, NEW C, NEW D, NEW e, NEW c, NEW i, QueueOK(q, C, e), DcbSent(C, D, c, i)
    PROVE  QueueOK(q, D, e)
<1>1. q \in Seq(Chains) /\ \A k \in 1 .. Len(q) : q[k] \in Chains
  BY DEF QueueOK
<1>2. \A k \in 1 .. Len(q) - 1 : k \in 1 .. Len(q)
  BY <1>1
<1> QED
  BY <1>1, <1>2 DEF QueueOK, DcbSent

LEMMA ChainMoves ==
    ASSUME NEW s, NEW p, NEW d, TxOK(s, p, d), p # s.halt, p.at \in Chains,
           NEW u \in TxParts, u.t = s.t, DcbSent(s.c, u.c, p.at, p.i), u.halt = s.halt,
           NEW o, o = IF p.i = DCB_CNT + 1 THEN s.c[p.at].link ELSE At(p.at, p.i + 1)
    PROVE  TxOK(u, o, d)
<1> DEFINE q == Queue(s.t)
           C == s.c
           D == u.c
           t == s.t
           c == p.at
           i == p.i
<1>1. /\ s \in TxParts /\ t \in TxType /\ C \in [Chains -> ChainType] /\ p \in Places /\ TxRingOK(t, d)
      /\ QueueOK(q, C, t.api_dcb_chain_end) /\ q \in Seq(Chains)
  BY DEF TxOK, TxParts, QueueOK
<1>2. Ring \notin Chains
  BY ChainNamesAssumption
<1>3. i \in 1 .. DCB_CNT + 1 /\ p = At(c, i) /\ c \in Chains
  BY <1>1, <1>2, PlacesAre
<1>4. QueueOK(q, D, t.api_dcb_chain_end)
  BY <1>1, SentQueue
<1>5. /\ D \in [Chains -> ChainType] /\ D[c].done = i
      /\ \A x \in Chains : x # c => D[x].done = C[x].done
  BY DEF DcbSent
<1> HIDE DEF q, C, D, t, c, i
<1>6. Len(q) \in Nat /\ \A k \in 1 .. Len(q) : q[k] \in Chains
  BY <1>1
<1>7. TxWrap(t.dirty + d) \in TxDcbs /\ t.dirty \in TxDcbs
  <2>1. /\ t.dirty \in TxDcbs /\ Used(t) \in 0 .. MAX_TX_DCBS - 1 /\ d \in 0 .. Used(t)
        /\ \A k \in 0 .. MAX_TX_DCBS - 1 : TxWrap(t.dirty + k) \in TxDcbs
    BY <1>1, RingFacts
  <2>2. d \in 0 .. MAX_TX_DCBS - 1
    BY <2>1
  <2> QED
    BY <2>1, <2>2
<1>8. ASSUME NEW x \in TxDcbs, ComesTo(q, C, p, x), Fresh(q, C, 1)
      PROVE  /\ o \in Places /\ ComesTo(q, D, o, x) /\ Fresh(q, D, 1)
             /\ \A k \in 1 .. Len(q) : q[k] # c
  <2>1. /\ i = DCB_CNT + 1 /\ C[c].link = At(Ring, x)
        /\ \A k \in 1 .. Len(q) : q[k] # c
    BY <1>2, <1>3, <1>8 DEF ComesTo, c, i
  <2>2. o = At(Ring, x)
    BY <2>1 DEF i, c, C
  <2>3. o \in Places /\ o.at = Ring /\ o.i = x
    <3>1. x \in 0 .. MAX_TX_DCBS
      BY DEF TxDcbs
    <3> QED
      BY <2>2, <3>1, PlacesAre
  <2>4. TxWrap(x) = x
    BY DEF TxWrap, TxDcbs
  <2>5. Fresh(q, D, 1)
    BY <1>5, <1>6, <1>8, <2>1 DEF Fresh
  <2> QED
    BY <2>1, <2>3, <2>4, <2>5 DEF ComesTo
<1>9. CASE RingMode(s, p, d)
  <2>1. ~t.api_active /\ ComesTo(q, C, p, TxWrap(t.dirty + d)) /\ Fresh(q, C, 1)
    BY <1>9 DEF RingMode, q, C, t
  <2>2. o \in Places /\ ComesTo(q, D, o, TxWrap(t.dirty + d)) /\ Fresh(q, D, 1)
    BY <1>7, <1>8, <2>1
  <2>3. RingMode(u, o, d)
    BY <1>9, <2>2 DEF RingMode, q, D, t
  <2> QED
    BY <1>1, <1>4, <2>2, <2>3 DEF TxOK, q, D, t
<1>10. CASE ChainMode(s, p, d)
  <2>1. PICK m \in 1 .. Len(q) :
           /\ s.halt = LastDcb(q[m])
           /\ \/ ToChain(s, p, d)
              \/ SkbsFrom(t, d) /\ \E k \in 1 .. m : InChain(q, C, p, k)
    BY <1>10 DEF ChainMode, q, C, t
  <2>2. CASE ToChain(s, p, d)
    <3>1. ComesTo(q, C, p, t.dirty) /\ Fresh(q, C, 1)
      BY <2>2 DEF ToChain, q, C, t
    <3>2. o \in Places /\ ComesTo(q, D, o, t.dirty) /\ Fresh(q, D, 1)
      BY <1>7, <1>8, <3>1
    <3>3. ToChain(u, o, d)
      BY <2>2, <3>2 DEF ToChain, q, D, t
    <3>4. ChainMode(u, o, d)
      BY <1>10, <2>1, <3>3 DEF ChainMode, q
    <3> QED
      BY <1>1, <1>4, <3>2, <3>4 DEF TxOK, q, D, t
  <2>3. CASE SkbsFrom(t, d) /\ \E k \in 1 .. m : InChain(q, C, p, k)
    <3>1. PICK k \in 1 .. m : InChain(q, C, p, k)
      BY <2>3
    <3>2. k \in 1 .. Len(q) /\ c = q[k] /\ Sent(q, C, k) /\ Fresh(q, C, k + 1)
      BY <1>6, <3>1 DEF InChain, c
    <3>3. \A j \in 1 .. Len(q) : j # k => q[j] # c /\ q[j] \in Chains /\ D[q[j]].done = C[q[j]].done
      BY <1>1, <1>5, <1>6, <3>2 DEF QueueOK
    <3>4. Sent(q, D, k) /\ Fresh(q, D, k + 1)
      <4>1. \A j \in 1 .. k - 1 : j \in 1 .. Len(q) /\ j # k
        BY <1>6, <3>2
      <4>2. \A j \in k + 1 .. Len(q) : j \in 1 .. Len(q) /\ j # k
        BY <1>6, <3>2
      <4>3. Sent(q, D, k)
        BY <3>2, <3>3, <4>1 DEF Sent
      <4>4. Fresh(q, D, k + 1)
        BY <3>2, <3>3, <4>2 DEF Fresh
      <4> QED
        BY <4>3, <4>4
    <3>5. PICK n \in 1 .. m : o \in Places /\ InChain(q, D, o, n)
      <4>1. CASE i # DCB_CNT + 1
        <5>1. o = At(c, i + 1) /\ i + 1 \in 1 .. DCB_CNT + 1
          BY <1>3, <4>1, CdmaTxAssumption DEF c, i
        <5>2. o \in Places /\ o.at = c /\ o.i = i + 1
          BY <1>3, <5>1, PlacesAre
        <5>3. D[q[k]].done = o.i - 1
          <6>1. D[q[k]].done = i
            BY <1>5, <3>2
          <6>2. i \in Int /\ o.i = i + 1
            BY <1>3, <5>2
          <6>3. \A x : x = i + 1 => i = x - 1
            BY <6>2
          <6>4. i = o.i - 1
            BY <6>2, <6>3
          <6> QED
            BY <6>1, <6>4
        <5> QED
          BY <3>2, <3>4, <5>2, <5>3 DEF InChain
      <4>2. CASE i = DCB_CNT + 1
        <5>1. k # m
          <6> SUFFICES ASSUME k = m PROVE FALSE
            OBVIOUS
          <6>1. p = LastDcb(q[m])
            BY <1>3, <3>2, <4>2 DEF LastDcb
          <6> QED
            BY <2>1, <6>1
        <5>2. k \in 1 .. Len(q) - 1 /\ k + 1 \in 1 .. m /\ k + 1 \in 1 .. Len(q)
          BY <1>6, <2>1, <3>2, <5>1
        <5>3. C[q[k]].link = At(q[k + 1], 1)
          BY <1>1, <5>2 DEF QueueOK
        <5>4. o = At(q[k + 1], 1)
          BY <3>2, <4>2, <5>3 DEF i, c, C
        <5>5. o \in Places /\ o.at = q[k + 1] /\ o.i = 1
          <6>1. q[k + 1] \in Chains /\ 1 \in 1 .. DCB_CNT + 1
            BY <1>6, <5>2, CdmaTxAssumption
          <6> QED
            BY <5>4, <6>1, PlacesAre
        <5>6. D[q[k + 1]].done = o.i - 1
          <6>1. k + 1 \in k + 1 .. Len(q)
            BY <1>6, <5>2
          <6>2. D[q[k + 1]].done = 0
            BY <3>4, <6>1 DEF Fresh
          <6> QED
            BY <5>5, <6>2
        <5>7. Sent(q, D, k + 1)
          <6> SUFFICES ASSUME NEW j \in 1 .. (k + 1) - 1 PROVE D[q[j]].done = DCB_CNT + 1
            BY DEF Sent
          <6>1. j = k \/ j \in 1 .. k - 1
            BY <3>2
          <6>2. D[q[k]].done = DCB_CNT + 1
            BY <1>5, <3>2, <4>2
          <6> QED
            BY <3>4, <6>1, <6>2 DEF Sent
        <5>8. Fresh(q, D, (k + 1) + 1)
          <6>1. \A j \in (k + 1) + 1 .. Len(q) : j \in k + 1 .. Len(q)
            BY <1>6, <3>2
          <6> QED
            BY <3>4, <6>1 DEF Fresh
        <5>9. InChain(q, D, o, k + 1)
          BY <5>5, <5>6, <5>7, <5>8 DEF InChain
        <5> QED
          BY <5>2, <5>5, <5>9
      <4> QED
        BY <4>1, <4>2
    <3>6. ChainMode(u, o, d)
      BY <1>10, <2>1, <2>3, <3>5 DEF ChainMode, q, D, t
    <3> QED
      BY <1>1, <1>4, <3>5, <3>6 DEF TxOK, q, D, t
  <2> QED
    BY <2>1, <2>2, <2>3
<1> QED
  BY <1>9, <1>10 DEF TxOK

(* HwTx, and its three steps. *)
LEMMA TxHwStep ==
    ASSUME NEW d \in 0 .. MAX_TX_DCBS, TxInv(d), HwTx
    PROVE  \E n \in 0 .. MAX_TX_DCBS : TxInv(n)'
<1> DEFINE p == txhw.pos
           o == txhw'.pos
<1>1. /\ CdmaTxTypeOK /\ TxOK(State, p, d) /\ State \in TxParts
      /\ State.t = tx /\ State.c = chain /\ State.halt = txhw.halt
      /\ tx \in TxType /\ chain \in [Chains -> ChainType] /\ txhw.halt \in Places
      /\ txhw \in [pos : Places, halt : Places] /\ p # txhw.halt /\ p \in Places
  BY TxStateIs DEF TxInv, CdmaTxTypeOK, HwTx
<1>2. UNCHANGED <<txh, skb, tx_resets>>
  BY DEF HwTx
<1>3. SUFFICES /\ tx' \in TxType /\ chain' \in [Chains -> ChainType] /\ txhw'.halt = txhw.halt
               /\ txhw' \in [pos : Places, halt : Places]
               /\ \E n \in 0 .. MAX_TX_DCBS : TxOK(State', o, n)
  <2>1. PICK n \in 0 .. MAX_TX_DCBS : TxOK(State', o, n)
    BY <1>3
  <2>2. TxOK(State, txhw.pos, n)'
    BY <2>1
  <2>3. CdmaTxTypeOK'
    BY <1>1, <1>2, <1>3 DEF CdmaTxTypeOK
  <2>4. TxInv(n)'
    BY <1>1, <1>2, <2>2, <2>3 DEF TxInv
  <2> QED
    BY <2>4
<1>4. CASE HwTxRing /\ p.i = MAX_TX_DCBS
  <2> DEFINE b == TRUE
             v == [tx EXCEPT !.irq = b]
             u == [t |-> v, c |-> chain, halt |-> txhw.halt]
  <2>1. p.at = Ring /\ tx' = v /\ txhw' = [txhw EXCEPT !.pos = At(Ring, 0)] /\ chain' = chain
    BY <1>4 DEF HwTxRing, TxDcbs
  <2>2. TxOK(State, At(Ring, 0), d)
    BY <1>1, <1>4, <2>1, ReloadRing
  <2>3. b \in BOOLEAN
    OBVIOUS
  <2> HIDE DEF b
  <2>4. v \in TxType /\ SameTx(tx, v)
    BY <1>1, <2>3, SetFlag
  <2> HIDE DEF v
  <2>5. At(Ring, 0) \in Places
    BY PlacesAre
  <2>6. txhw' \in [pos : Places, halt : Places] /\ o = At(Ring, 0) /\ txhw'.halt = txhw.halt
    BY <1>1, <2>1, <2>5
  <2>7. u \in TxParts /\ u.t = v /\ u.c = chain /\ u.halt = txhw.halt /\ State' = u
    BY <1>1, <2>1, <2>4, <2>6 DEF TxParts, State
  <2> HIDE DEF u
  <2>8. TxOK(u, At(Ring, 0), d)
    BY <1>1, <2>2, <2>4, <2>7, SameOK
  <2> QED
    BY <1>1, <2>1, <2>4, <2>6, <2>7, <2>8
<1>5. CASE HwTxRing /\ p.i # MAX_TX_DCBS
  <2> DEFINE v == MarkDcb(tx, p.i)
             u == [t |-> v, c |-> chain, halt |-> txhw.halt]
             w == IF tx.dcb[p.i] \in Chains THEN At(tx.dcb[p.i], 1) ELSE At(Ring, p.i + 1)
  <2>1. p.at = Ring /\ p.i \in TxDcbs /\ tx' = v /\ txhw' = [txhw EXCEPT !.pos = w] /\ chain' = chain
    BY <1>5 DEF HwTxRing, MarkDcb
  <2>2. v \in TxType
    BY <1>1, <2>1, MarkType
  <2> HIDE DEF v
  <2>3. u \in TxParts /\ u.t = v /\ u.c = chain /\ u.halt = txhw.halt
    BY <1>1, <2>2 DEF TxParts
  <2> HIDE DEF u, w
  <2>4. d + 1 \in 0 .. MAX_TX_DCBS /\ TxOK(u, w, d + 1)
    <3>1. u.t = MarkDcb(State.t, p.i) /\ u.c = State.c /\ u.halt = State.halt /\ p # State.halt
      BY <1>1, <2>3 DEF v
    <3>2. w = IF State.t.dcb[p.i] \in Chains THEN At(State.t.dcb[p.i], 1) ELSE At(Ring, p.i + 1)
      BY <1>1 DEF w
    <3> HIDE DEF p
    <3> QED
      BY <1>1, <2>1, <2>3, <3>1, <3>2, RingMoves
  <2>5. w \in Places
    BY <2>4 DEF TxOK
  <2>6. txhw' \in [pos : Places, halt : Places] /\ o = w /\ txhw'.halt = txhw.halt
    BY <1>1, <2>1, <2>5
  <2>7. State' = u
    BY <2>1, <2>6 DEF State, u
  <2> QED
    BY <1>1, <2>1, <2>2, <2>4, <2>6, <2>7
<1>6. CASE HwTxChain
  <2> DEFINE c == p.at
             i == p.i
             D == [chain EXCEPT ![c].done = i]
             w == IF i = DCB_CNT + 1 THEN chain[c].link ELSE At(c, i + 1)
             x == [State EXCEPT !.c = D]
  <2>1. c \in Chains /\ txhw' = [txhw EXCEPT !.pos = w] /\ chain' = D
    BY <1>6 DEF HwTxChain
  <2>2. PICK irq \in BOOLEAN : tx' = [tx EXCEPT !.irq = @ \/ irq]
    BY <1>6 DEF HwTxChain
  <2> DEFINE b == tx.irq \/ irq
             v == [tx EXCEPT !.irq = b]
             u == [t |-> v, c |-> D, halt |-> txhw.halt]
  <2>3. tx' = v
    BY <2>2
  <2>4. b \in BOOLEAN
    BY <1>1 DEF TxType
  <2> HIDE DEF b
  <2>5. v \in TxType /\ SameTx(tx, v)
    BY <1>1, <2>4, SetFlag
  <2> HIDE DEF v
  <2>6. i \in 1 .. DCB_CNT + 1
    BY <1>1, <2>1, PlacesAre, ChainNamesAssumption
  <2>7. DcbSent(chain, D, c, i)
    BY <1>1, <2>1, <2>6, DcbSentIs
  <2> HIDE DEF D
  <2>8. D \in [Chains -> ChainType]
    BY <2>7 DEF DcbSent
  <2>9. x \in TxParts /\ x.t = tx /\ x.c = D /\ x.halt = txhw.halt
    BY <1>1, <2>8 DEF TxParts
  <2>10. u \in TxParts /\ u.t = v /\ u.c = D /\ u.halt = txhw.halt
    BY <1>1, <2>5, <2>8 DEF TxParts
  <2> HIDE DEF x, u, w
  <2>11. TxOK(x, w, d)
    <3>1. x.t = State.t /\ x.halt = State.halt /\ p # State.halt /\ DcbSent(State.c, x.c, p.at, p.i) /\ p.at \in Chains
      BY <1>1, <2>1, <2>7, <2>9
    <3>2. w = IF p.i = DCB_CNT + 1 THEN State.c[p.at].link ELSE At(p.at, p.i + 1)
      BY <1>1 DEF w
    <3> HIDE DEF p
    <3> QED
      BY <1>1, <2>9, <3>1, <3>2, ChainMoves
  <2>12. TxOK(u, w, d)
    BY <2>5, <2>9, <2>10, <2>11, SameOK
  <2>13. w \in Places
    BY <2>11 DEF TxOK
  <2>14. txhw' \in [pos : Places, halt : Places] /\ o = w /\ txhw'.halt = txhw.halt
    BY <1>1, <2>1, <2>13
  <2>15. State' = u
    BY <2>1, <2>3, <2>14 DEF State, u
  <2> QED
    BY <1>1, <2>1, <2>3, <2>5, <2>8, <2>12, <2>14, <2>15
<1> QED
  BY <1>4, <1>5, <1>6 DEF HwTx

(* bkn_init_dcbs. *)
LEMMA EmptyType == EmptyRing \in TxType
<1> DEFINE A == [TxDcbs -> {"free", "skb"} \cup Chains]
           B == [TxDcbs -> BOOLEAN]
           C == 0 .. MAX_TX_DCBS
           E == BOOLEAN
           F == Seq(Chains)
           G == Chains \cup {NoChain}
           f == [i \in TxDcbs |-> "free"]
           g == [i \in TxDcbs |-> FALSE]
           no == FALSE
<1>1. TxType = TxFields(A, B, C, TxDcbs, E, F, G)
  BY TxTypeIs
<1>2. /\ f \in A /\ g \in B /\ MAX_TX_DCBS \in C /\ 0 \in TxDcbs /\ no \in E /\ <<>> \in F
      /\ NoChain \in G
  BY DEF TxDcbs
<1>3. EmptyRing = [dcb |-> f, done |-> g, free |-> MAX_TX_DCBS, cur |-> 0, dirty |-> 0,
                   api_active |-> no, api_dcb_list |-> <<>>,
                   api_dcb_chain |-> NoChain, api_dcb_chain_end |-> NoChain,
                   stopped |-> no, yield |-> no, irq |-> no]
  BY DEF EmptyRing
<1> HIDE DEF A, B, C, E, F, G, f, g, no
<1> QED
  BY <1>1, <1>2, <1>3 DEF TxFields

(* hw_init leaves the queue as it is, stopped or not. *)
LEMMA ResetType ==
    ASSUME CdmaTxTypeOK, NEW v, v = [EmptyRing EXCEPT !.stopped = tx.stopped, !.yield = tx.yield]
    PROVE  v \in TxType /\ SameTx(EmptyRing, v)
<1> DEFINE b == tx.stopped
           y == tx.yield
           v1 == [EmptyRing EXCEPT !.stopped = b]
           v2 == [v1 EXCEPT !.yield = y]
<1>1. v = v2
  BY DEF EmptyRing
<1>2. b \in BOOLEAN /\ y \in BOOLEAN
  BY DEF CdmaTxTypeOK, TxType
<1> HIDE DEF b, y
<1>3. v1 \in TxType /\ SameTx(EmptyRing, v1)
  BY <1>2, EmptyType, SetFlag
<1> HIDE DEF v1
<1>4. v2 \in TxType /\ SameTx(v1, v2)
  BY <1>2, <1>3, SetFlag
<1> HIDE DEF v2
<1> QED
  BY <1>1, <1>3, <1>4 DEF SameTx

LEMMA EmptyOK ==
    ASSUME NEW v \in TxType, SameTx(EmptyRing, v)
    PROVE  /\ NoChains \in [Chains -> ChainType] /\ At(Ring, 0) \in Places
           /\ TxOK([t |-> v, c |-> NoChains, halt |-> At(Ring, 0)], At(Ring, 0), 0)
<1>1. EmptyRing \in TxType
  BY EmptyType
<1>2. At(Ring, 0) \in Places /\ At(Ring, 0).at = Ring /\ At(Ring, 0).i = 0 /\ NoLink \in Places
  BY PlacesAre DEF NoLink
<1>3. NoChains \in [Chains -> ChainType]
  <2>1. 0 \in 0 .. DCB_CNT + 1
    BY CdmaTxAssumption
  <2> QED
    BY <1>2, <2>1 DEF NoChains, ChainType
<1> DEFINE s == [t |-> EmptyRing, c |-> NoChains, halt |-> At(Ring, 0)]
           u == [t |-> v, c |-> NoChains, halt |-> At(Ring, 0)]
<1>4. s \in TxParts /\ s.t = EmptyRing /\ s.c = NoChains /\ s.halt = At(Ring, 0)
  BY <1>1, <1>2, <1>3 DEF TxParts
<1>5. u \in TxParts /\ u.t = v /\ u.c = NoChains /\ u.halt = At(Ring, 0)
  BY <1>2, <1>3 DEF TxParts
<1>6. /\ ~EmptyRing.api_active /\ Queue(EmptyRing) = <<>> /\ EmptyRing.api_dcb_chain_end = NoChain
       /\ EmptyRing.cur = 0 /\ EmptyRing.dirty = 0 /\ EmptyRing.free = MAX_TX_DCBS
       /\ Used(EmptyRing) = 0
  BY DEF EmptyRing, Queue, Used
<1> HIDE DEF s, u
<1>7. \A i \in TxDcbs : ~(TxAhead(EmptyRing, i) < Used(EmptyRing))
  BY <1>6 DEF TxAhead, TxDcbs
<1>8. TxRingOK(EmptyRing, 0) /\ SkbsFrom(EmptyRing, 0)
  BY <1>6, <1>7 DEF TxRingOK, SkbsFrom, TxWrap
<1>9. QueueOK(<<>>, NoChains, NoChain) /\ Fresh(<<>>, NoChains, 1)
  BY DEF QueueOK, Fresh
<1>10. ComesTo(<<>>, NoChains, At(Ring, 0), TxWrap(0 + 0))
  BY <1>2 DEF ComesTo
<1>11. RingMode(s, At(Ring, 0), 0)
  BY <1>4, <1>6, <1>8, <1>9, <1>10 DEF RingMode
<1>12. TxOK(s, At(Ring, 0), 0)
  BY <1>2, <1>4, <1>6, <1>8, <1>9, <1>11 DEF TxOK
<1>13. TxOK(u, At(Ring, 0), 0)
  BY <1>4, <1>5, <1>12, SameOK
<1> QED
  BY <1>2, <1>3, <1>13 DEF u

LEMMA TxInit ==
    ASSUME CdmaTxInit
    PROVE  CdmaTxIInv
<1>1. /\ tx = EmptyRing /\ chain = NoChains /\ txhw = [pos |-> At(Ring, 0), halt |-> At(Ring, 0)]
      /\ skb = FALSE /\ tx_resets = 0
  BY DEF CdmaTxInit
<1>2. SameTx(EmptyRing, EmptyRing)
  BY DEF SameTx
<1>3. /\ EmptyRing \in TxType /\ NoChains \in [Chains -> ChainType] /\ At(Ring, 0) \in Places
      /\ TxOK([t |-> EmptyRing, c |-> NoChains, halt |-> At(Ring, 0)], At(Ring, 0), 0)
  BY <1>2, EmptyOK, EmptyType
<1>4. txh \in [pc : {"idle", "latched", "done"}, done : 0 .. MAX_TX_DCBS, behind : BOOLEAN]
  BY DEF CdmaTxInit
<1>5. CdmaTxTypeOK
  <2>1. tx_resets \in 0 .. MAX_TX_RESETS /\ skb \in BOOLEAN
    <3>1. 0 \in 0 .. MAX_TX_RESETS /\ FALSE \in BOOLEAN
      BY CdmaTxAssumption
    <3> QED
      BY <1>1, <3>1, Zenon
  <2>2. txhw \in [pos : Places, halt : Places]
    BY <1>1, <1>3
  <2> QED
    BY <1>1, <1>3, <1>4, <2>1, <2>2 DEF CdmaTxTypeOK
<1>6. TxOK(State, txhw.pos, 0)
  <2>1. txhw.pos = At(Ring, 0) /\ txhw.halt = At(Ring, 0)
    BY <1>1
  <2>2. State = [t |-> EmptyRing, c |-> NoChains, halt |-> At(Ring, 0)]
    BY <1>1, <2>1 DEF State
  <2> QED
    BY <1>3, <2>1, <2>2
<1> QED
  BY <1>5, <1>6 DEF CdmaTxIInv

LEMMA ResetStep ==
    ASSUME CdmaTxTypeOK, bkn_knet_hw_init_tx
    PROVE  TxInv(0)'
<1> DEFINE v == [EmptyRing EXCEPT !.stopped = tx.stopped, !.yield = tx.yield]
<1>1. CdmaTxTypeOK
  OBVIOUS
<1>2. /\ tx' = v /\ chain' = NoChains /\ txhw' = [pos |-> At(Ring, 0), halt |-> At(Ring, 0)]
      /\ txh' = [txh EXCEPT !.behind = FALSE] /\ UNCHANGED skb
  BY DEF bkn_knet_hw_init_tx
<1>3. v \in TxType /\ SameTx(EmptyRing, v)
  BY <1>1, ResetType
<1> HIDE DEF v
<1>4. /\ NoChains \in [Chains -> ChainType] /\ At(Ring, 0) \in Places
      /\ TxOK([t |-> v, c |-> NoChains, halt |-> At(Ring, 0)], At(Ring, 0), 0)
  BY <1>3, EmptyOK
<1>5. tx_resets' \in 0 .. MAX_TX_RESETS
  BY <1>1, CdmaTxAssumption DEF bkn_knet_hw_init_tx, CdmaTxTypeOK
<1>6. CdmaTxTypeOK'
  BY <1>1, <1>2, <1>3, <1>4, <1>5 DEF CdmaTxTypeOK
<1>7. State' = [t |-> v, c |-> NoChains, halt |-> At(Ring, 0)]
  BY <1>2 DEF State
<1>8. TxOK(State', txhw'.pos, 0)
  BY <1>2, <1>4, <1>7
<1> QED
  BY <1>6, <1>8 DEF TxInv

LEMMA CdmaTxInductive ==
    ASSUME CdmaTxIInv, [CdmaTxNext]_txvars, ~txh'.behind
    PROVE  CdmaTxIInv'
<1>1. PICK d \in 0 .. MAX_TX_DCBS : TxInv(d)
  BY TxInvIs
<1>2. SUFFICES \E n \in 0 .. MAX_TX_DCBS : TxInv(n)'
  BY DEF CdmaTxIInv, TxInv
<1>3. 0 \in 0 .. MAX_TX_DCBS
  OBVIOUS
<1>4. CASE StackXmit
  BY <1>1, <1>4, StackXmitStep
<1>5. CASE bkn_tx
  BY <1>1, <1>5, TxStep
<1>6. ASSUME NEW c \in Chains, bkn_knet_dma_info_tx(c)
      PROVE  \E n \in 0 .. MAX_TX_DCBS : TxInv(n)'
  BY <1>1, <1>6, DmaInfoStep
<1>7. CASE DmaTxLatch
  BY <1>1, <1>7, TxLatchStep
<1>8. CASE bkn_do_tx
  BY <1>1, <1>3, <1>8, DoTxStep
<1>9. CASE bkn_tx_cdma_chain_done
  BY <1>1, <1>9, ChainDoneStep
<1>10. CASE HwTx
  BY <1>1, <1>10, TxHwStep
<1>11. CASE bkn_knet_hw_init_tx
  BY <1>1, <1>3, <1>11, ResetStep DEF TxInv
<1>12. CASE UNCHANGED txvars
  <2>1. TxInv(d)'
    BY <1>1, <1>12 DEF txvars, TxInv, CdmaTxTypeOK, State
  <2> QED
    BY <2>1
<1> QED
  BY <1>4, <1>5, <1>6, <1>7, <1>8, <1>9, <1>10, <1>11, <1>12 DEF CdmaTxNext

(* The invariant says where the channel is: when it may go on, its DCB is  *)
(* one that waits to be sent, or a reload DCB with its address set.        *)
LEMMA CdmaTxSafe ==
    ASSUME CdmaTxIInv
    PROVE  CdmaTxOnPending
<1> DEFINE p == txhw.pos
           q == Queue(tx)
           pending == \/ p = At(Ring, MAX_TX_DCBS)
                      \/ p.at = Ring /\ p.i \in TxInUse /\ tx.dcb[p.i] # "free" /\ ~tx.done[p.i]
                      \/ /\ p.at \in Chains /\ chain[p.at].done = p.i - 1
                         /\ \/ p.i <= DCB_CNT /\ chain[p.at].api
                            \/ p.i = DCB_CNT + 1 /\ chain[p.at].link # NoLink
<1>1. PICK d \in 0 .. MAX_TX_DCBS : TxOK(State, p, d)
  BY DEF CdmaTxIInv
<1>2. /\ State.t = tx /\ State.c = chain /\ State.halt = txhw.halt /\ tx \in TxType
      /\ chain \in [Chains -> ChainType] /\ p \in Places
  BY TxStateIs DEF CdmaTxIInv, CdmaTxTypeOK
<1>3. TxRingOK(tx, d) /\ QueueOK(q, chain, tx.api_dcb_chain_end) /\ q \in Seq(Chains)
  BY <1>1, <1>2 DEF TxOK, QueueOK
<1>4. /\ tx.dirty \in TxDcbs /\ tx.cur \in TxDcbs /\ tx.free \in 1 .. MAX_TX_DCBS
      /\ Used(tx) = MAX_TX_DCBS - tx.free /\ Used(tx) \in 0 .. MAX_TX_DCBS - 1 /\ d \in 0 .. Used(tx)
      /\ tx.cur = TxWrap(tx.dirty + Used(tx))
      /\ \A k \in 0 .. MAX_TX_DCBS - 1 :
            TxWrap(tx.dirty + k) \in TxDcbs /\ TxAhead(tx, TxWrap(tx.dirty + k)) = k
  BY <1>2, <1>3, RingFacts DEF TxRingOK
<1>5. Ring \notin Chains
  BY ChainNamesAssumption
<1> SUFFICES ASSUME p # txhw.halt PROVE pending
  BY DEF CdmaTxOnPending
<1> HIDE DEF p, q
(* It comes to a DCB of the ring that is in use. *)
<1>6. ASSUME d < Used(tx), ComesTo(q, chain, p, TxWrap(tx.dirty + d))
      PROVE  pending
  <2> DEFINE i == TxWrap(tx.dirty + d)
  <2>1. i \in TxDcbs /\ TxAhead(tx, i) = d
    BY <1>4, <1>6
  <2> HIDE DEF i
  <2>2. CASE p.at = Ring /\ TxWrap(p.i) = i
    <3>1. p.i \in 0 .. MAX_TX_DCBS /\ p = At(Ring, p.i)
      BY <1>2, <1>5, <2>2, PlacesAre
    <3>2. CASE p.i = MAX_TX_DCBS
      BY <3>1, <3>2
    <3>3. CASE p.i # MAX_TX_DCBS
      <4>1. p.i = i
        BY <2>2, <3>1, <3>3 DEF TxWrap
      <4>2. tx.dcb[i] # "free" /\ ~tx.done[i]
        BY <1>3, <1>4, <1>6, <2>1 DEF TxRingOK
      <4>3. i \in TxInUse
        BY <1>4, <1>6, <2>1 DEF TxInUse, TxAhead, TxDcbs
      <4> QED
        BY <2>2, <4>1, <4>2, <4>3
    <3> QED
      BY <3>2, <3>3
  <2>3. CASE /\ p.at \in Chains /\ p.i = DCB_CNT + 1
             /\ chain[p.at].done = DCB_CNT /\ chain[p.at].link = At(Ring, i)
    <3>1. At(Ring, i) # NoLink
      BY <2>1 DEF At, NoLink, TxDcbs
    <3>2. chain[p.at].done = p.i - 1
      BY <2>3, CdmaTxAssumption
    <3> QED
      BY <2>3, <3>1, <3>2
  <2> QED
    BY <1>6, <2>2, <2>3 DEF ComesTo, i
<1>7. CASE RingMode(State, p, d)
  <2>1. txhw.halt = At(Ring, tx.cur) /\ ComesTo(q, chain, p, TxWrap(tx.dirty + d))
    BY <1>2, <1>7 DEF RingMode, q
  <2>2. CASE d < Used(tx)
    BY <1>6, <2>1, <2>2
  <2>3. CASE ~(d < Used(tx))
    <3>1. TxWrap(tx.dirty + d) = tx.cur
      BY <1>4, <2>3
    <3>2. CASE p.at = Ring /\ TxWrap(p.i) = tx.cur
      <4>1. p.i \in 0 .. MAX_TX_DCBS /\ p = At(Ring, p.i)
        BY <1>2, <1>5, <3>2, PlacesAre
      <4>2. p.i # tx.cur
        BY <2>1, <4>1 DEF p
      <4>3. p.i = MAX_TX_DCBS
        BY <3>2, <4>1, <4>2 DEF TxWrap
      <4> QED
        BY <4>1, <4>3
    <3>3. CASE /\ p.at \in Chains /\ p.i = DCB_CNT + 1
               /\ chain[p.at].done = DCB_CNT /\ chain[p.at].link = At(Ring, tx.cur)
      <4>1. At(Ring, tx.cur) # NoLink
        BY <1>4 DEF At, NoLink, TxDcbs
      <4>2. chain[p.at].done = p.i - 1
        BY <3>3, CdmaTxAssumption
      <4> QED
        BY <3>3, <4>1, <4>2
    <3> QED
      BY <2>1, <3>1, <3>2, <3>3 DEF ComesTo
  <2> QED
    BY <2>2, <2>3
<1>8. CASE ChainMode(State, p, d)
  <2>1. PICK m \in 1 .. Len(q) :
           /\ txhw.halt = LastDcb(q[m])
           /\ \/ ToChain(State, p, d)
              \/ SkbsFrom(tx, d) /\ \E k \in 1 .. m : InChain(q, chain, p, k)
    BY <1>2, <1>8 DEF ChainMode, q
  <2>2. CASE ToChain(State, p, d)
    <3>1. d = 0 /\ Used(tx) > 0 /\ ComesTo(q, chain, p, tx.dirty)
      BY <1>2, <2>2 DEF ToChain, q
    <3>2. d < Used(tx) /\ TxWrap(tx.dirty + d) = tx.dirty
      <4>1. tx.dirty \in 0 .. MAX_TX_DCBS - 1 /\ tx.dirty + d = tx.dirty
        BY <1>4, <3>1 DEF TxDcbs
      <4> QED
        BY <3>1, <4>1 DEF TxWrap
    <3> QED
      BY <1>6, <3>1, <3>2
  <2>3. ASSUME NEW k \in 1 .. m, InChain(q, chain, p, k) PROVE pending
    <3>1. k \in 1 .. Len(q) /\ p.at = q[k] /\ chain[q[k]].done = p.i - 1 /\ q[k] \in Chains
      BY <1>3, <2>1, <2>3 DEF InChain
    <3>2. p.i \in 1 .. DCB_CNT + 1 /\ p = At(q[k], p.i)
      BY <1>2, <1>5, <3>1, PlacesAre
    <3>3. chain[q[k]].api
      BY <1>3, <3>1 DEF QueueOK
    <3>4. CASE p.i = DCB_CNT + 1
      <4>1. k # m
        <5> SUFFICES ASSUME k = m PROVE FALSE
          OBVIOUS
        <5>1. p = LastDcb(q[m])
          BY <3>2, <3>4 DEF LastDcb
        <5> QED
          BY <2>1, <5>1 DEF p
      <4>2. Len(q) \in Nat
        BY <1>3
      <4>3. k \in 1 .. Len(q) - 1 /\ k + 1 \in 1 .. Len(q)
        BY <2>1, <3>1, <4>1, <4>2
      <4>4. chain[q[k]].link = At(q[k + 1], 1)
        BY <1>3, <4>3 DEF QueueOK
      <4>5. q[k + 1] \in Chains
        BY <1>3, <4>3
      <4>6. At(q[k + 1], 1) # NoLink
        BY <1>5, <4>5 DEF At, NoLink
      <4> QED
        BY <3>1, <3>4, <4>4, <4>6
    <3>5. CASE p.i # DCB_CNT + 1
      <4>1. p.i <= DCB_CNT
        BY <3>2, <3>5, CdmaTxAssumption
      <4> QED
        BY <3>1, <3>3, <4>1
    <3> QED
      BY <3>4, <3>5
  <2> QED
    BY <2>1, <2>2, <2>3
<1> QED
  BY <1>1, <1>7, <1>8 DEF TxOK

-----------------------------------------------------------------------------
(* What the type needs, also when a chain was sent again: when chains are  *)
(* sent, there is a first one.                                             *)
Sane(t) == t.api_active => t.api_dcb_chain \in Chains
SaneInv == CdmaTxTypeOK /\ Sane(tx)

LEMMA SaneApplied ==
    ASSUME SaneInv, NEW s \in TxParts, Sane(s.t), Apply(s)
    PROVE  /\ tx' \in TxType /\ chain' \in [Chains -> ChainType]
           /\ txhw' \in [pos : Places, halt : Places] /\ Sane(tx)'
BY AppliedIs DEF SaneInv, Sane

LEMMA StopSane ==
    ASSUME NEW s \in TxParts, Sane(s.t)
    PROVE  /\ bkn_suspend_tx(s) \in TxParts /\ SameTx(s.t, bkn_suspend_tx(s).t)
           /\ bkn_resume_tx(s) \in TxParts
           /\ Sane(bkn_suspend_tx(s).t) /\ Sane(bkn_resume_tx(s).t)
<1> DEFINE yes == TRUE
           on == s.t.stopped /\ s.t.free <= 1
           a == [s.t EXCEPT !.stopped = yes]
           b == [s.t EXCEPT !.stopped = on]
<1>1. s.t \in TxType
  BY DEF TxParts
<1>2. bkn_suspend_tx(s) = [s EXCEPT !.t = a] /\ bkn_resume_tx(s) = [s EXCEPT !.t = b]
  BY DEF bkn_suspend_tx, bkn_resume_tx, TxParts
<1>3. yes \in BOOLEAN /\ on \in BOOLEAN
  BY <1>1 DEF TxType
<1> HIDE DEF yes, on
<1>4. a \in TxType /\ SameTx(s.t, a) /\ b \in TxType /\ SameTx(s.t, b)
  BY <1>1, <1>3, SetFlag
<1> HIDE DEF a, b
<1>5. /\ bkn_suspend_tx(s) \in TxParts /\ bkn_suspend_tx(s).t = a
      /\ bkn_resume_tx(s) \in TxParts /\ bkn_resume_tx(s).t = b
  BY <1>2, <1>4 DEF TxParts
<1> QED
  BY <1>4, <1>5 DEF Sane, SameTx

LEMMA StartSane ==
    ASSUME NEW s \in TxParts, ~s.t.api_active, s.t.free >= 1
    PROVE  bkn_api_tx(s) \in TxParts /\ Sane(bkn_api_tx(s).t)
<1> DEFINE q == s.t.api_dcb_list
<1>1. s.t \in TxType /\ s.t.api_active = FALSE
  BY DEF TxParts, TxType
<1>2. CASE q = <<>>
  <2>1. [s.t EXCEPT !.api_active = FALSE] = s.t
    BY <1>1 DEF TxType
  <2>2. bkn_api_tx(s) = s
    BY <1>2, <2>1 DEF bkn_api_tx, TxParts
  <2> QED
    BY <2>2 DEF Sane
<1>3. CASE q # <<>>
  <2> DEFINE c == q[1]
  <2>1. c \in Chains
    BY <1>3, StartIs
  <2>2. PICK v \in TxParts :
           /\ SameRing(s.t, v.t) /\ v.c = s.c
           /\ ApiIs(v.t, TRUE, Tail(q), c, s.t.api_dcb_chain_end)
           /\ bkn_api_tx(s) = bkn_cdma_goto(UseDcb(v, c), LastDcb(c))
    BY <1>3, StartIs
  <2> DEFINE u == UseDcb(v, c)
             w == bkn_cdma_goto(u, LastDcb(c))
  <2> HIDE DEF c
  <2>3. u \in TxParts /\ SameApi(v.t, u.t)
    <3>1. v.t.free >= 1 /\ c \in {"skb"} \cup Chains
      BY <2>1, <2>2 DEF SameRing
    <3> QED
      BY <3>1, UseDcbType
  <2> HIDE DEF u
  <2>4. LastDcb(c) \in Places
    BY <2>1, PlacesAre DEF LastDcb
  <2>5. w \in TxParts /\ w.t = u.t
    BY <2>3, <2>4, Goto
  <2>6. u.t.api_dcb_chain \in Chains
    BY <2>1, <2>2, <2>3 DEF ApiIs, SameApi
  <2>7. bkn_api_tx(s) = w
    BY <2>2 DEF u
  <2> HIDE DEF w
  <2> QED
    BY <2>5, <2>6, <2>7 DEF Sane
<1> QED
  BY <1>2, <1>3

LEMMA TxSane ==
    ASSUME SaneInv, bkn_tx
    PROVE  SaneInv'
<1> DEFINE u == UseDcb(State, "skb")
           s == SkbHalt(u)
<1>1. CdmaTxTypeOK /\ State \in TxParts /\ State.t = tx /\ Sane(tx)
  BY TxStateIs DEF SaneInv
<1>2. PICK v \in TxParts : Sane(v.t) /\ Apply(v)
  <2>1. CASE tx.free > 1 /\ Apply(IF s.t.free <= 1 THEN bkn_suspend_tx(s) ELSE s)
    <3>1. u \in TxParts /\ SameApi(tx, u.t)
      <4>1. State.t.free >= 1
        BY <1>1, <2>1 DEF CdmaTxTypeOK, TxType
      <4> QED
        BY <1>1, <4>1, UseDcbType
    <3> HIDE DEF u
    <3>2. At(Ring, u.t.cur) \in Places
      <4>1. u.t.cur \in 0 .. MAX_TX_DCBS
        BY <3>1 DEF TxParts, TxType, TxDcbs
      <4> QED
        BY <4>1, PlacesAre
    <3>3. s \in TxParts /\ s.t = u.t
      BY <3>1, <3>2, Goto DEF SkbHalt
    <3>4. Sane(s.t)
      BY <1>1, <3>1, <3>3 DEF Sane, SameApi
    <3> HIDE DEF s
    <3>5. bkn_suspend_tx(s) \in TxParts /\ Sane(bkn_suspend_tx(s).t)
      BY <3>3, <3>4, StopSane
    <3> QED
      BY <2>1, <3>3, <3>4, <3>5
  <2>2. CASE tx.free <= 1 /\ Apply(bkn_suspend_tx(State))
    BY <1>1, <2>2, StopSane
  <2> QED
    BY <2>1, <2>2 DEF bkn_tx
<1>3. /\ tx' \in TxType /\ chain' \in [Chains -> ChainType]
      /\ txhw' \in [pos : Places, halt : Places] /\ Sane(tx)'
  BY <1>2, SaneApplied
<1> QED
  BY <1>1, <1>3 DEF bkn_tx, SaneInv, CdmaTxTypeOK

LEMMA DmaInfoSane ==
    ASSUME SaneInv, NEW c \in Chains, bkn_knet_dma_info_tx(c)
    PROVE  SaneInv'
<1> DEFINE s == bkn_suspend_tx(State)
           s2 == WithLast(s, c)
           v == IF s.t.api_active THEN bkn_cdma_goto(s2, LastDcb(c))
                ELSE IF s.t.free = MAX_TX_DCBS THEN bkn_api_tx(s2) ELSE s2
<1>1. CdmaTxTypeOK /\ State \in TxParts /\ State.t = tx /\ tx \in TxType /\ Sane(tx)
  BY TxStateIs DEF SaneInv, CdmaTxTypeOK
<1>2. s \in TxParts /\ Sane(s.t) /\ s.t.api_active = tx.api_active /\ s.t.free = tx.free
  <2>1. s \in TxParts /\ Sane(s.t) /\ SameTx(tx, s.t)
    BY <1>1, StopSane
  <2> HIDE DEF s
  <2> QED
    BY <2>1 DEF SameTx
<1>3. Apply(v) \/ Apply(s)
  BY <1>2 DEF bkn_knet_dma_info_tx, WithChain, WithLast
<1> HIDE DEF s
<1>4. /\ s2 \in TxParts /\ SameRing(s.t, s2.t)
      /\ ApiIs(s2.t, s.t.api_active, Append(s.t.api_dcb_list, c), s.t.api_dcb_chain, c)
  BY <1>2, GiveIs
<1> HIDE DEF s2
<1>5. Sane(s2.t) /\ (s2.t.api_active <=> s.t.api_active) /\ s2.t.free = s.t.free
  BY <1>2, <1>4 DEF ApiIs, SameRing, Sane
<1>6. bkn_cdma_goto(s2, LastDcb(c)) \in TxParts /\ Sane(bkn_cdma_goto(s2, LastDcb(c)).t)
  <2>1. LastDcb(c) \in Places
    BY PlacesAre DEF LastDcb
  <2> QED
    BY <1>4, <1>5, <2>1, Goto
<1>7. ~s.t.api_active /\ s.t.free = MAX_TX_DCBS =>
         bkn_api_tx(s2) \in TxParts /\ Sane(bkn_api_tx(s2).t)
  BY <1>4, <1>5, CdmaTxAssumption, StartSane
<1>8. v \in TxParts /\ Sane(v.t)
  BY <1>4, <1>5, <1>6, <1>7
<1> HIDE DEF v
<1>9. /\ tx' \in TxType /\ chain' \in [Chains -> ChainType]
      /\ txhw' \in [pos : Places, halt : Places] /\ Sane(tx)'
  BY <1>2, <1>3, <1>8, SaneApplied
<1> QED
  BY <1>1, <1>9 DEF bkn_knet_dma_info_tx, SaneInv, CdmaTxTypeOK

LEMMA LatchSane ==
    ASSUME SaneInv, DmaTxLatch
    PROVE  SaneInv'
<1>1. CdmaTxTypeOK
  BY DEF SaneInv
<1>2. txh' \in [pc : {"idle", "latched", "done"}, done : 0 .. MAX_TX_DCBS, behind : BOOLEAN]
  BY <1>1 DEF DmaTxLatch, CdmaTxTypeOK
<1> QED
  BY <1>1, <1>2 DEF DmaTxLatch, SaneInv, Sane, CdmaTxTypeOK

LEMMA DoTxSane ==
    ASSUME SaneInv, bkn_do_tx
    PROVE  SaneInv'
<1>1. CdmaTxTypeOK /\ tx \in TxType
  BY DEF SaneInv, CdmaTxTypeOK
<1>2. PICK n \in 0 .. MAX_TX_DCBS :
         LET freed == {(tx.dirty + k) % MAX_TX_DCBS : k \in 0 .. n - 1}
         IN  /\ DonePrefix(n)
             /\ tx' = [tx EXCEPT
                   !.irq = FALSE, !.free = @ + n, !.dirty = (@ + n) % MAX_TX_DCBS,
                   !.dcb = [i \in TxDcbs |-> IF i \in freed THEN "free" ELSE @[i]],
                   !.done = [i \in TxDcbs |-> @[i] /\ i \notin freed]]
             /\ txh' = [txh EXCEPT !.pc = "done", !.done = n]
  BY DEF bkn_do_tx
<1> DEFINE v == FreeDcbs(tx, n)
<1>3. tx' = v
  BY <1>2 DEF FreeDcbs, FreedDcbs
<1>4. n \in 0 .. MAX_TX_DCBS - tx.free
  BY <1>1, <1>2 DEF DonePrefix, TxType
<1>5. v \in TxType /\ SameApi(tx, v)
  <2> HIDE DEF v
  <2>1. v \in TxType
    BY <1>1, <1>4, FreeType DEF v
  <2>2. SameApi(tx, v)
    BY <1>1, <1>4, FreeType DEF v, Freed
  <2> QED
    BY <2>1, <2>2
<1> HIDE DEF v
<1>6. Sane(tx')
  BY <1>3, <1>5 DEF SaneInv, Sane, SameApi
<1>7. txh' \in [pc : {"idle", "latched", "done"}, done : 0 .. MAX_TX_DCBS, behind : BOOLEAN]
  BY <1>1, <1>2 DEF CdmaTxTypeOK
<1> QED
  BY <1>1, <1>3, <1>5, <1>6, <1>7 DEF bkn_do_tx, SaneInv, CdmaTxTypeOK

LEMMA SkbsDoneSane ==
    ASSUME SaneInv, ~tx.api_active, SkbsDone
    PROVE  \E v \in TxParts : Sane(v.t) /\ Apply(v)
<1> DEFINE s == IF tx.free = MAX_TX_DCBS THEN bkn_api_tx(State) ELSE State
<1>1. State \in TxParts /\ State.t = tx /\ Sane(tx)
  BY TxStateIs DEF SaneInv
<1>2. s \in TxParts /\ Sane(s.t)
  BY <1>1, CdmaTxAssumption, StartSane
<1>3. Apply(IF s.t.api_active THEN s ELSE bkn_resume_tx(s))
  BY DEF SkbsDone, ChainsDone
<1> HIDE DEF s
<1>4. bkn_resume_tx(s) \in TxParts /\ Sane(bkn_resume_tx(s).t)
  BY <1>2, StopSane
<1> QED
  BY <1>2, <1>3, <1>4

LEMMA ApiChainsDoneSane ==
    ASSUME SaneInv, tx.api_active, ApiChainsDone
    PROVE  \E v \in TxParts : Sane(v.t) /\ Apply(v)
<1>1. CdmaTxTypeOK /\ tx.api_dcb_chain \in Chains
  BY DEF SaneInv, Sane
<1>2. PICK n \in 0 .. Len(tx.api_dcb_list) :
         /\ Drained(n)
         /\ LET s == Drain(n)
            IN  IF /\ n < DrainMax /\ s.t.api_dcb_chain = s.t.api_dcb_chain_end
                   /\ chain[s.t.api_dcb_chain].done >= DCB_CNT
                THEN ChainsDone(ApiDone(s), txh.behind \/ tx.done[tx.dirty])
                ELSE ChainsDone(s, txh.behind)
  BY DEF ApiChainsDone
<1> DEFINE s == Drain(n)
<1>3. s \in TxParts /\ s.t.api_active /\ s.t.api_dcb_chain \in Chains
  BY <1>1, DrainIs
<1>4. Apply(ApiDone(s)) \/ Apply(s)
  BY <1>2 DEF ChainsDone
<1> HIDE DEF s
<1>5. ApiDone(s) \in TxParts /\ Sane(ApiDone(s).t)
  <2>1. PICK w \in TxParts :
           ApiDone(s) = bkn_resume_tx(w) /\ ApiIs(w.t, FALSE, s.t.api_dcb_list, NoChain, NoChain)
    BY <1>3, ApiDoneIs
  <2>2. Sane(w.t)
    BY <2>1 DEF Sane, ApiIs
  <2> QED
    BY <2>1, <2>2, StopSane
<1>6. Sane(s.t)
  BY <1>3 DEF Sane
<1> QED
  BY <1>3, <1>4, <1>5, <1>6

LEMMA ChainDoneSane ==
    ASSUME SaneInv, bkn_tx_cdma_chain_done
    PROVE  SaneInv'
<1>1. PICK v \in TxParts : Sane(v.t) /\ Apply(v)
  BY SkbsDoneSane, ApiChainsDoneSane DEF bkn_tx_cdma_chain_done
<1>2. /\ tx' \in TxType /\ chain' \in [Chains -> ChainType]
      /\ txhw' \in [pos : Places, halt : Places] /\ Sane(tx)'
  BY <1>1, SaneApplied
<1>3. CdmaTxTypeOK /\ 0 \in 0 .. MAX_TX_DCBS
  BY CdmaTxAssumption DEF SaneInv
<1>4. txh' \in [pc : {"idle", "latched", "done"}, done : 0 .. MAX_TX_DCBS, behind : BOOLEAN]
  BY <1>3, ChainsDoneHandler
<1>5. CdmaTxTypeOK'
  BY <1>2, <1>3, <1>4 DEF bkn_tx_cdma_chain_done, CdmaTxTypeOK
<1> QED
  BY <1>2, <1>5 DEF SaneInv

LEMMA HwSane ==
    ASSUME SaneInv, HwTx
    PROVE  SaneInv'
<1> DEFINE p == txhw.pos
<1>1. /\ CdmaTxTypeOK /\ Sane(tx) /\ tx \in TxType /\ chain \in [Chains -> ChainType]
      /\ txhw \in [pos : Places, halt : Places] /\ p \in Places
  BY DEF SaneInv, CdmaTxTypeOK
<1>2. UNCHANGED <<txh, skb, tx_resets>>
  BY DEF HwTx
<1>3. SUFFICES /\ tx' \in TxType /\ Sane(tx') /\ chain' \in [Chains -> ChainType]
               /\ txhw' \in [pos : Places, halt : Places]
  BY <1>1, <1>2, <1>3 DEF SaneInv, CdmaTxTypeOK
<1>4. CASE HwTxRing /\ p.i = MAX_TX_DCBS
  <2> DEFINE b == TRUE
             v == [tx EXCEPT !.irq = b]
  <2>1. tx' = v /\ txhw' = [txhw EXCEPT !.pos = At(Ring, 0)] /\ chain' = chain
    BY <1>4 DEF HwTxRing, TxDcbs
  <2>2. b \in BOOLEAN
    OBVIOUS
  <2> HIDE DEF b
  <2>3. v \in TxType /\ SameTx(tx, v)
    BY <1>1, <2>2, SetFlag
  <2> HIDE DEF v
  <2>4. txhw' \in [pos : Places, halt : Places]
    BY <1>1, <2>1, PlacesAre
  <2>5. Sane(tx')
    BY <1>1, <2>1, <2>3 DEF Sane, SameTx
  <2> QED
    BY <1>1, <2>1, <2>3, <2>4, <2>5
<1>5. CASE HwTxRing /\ p.i # MAX_TX_DCBS
  <2> DEFINE v == MarkDcb(tx, p.i)
             w == IF tx.dcb[p.i] \in Chains THEN At(tx.dcb[p.i], 1) ELSE At(Ring, p.i + 1)
  <2>1. p.i \in TxDcbs /\ tx' = v /\ txhw' = [txhw EXCEPT !.pos = w] /\ chain' = chain
    BY <1>5 DEF HwTxRing, MarkDcb
  <2>2. v \in TxType /\ SameApi(tx, v)
    BY <1>1, <2>1, MarkType DEF Marked
  <2> HIDE DEF v
  <2>3. w \in Places
    <3>1. p.i + 1 \in 0 .. MAX_TX_DCBS
      BY <2>1 DEF TxDcbs
    <3> QED
      BY <3>1, PlacesAre
  <2> HIDE DEF w
  <2>4. txhw' \in [pos : Places, halt : Places]
    BY <1>1, <2>1, <2>3
  <2>5. Sane(tx')
    BY <1>1, <2>1, <2>2 DEF Sane, SameApi
  <2> QED
    BY <1>1, <2>1, <2>2, <2>4, <2>5
<1>6. CASE HwTxChain
  <2> DEFINE c == p.at
             i == p.i
             D == [chain EXCEPT ![c].done = i]
             w == IF i = DCB_CNT + 1 THEN chain[c].link ELSE At(c, i + 1)
  <2>1. c \in Chains /\ txhw' = [txhw EXCEPT !.pos = w] /\ chain' = D
    BY <1>6 DEF HwTxChain
  <2>2. PICK irq \in BOOLEAN : tx' = [tx EXCEPT !.irq = @ \/ irq]
    BY <1>6 DEF HwTxChain
  <2> DEFINE b == tx.irq \/ irq
             v == [tx EXCEPT !.irq = b]
  <2>3. tx' = v /\ b \in BOOLEAN
    BY <1>1, <2>2 DEF TxType
  <2> HIDE DEF b
  <2>4. v \in TxType /\ SameTx(tx, v)
    BY <1>1, <2>3, SetFlag
  <2> HIDE DEF v
  <2>5. i \in 1 .. DCB_CNT + 1
    BY <1>1, <2>1, PlacesAre, ChainNamesAssumption
  <2>6. DcbSent(chain, D, c, i)
    BY <1>1, <2>1, <2>5, DcbSentIs
  <2> HIDE DEF D
  <2>7. D \in [Chains -> ChainType]
    BY <2>6 DEF DcbSent
  <2>8. w \in Places
    <3>1. chain[c].link \in Places
      BY <1>1, <2>1 DEF ChainType
    <3>2. i # DCB_CNT + 1 => i + 1 \in 1 .. DCB_CNT + 1
      BY <2>5, CdmaTxAssumption
    <3> HIDE DEF i, c
    <3> QED
      BY <2>1, <3>1, <3>2, PlacesAre
  <2> HIDE DEF w
  <2>9. txhw' \in [pos : Places, halt : Places]
    BY <1>1, <2>1, <2>8
  <2>10. Sane(tx')
    BY <1>1, <2>3, <2>4 DEF Sane, SameTx
  <2> QED
    BY <2>1, <2>3, <2>4, <2>7, <2>9, <2>10
<1> QED
  BY <1>4, <1>5, <1>6 DEF HwTx

LEMMA ResetSane ==
    ASSUME SaneInv, bkn_knet_hw_init_tx
    PROVE  SaneInv'
<1> DEFINE v == [EmptyRing EXCEPT !.stopped = tx.stopped, !.yield = tx.yield]
<1>1. CdmaTxTypeOK
  BY DEF SaneInv
<1>2. /\ tx' = v /\ chain' = NoChains /\ txhw' = [pos |-> At(Ring, 0), halt |-> At(Ring, 0)]
      /\ txh' = [txh EXCEPT !.behind = FALSE] /\ UNCHANGED skb
  BY DEF bkn_knet_hw_init_tx
<1>3. v \in TxType /\ SameTx(EmptyRing, v)
  BY <1>1, ResetType
<1> HIDE DEF v
<1>4. NoChains \in [Chains -> ChainType] /\ At(Ring, 0) \in Places
  BY <1>3, EmptyOK
<1>5. tx_resets' \in 0 .. MAX_TX_RESETS
  BY <1>1, CdmaTxAssumption DEF bkn_knet_hw_init_tx, CdmaTxTypeOK
<1>6. CdmaTxTypeOK'
  BY <1>1, <1>2, <1>3, <1>4, <1>5 DEF CdmaTxTypeOK
<1>7. Sane(tx')
  BY <1>2, <1>3 DEF Sane, SameTx, EmptyRing
<1> QED
  BY <1>6, <1>7 DEF SaneInv

LEMMA SaneInit ==
    ASSUME CdmaTxInit
    PROVE  SaneInv
<1>1. CdmaTxTypeOK
  BY TxInit DEF CdmaTxIInv
<1>2. ~tx.api_active
  BY DEF CdmaTxInit, EmptyRing
<1> QED
  BY <1>1, <1>2 DEF SaneInv, Sane

LEMMA SaneInductive ==
    ASSUME SaneInv, [CdmaTxNext]_txvars
    PROVE  SaneInv'
<1>1. CASE StackXmit
  BY <1>1 DEF StackXmit, SaneInv, Sane, CdmaTxTypeOK
<1>2. CASE bkn_tx
  BY <1>2, TxSane
<1>3. ASSUME NEW c \in Chains, bkn_knet_dma_info_tx(c)
      PROVE  SaneInv'
  BY <1>3, DmaInfoSane
<1>4. CASE DmaTxLatch
  BY <1>4, LatchSane
<1>5. CASE bkn_do_tx
  BY <1>5, DoTxSane
<1>6. CASE bkn_tx_cdma_chain_done
  BY <1>6, ChainDoneSane
<1>7. CASE HwTx
  BY <1>7, HwSane
<1>8. CASE bkn_knet_hw_init_tx
  BY <1>8, ResetSane
<1>9. CASE UNCHANGED txvars
  BY <1>9 DEF txvars, SaneInv, Sane, CdmaTxTypeOK
<1> QED
  BY <1>1, <1>2, <1>3, <1>4, <1>5, <1>6, <1>7, <1>8, <1>9 DEF CdmaTxNext

(* Every state is of its type, also after a chain that ended with tx.dirty *)
(* behind the channel: dirty, cur and free stay in the ring, and the list  *)
(* of chains, the links of their reload DCBs, the position and the halt    *)
(* address only name DCBs there are (bkn_api_tx, bkn_knet_dma_info,        *)
(* bkn_tx_cdma_chain_switch, bkn_tx_cdma_chain_done).                      *)
THEOREM CdmaTxTypeCorrect == CdmaTxSpec => []CdmaTxTypeOK
<1>1. CdmaTxInit => SaneInv
  BY SaneInit
<1>2. SaneInv /\ [CdmaTxNext]_txvars => SaneInv'
  BY SaneInductive
<1>3. SaneInv => CdmaTxTypeOK
  BY DEF SaneInv
<1> QED
  BY <1>1, <1>2, <1>3, PTL DEF CdmaTxSpec

(* Only a reset makes the history start anew. *)
LEMMA BehindStays ==
    ASSUME CdmaTxTypeOK, txh.behind, [CdmaTxNext]_txvars, ~bkn_knet_hw_init_tx
    PROVE  txh'.behind
<1>1. /\ txh \in [pc : {"idle", "latched", "done"}, done : 0 .. MAX_TX_DCBS, behind : BOOLEAN]
      /\ txh.behind = TRUE
  BY DEF CdmaTxTypeOK
<1>2. CASE bkn_tx_cdma_chain_done
  <2>1. \A s, b : ChainsDone(s, b) /\ b => txh'.behind
    BY DEF ChainsDone
  <2>2. CASE tx.api_active
    <3>1. ApiChainsDone
      BY <1>2, <2>2 DEF bkn_tx_cdma_chain_done
    <3> QED
      BY <2>1, <3>1, Zenon DEF ApiChainsDone
  <2>3. CASE ~tx.api_active
    <3>1. SkbsDone
      BY <1>2, <2>3 DEF bkn_tx_cdma_chain_done
    <3> QED
      BY <2>1, <3>1, Zenon DEF SkbsDone
  <2> QED
    BY <2>2, <2>3
<1>3. CASE DmaTxLatch \/ bkn_do_tx
  BY <1>1, <1>3 DEF DmaTxLatch, bkn_do_tx
<1>4. CASE \/ StackXmit \/ bkn_tx \/ \E c \in Chains : bkn_knet_dma_info_tx(c)
           \/ HwTx \/ UNCHANGED txvars
  BY <1>1, <1>4 DEF StackXmit, bkn_tx, bkn_knet_dma_info_tx, HwTx, txvars
<1> QED
  BY <1>2, <1>3, <1>4 DEF CdmaTxNext

(* CdmaTxOnPending: the channel does not run past what there is to send,   *)
(* however packets and chains take turns and however fast it is            *)
(* (bkn_cdma_goto, bkn_tx_cdma_chain_switch, bkn_knet_dma_info), unless a  *)
(* chain has ended with tx.dirty behind the channel.  After such a chain a *)
(* reset (bkn_knet_hw_init) makes it true again.                           *)
THEOREM CdmaTxHwOnPending == CdmaTxSpec => []CdmaTxOnPending
<1> DEFINE Good == SaneInv /\ (~txh.behind => CdmaTxIInv)
<1>1. CdmaTxInit => Good
  BY SaneInit, TxInit
<1>2. Good /\ [CdmaTxNext]_txvars => Good'
  <2> SUFFICES ASSUME Good, [CdmaTxNext]_txvars PROVE Good'
    OBVIOUS
  <2>1. SaneInv'
    BY SaneInductive
  <2>2. ASSUME ~txh'.behind PROVE CdmaTxIInv'
    <3>1. CASE bkn_knet_hw_init_tx
      <4>1. TxInv(0)' /\ 0 \in 0 .. MAX_TX_DCBS
        BY <3>1, ResetStep, CdmaTxAssumption DEF SaneInv
      <4> QED
        BY <4>1 DEF CdmaTxIInv, TxInv
    <3>2. CASE ~bkn_knet_hw_init_tx
      <4>1. ~txh.behind
        BY <2>2, <3>2, BehindStays DEF SaneInv
      <4> QED
        BY <2>2, <4>1, CdmaTxInductive
    <3> QED
      BY <3>1, <3>2
  <2> QED
    BY <2>1, <2>2
<1>3. Good => CdmaTxOnPending
  <2>1. CASE txh.behind
    BY <2>1 DEF CdmaTxOnPending
  <2>2. CASE ~txh.behind
    BY <2>2, CdmaTxSafe
  <2> QED
    BY <2>1, <2>2
<1> QED
  BY <1>1, <1>2, <1>3, PTL DEF CdmaTxSpec

=============================================================================
