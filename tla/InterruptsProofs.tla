-------------------------- MODULE InterruptsProofs --------------------------
(***************************************************************************)
(* Proofs about Interrupts, for every budget and any number of packets and *)
(* hw_init commands: the mask register is right whenever KNET's handlers   *)
(* are not at work, and the poll mode ends if no packet meets a stop.      *)
(***************************************************************************)
EXTENDS Interrupts, TLAPS

Busy == {"begin", "take", "deliver"}

(* What an activation of do_dma has taken and what it may take is its      *)
(* budget.                                                                 *)
Counts ==
    \A c \in Contexts :
        /\ d[c].pc \in Busy => d[c].left + d[c].count = Budget
        /\ d[c].pc = "deliver" => d[c].left > 0

(* The interrupt handler is in do_dma exactly while it says so.            *)
IrqInDma == irq.pc = "dma" <=> d["irq"].pc # "idle"

(* MaskRestored, from the moment KNET's handler ends to that when it       *)
(* starts its work, whatever the poll does.                                *)
MaskRight ==
    irq.pc \in {"idle", "user", "knet"} =>
        bde.imask2 = (k.irq_mask /\ ~k.poll_mode)

(* The interrupt handler calls do_dma itself only without NAPI, the poll   *)
(* only with it.                                                           *)
NapiOrNot ==
    /\ param.use_napi => param.basedev_suspend
    /\ irq.pc = "dma" => ~param.use_napi
    /\ irq.pc \in {"schedule", "mask"} \/ napi = "scheduled" \/ d["poll"].pc # "idle"
          => param.use_napi

(* The poll mode is set exactly while a poll is to come or under way.      *)
PollMode ==
    /\ k.poll_mode <=> irq.pc = "schedule" \/ napi = "scheduled" \/ d["poll"].pc # "idle"
    /\ irq.pc = "schedule" => napi # "scheduled" /\ d["poll"].pc = "idle"
    /\ d["poll"].pc \in Busy \cup {"complete"} => napi = "scheduled"
    /\ d["poll"].pc = "leave" => napi # "scheduled"
    /\ ~k.base_up => napi # "scheduled"
    /\ k.base_up /\ param.use_napi => napi # "disabled"

(* Traffic is suspended while the base device is down, from the first      *)
(* hw_init on, before which nothing happens.                               *)
Suspended ==
    /\ k.inits = 0 =>
          /\ ~k.irq_mask /\ ~k.poll_mode /\ ~k.basedev_suspended
          /\ ~pend.knet /\ k.work = 0 /\ d["irq"].pc = "idle"
    /\ k.basedev_suspended => param.basedev_suspend
    /\ param.basedev_suspend /\ ~k.base_up /\ k.inits > 0 => k.basedev_suspended
    /\ d["open"].pc # "idle" => k.basedev_suspended /\ k.base_up

(* While it is suspended there is nothing to do for the handlers.          *)
Quiet ==
    k.basedev_suspended =>
        ~pend.knet /\ k.work = 0 /\ ~k.poll_mode /\ d["irq"].pc = "idle"

(* No two of the contexts that call do_dma are in it, and the poll mode    *)
(* has its poll: the inductive form of PollModeHasPoll.                    *)
Apart == IrqInDma /\ NapiOrNot /\ PollMode /\ Suspended /\ Quiet

-----------------------------------------------------------------------------
(* The types of the variables. *)
ParamType == [use_napi : BOOLEAN, basedev_suspend : BOOLEAN, cmic : {"e", "m"}]
PendType == [user : BOOLEAN, knet : BOOLEAN]
BdeType == [isr2 : BOOLEAN, fmask : BOOLEAN, imask : BOOLEAN, imask2 : BOOLEAN]
IrqType == [pc : {"idle", "user", "knet", "dma", "schedule", "mask"},
            imask : BOOLEAN, fmask : BOOLEAN]
ThreadType == [pc : {"wait", "clear", "handle", "unmask"}, intr : BOOLEAN]
KType == [irq_mask : BOOLEAN, poll_mode : BOOLEAN, poll_again : BOOLEAN,
          base_up : BOOLEAN, basedev_suspended : BOOLEAN, work : 0 .. MAX_WORK,
          events : 0 .. MAX_EVENTS, inits : 0 .. MAX_INITS + 1]
LockType == Contexts \cup {"none"}
NapiType == {"disabled", "idle", "scheduled"}
DmaType == [pc : {"idle", "begin", "take", "deliver", "complete", "leave"},
            left : 0 .. Budget, count : 0 .. Budget]
DType == [Contexts -> DmaType]

(* TypeOK in terms of the types. *)
LEMMA Types ==
    TypeOK <=> /\ param \in ParamType /\ pend \in PendType /\ bde \in BdeType
               /\ irq \in IrqType /\ thread \in ThreadType /\ k \in KType
               /\ lock \in LockType /\ napi \in NapiType /\ d \in DType
  BY DEF TypeOK, ParamType, PendType, BdeType, IrqType, ThreadType, KType,
         LockType, NapiType, DmaType, DType

(* The same after a step. *)
LEMMA TypesP ==
    TypeOK' <=> /\ param' \in ParamType /\ pend' \in PendType /\ bde' \in BdeType
                /\ irq' \in IrqType /\ thread' \in ThreadType /\ k' \in KType
                /\ lock' \in LockType /\ napi' \in NapiType /\ d' \in DType
  BY DEF TypeOK, ParamType, PendType, BdeType, IrqType, ThreadType, KType,
         LockType, NapiType, DmaType, DType

(* A write of the mask register by KNET: enabled if asked for, and never   *)
(* in poll mode.                                                           *)
LEMMA MaskSet ==
    ASSUME NEW b \in BdeType, NEW s \in KType, NEW m \in BOOLEAN
    PROVE  /\ irq_mask_set(b, s, m) \in BdeType
           /\ irq_mask_set(b, s, m).imask2 = (m /\ ~s.poll_mode)
  BY Zenon DEF irq_mask_set, lkbde_irq_mask_set2, BdeType

(* A write by the user driver leaves the bits of KNET alone. *)
LEMMA MaskSetUser ==
    ASSUME NEW b \in BdeType, NEW m \in BOOLEAN
    PROVE  /\ lkbde_irq_mask_set(b, m) \in BdeType
           /\ lkbde_irq_mask_set(b, m).imask2 = b.imask2
  BY Zenon DEF lkbde_irq_mask_set, BdeType

(* A restart of channels touches irq_mask and poll_again only. *)
LEMMA RestartedState ==
    ASSUME NEW s \in KType
    PROVE  /\ Restarted(s) \in KType
           /\ Restarted(s).irq_mask = TRUE
           /\ Restarted(s).poll_mode = s.poll_mode
           /\ Restarted(s).base_up = s.base_up
           /\ Restarted(s).basedev_suspended = s.basedev_suspended
           /\ Restarted(s).work = s.work /\ Restarted(s).inits = s.inits
  BY Zenon DEF Restarted, KType

(* The state of KNET and of the BDE when some channels were restarted from *)
(* state s, or none: both the mask register and irq_mask are as before, or *)
(* the register says what KNET wants.                                      *)
MaskKept(s, b, s1, b1) ==
    \/ s1.irq_mask = s.irq_mask /\ b1.imask2 = b.imask2
    \/ b1.imask2 = (s1.irq_mask /\ ~s1.poll_mode)

(* The rest of the state of KNET is the same. *)
Alike(s, s1) == /\ s1.poll_mode = s.poll_mode /\ s1.base_up = s.base_up
                /\ s1.work = s.work /\ s1.inits = s.inits

(* A restart of channels writes the mask register, with the poll mode as   *)
(* it is.                                                                  *)
LEMMA RestartMask ==
    ASSUME NEW s \in KType, NEW t \in KType, t.poll_mode = s.poll_mode, NEW b \in BdeType
    PROVE  irq_mask_set(b, t, TRUE).imask2
              = (Restarted(s).irq_mask /\ ~Restarted(s).poll_mode)
<1>1. irq_mask_set(b, t, TRUE).imask2 = (TRUE /\ ~t.poll_mode)
  BY MaskSet, Zenon
<1>2. Restarted(s).irq_mask = TRUE /\ Restarted(s).poll_mode = s.poll_mode
  BY RestartedState, Zenon
<1> QED
  BY <1>1, <1>2, Zenon

(* The end of do_dma. *)
LEMMA AfterChains ==
    ASSUME k \in KType, bde \in BdeType, NEW after \in ChainsDone
    PROVE  /\ after.s \in KType /\ after.b \in BdeType
           /\ Alike(k, after.s) /\ after.s.basedev_suspended = k.basedev_suspended
           /\ after.s.inits > 0 => k.inits > 0
           /\ k.basedev_suspended => after.s = k
           /\ MaskKept(k, bde, after.s, after.b)
<1>1. CASE after = [s |-> k, b |-> bde]
  <2>1. after.s = k /\ after.b = bde
    BY <1>1, Zenon
  <2> QED
    BY <2>1 DEF Alike, MaskKept
<1>2. CASE ~k.basedev_suspended /\ after = [s |-> Restarted(k), b |-> irq_mask_set(bde, k, TRUE)]
  <2>1. after.s = Restarted(k) /\ after.b = irq_mask_set(bde, k, TRUE)
    BY <1>2, Zenon
  <2>2. Restarted(k) \in KType /\ irq_mask_set(bde, k, TRUE) \in BdeType
    BY RestartedState, MaskSet, Zenon
  <2>3. MaskKept(k, bde, after.s, after.b)
    <3>1. k.poll_mode = k.poll_mode
      OBVIOUS
    <3>2. irq_mask_set(bde, k, TRUE).imask2
             = (Restarted(k).irq_mask /\ ~Restarted(k).poll_mode)
      BY <3>1, RestartMask, Zenon
    <3> QED
      BY <2>1, <3>2, Zenon DEF MaskKept
  <2>4. Alike(k, after.s) /\ after.s.basedev_suspended = k.basedev_suspended
    BY <2>1, RestartedState, Zenon DEF Alike
  <2> QED
    BY <1>2, <2>1, <2>2, <2>3, <2>4 DEF Alike
<1> QED
  BY <1>1, <1>2 DEF ChainsDone

(* What the handler leaves behind when do_dma is over: if it does not go   *)
(* on, the mask register says what KNET wants.                             *)
LEMMA IsrDmaOverEffect ==
    ASSUME k \in KType, bde \in BdeType, IsrDmaOver
    PROVE  /\ k' \in KType /\ bde' \in BdeType
           /\ Alike(k, k') /\ k'.basedev_suspended = k.basedev_suspended
           /\ \/ irq' = irq
              \/ bde'.imask2 = (k'.irq_mask /\ ~k'.poll_mode)
<1>1. PICK after \in ChainsDone :
         /\ k' = after.s
         /\ \/ irq' = irq /\ bde' = after.b
            \/ bde' = irq_mask_set(after.b, after.s, after.s.irq_mask)
  BY Zenon DEF IsrDmaOver
<1>2. /\ after.s \in KType /\ after.b \in BdeType
      /\ Alike(k, after.s) /\ after.s.basedev_suspended = k.basedev_suspended
  BY AfterChains, Zenon
<1>3. after.s.irq_mask \in BOOLEAN
  BY <1>2, Zenon DEF KType
<1>4. LET b == irq_mask_set(after.b, after.s, after.s.irq_mask)
      IN  b \in BdeType /\ b.imask2 = (after.s.irq_mask /\ ~after.s.poll_mode)
  BY <1>2, <1>3, MaskSet, Zenon
<1> QED
  BY <1>1, <1>2, <1>4, Zenon

(* The same for the poll, which goes on to complete or stays scheduled. *)
LEMMA PollOverEffect ==
    ASSUME k \in KType, bde \in BdeType, PollOver
    PROVE  /\ d["poll"].pc = "take" /\ UNCHANGED <<param, pend, irq, napi>>
           /\ k' \in KType /\ bde' \in BdeType
           /\ Alike(k, k') /\ k'.basedev_suspended = k.basedev_suspended
           /\ k.basedev_suspended => k' = k
           /\ MaskKept(k, bde, k', bde')
           /\ \/ d' = [d EXCEPT !["poll"] = DmaIdle]
              \/ d' = [d EXCEPT !["poll"].pc = "complete"]
<1>1. PICK after \in ChainsDone :
         /\ k' = after.s /\ bde' = after.b
         /\ d' = [d EXCEPT !["poll"] = IF after.s.poll_again \/ @.left = 0 THEN DmaIdle
                                       ELSE [@ EXCEPT !.pc = "complete"]]
  BY Zenon DEF PollOver
<1>2. \/ d' = [d EXCEPT !["poll"] = DmaIdle]
      \/ d' = [d EXCEPT !["poll"].pc = "complete"]
  BY <1>1, Zenon
<1> QED
  BY <1>1, <1>2, AfterChains, Zenon DEF PollOver, DmaOver

(* The same for bkn_open, which ends the suspension. *)
LEMMA OpenOverEffect ==
    ASSUME k \in KType, bde \in BdeType, OpenOver
    PROVE  /\ k' \in KType /\ bde' \in BdeType
           /\ Alike(k, k') /\ k'.basedev_suspended = FALSE
           /\ MaskKept(k, bde, k', bde')
<1>. DEFINE s == [k EXCEPT !.basedev_suspended = FALSE]
<1>1. /\ s \in KType /\ Alike(k, s) /\ s.basedev_suspended = FALSE
      /\ s.irq_mask = k.irq_mask
  BY Zenon DEF KType, Alike
<1>. HIDE DEF s
<1>2. CASE k' = s /\ bde' = bde
  BY <1>1, <1>2, Zenon DEF MaskKept
<1>3. CASE k' = Restarted(s) /\ bde' = irq_mask_set(bde, s, TRUE)
  <2>1. k' \in KType /\ bde' \in BdeType
    BY <1>1, <1>3, RestartedState, MaskSet, Zenon
  <2>2. Alike(k, k') /\ k'.basedev_suspended = FALSE
    BY <1>1, <1>3, RestartedState, Zenon DEF Alike
  <2>3. MaskKept(k, bde, k', bde')
    BY <1>1, <1>3, RestartMask, Zenon DEF MaskKept
  <2> QED
    BY <2>1, <2>2, <2>3
<1> QED
  BY <1>2, <1>3, Zenon DEF OpenOver, s

(* hw_init, whether or not it starts channels. *)
LEMMA HwInitEffect ==
    ASSUME k \in KType, bde \in BdeType, param \in ParamType, pend \in PendType,
           bkn_knet_hw_init
    PROVE  /\ pend'.knet = FALSE /\ UNCHANGED <<param, irq, napi, d>>
           /\ k' \in KType /\ bde' \in BdeType
           /\ k'.poll_mode = k.poll_mode /\ k'.base_up = k.base_up
           /\ k'.work = 0 /\ k'.inits = k.inits + 1
           /\ k'.basedev_suspended
                 <=> (k.basedev_suspended \/ (param.basedev_suspend /\ ~k.base_up))
           /\ bde'.imask2 = (k'.irq_mask /\ ~k'.poll_mode)
<1>. DEFINE suspended == k.basedev_suspended \/ (param.basedev_suspend /\ ~k.base_up)
            s == [k EXCEPT !.basedev_suspended = suspended, !.irq_mask = FALSE,
                           !.work = 0, !.inits = @ + 1]
            b == [irq_mask_set(bde, k, FALSE) EXCEPT !.isr2 = TRUE]
<1>1. suspended \in BOOLEAN
  OBVIOUS
<1>2. k.inits + 1 \in 0 .. MAX_INITS + 1 /\ 0 \in 0 .. MAX_WORK
  BY BoundAssumption DEF bkn_knet_hw_init, KType
<1>3. /\ s \in KType
      /\ s.poll_mode = k.poll_mode /\ s.base_up = k.base_up /\ s.irq_mask = FALSE
      /\ s.work = 0 /\ s.inits = k.inits + 1 /\ s.basedev_suspended = suspended
  <2>. HIDE DEF suspended
  <2> QED
    BY <1>1, <1>2, Zenon DEF KType
<1>4. b \in BdeType /\ b.imask2 = FALSE
  <2>1. irq_mask_set(bde, k, FALSE) \in BdeType
        /\ irq_mask_set(bde, k, FALSE).imask2 = (FALSE /\ ~k.poll_mode)
    BY MaskSet, Zenon
  <2> QED
    BY <2>1, Zenon DEF BdeType
<1>5. \/ k' = s /\ bde' = b
      \/ k' = Restarted(s) /\ bde' = irq_mask_set(b, s, TRUE)
  BY Zenon DEF bkn_knet_hw_init
<1>0. pend'.knet = FALSE /\ UNCHANGED <<param, irq, napi, d>>
  BY Zenon DEF bkn_knet_hw_init, PendType
<1>. HIDE DEF s, b
<1>6. CASE k' = s /\ bde' = b
  BY <1>0, <1>1, <1>3, <1>4, <1>6, Zenon
<1>7. CASE k' = Restarted(s) /\ bde' = irq_mask_set(b, s, TRUE)
  <2>1. k' \in KType /\ bde' \in BdeType
    BY <1>3, <1>4, <1>7, RestartedState, MaskSet, Zenon
  <2>2. bde'.imask2 = (k'.irq_mask /\ ~k'.poll_mode)
    BY <1>3, <1>4, <1>7, RestartMask, Zenon
  <2> QED
    BY <1>0, <1>3, <1>7, <2>1, <2>2, RestartedState, Zenon
<1> QED
  BY <1>5, <1>6, <1>7

-----------------------------------------------------------------------------
(* Type correctness.  Without Counts, DmaDelivered could leave the range   *)
(* of the counters.                                                        *)
LEMMA TypeStep == ASSUME TypeOK, Counts, [Next]_vars PROVE TypeOK' /\ Counts'
<1>. USE BudgetAssumption, BoundAssumption
<1>0. /\ param \in ParamType /\ pend \in PendType /\ bde \in BdeType
      /\ irq \in IrqType /\ thread \in ThreadType /\ k \in KType
      /\ lock \in LockType /\ napi \in NapiType /\ d \in DType
  BY Types
<1>1. ASSUME HwUser PROVE TypeOK' /\ Counts'
  <2>1. pend' \in PendType
    BY <1>0, <1>1 DEF HwUser, PendType
  <2>2. Counts'
    BY <1>1 DEF HwUser, Counts, knet
  <2>. QED
    BY <1>0, <1>1, <2>1, <2>2, TypesP DEF HwUser, knet
<1>2. ASSUME HwPacket PROVE TypeOK' /\ Counts'
  <2>1. pend' \in PendType
    BY <1>0, <1>2 DEF HwPacket, PendType
  <2>2. k' \in KType
    <3>1. k.work + 1 \in 0 .. MAX_WORK /\ k.events + 1 \in 0 .. MAX_EVENTS
      BY <1>0, <1>2 DEF HwPacket, KType
    <3> QED
      BY <1>0, <1>2, <3>1, Zenon DEF HwPacket, KType
  <2>3. Counts'
    BY <1>2 DEF HwPacket, Counts
  <2>. QED
    BY <1>0, <1>2, <2>1, <2>2, <2>3, TypesP DEF HwPacket
<1>3. ASSUME IrqStart PROVE TypeOK' /\ Counts'
  <2>1. irq' \in IrqType
    BY <1>0, <1>3 DEF IrqStart, IrqType, BdeType
  <2>2. Counts'
    BY <1>3 DEF IrqStart, Counts, knet
  <2>. QED
    BY <1>0, <1>3, <2>1, <2>2, TypesP DEF IrqStart, knet
<1>4. ASSUME IrqAllKernelCmic PROVE TypeOK' /\ Counts'
  <2>1. irq' \in IrqType
    BY <1>0, <1>4 DEF IrqAllKernelCmic, IrqType, Secondary
  <2>2. bde' \in BdeType
    BY <1>0, <1>4, MaskSetUser DEF IrqAllKernelCmic, IrqType
  <2>3. Counts'
    BY <1>4 DEF IrqAllKernelCmic, Counts, knet
  <2>. QED
    BY <1>0, <1>4, <2>1, <2>2, <2>3, TypesP DEF IrqAllKernelCmic, knet
<1>5. ASSUME IrqAllKernelCmicm PROVE TypeOK' /\ Counts'
  <2>1. irq' \in IrqType
    BY <1>0, <1>5 DEF IrqAllKernelCmicm, IrqType, Secondary
  <2>2. Counts'
    BY <1>5 DEF IrqAllKernelCmicm, Counts, knet
  <2>. QED
    BY <1>0, <1>5, <2>1, <2>2, TypesP DEF IrqAllKernelCmicm, knet
<1>6. ASSUME IrqUser PROVE TypeOK' /\ Counts'
  <2>1. irq' \in IrqType
    BY <1>0, <1>6 DEF IrqUser, IrqType, Secondary
  <2>2. bde' \in BdeType
    BY <1>0, <1>6, MaskSetUser DEF IrqUser
  <2>3. thread' \in ThreadType
    BY <1>0, <1>6 DEF IrqUser, ThreadType
  <2>4. Counts'
    BY <1>6 DEF IrqUser, Counts, knet
  <2>. QED
    BY <1>0, <1>6, <2>1, <2>2, <2>3, <2>4, TypesP DEF IrqUser, knet
<1>7. ASSUME ThreadWakes PROVE TypeOK' /\ Counts'
  <2>1. thread' \in ThreadType
    BY <1>0, <1>7 DEF ThreadWakes, ThreadType
  <2>2. Counts'
    BY <1>7 DEF ThreadWakes, Counts, knet
  <2>. QED
    BY <1>0, <1>7, <2>1, <2>2, TypesP DEF ThreadWakes, knet
<1>8. ASSUME ThreadClears PROVE TypeOK' /\ Counts'
  <2>1. thread' \in ThreadType
    BY <1>8 DEF ThreadClears, ThreadType
  <2>2. Counts'
    BY <1>8 DEF ThreadClears, Counts, knet
  <2>. QED
    BY <1>0, <1>8, <2>1, <2>2, TypesP DEF ThreadClears, knet
<1>9. ASSUME ThreadHandles PROVE TypeOK' /\ Counts'
  <2>1. thread' \in ThreadType
    BY <1>0, <1>9 DEF ThreadHandles, ThreadType
  <2>2. pend' \in PendType
    BY <1>0, <1>9 DEF ThreadHandles, PendType
  <2>3. Counts'
    BY <1>9 DEF ThreadHandles, Counts, knet
  <2>. QED
    BY <1>0, <1>9, <2>1, <2>2, <2>3, TypesP DEF ThreadHandles, knet
<1>10. ASSUME ThreadUnmasks PROVE TypeOK' /\ Counts'
  <2>1. thread' \in ThreadType
    BY <1>0, <1>10 DEF ThreadUnmasks, ThreadType
  <2>2. bde' \in BdeType
    BY <1>0, <1>10, MaskSetUser DEF ThreadUnmasks
  <2>3. Counts'
    BY <1>10 DEF ThreadUnmasks, Counts, knet
  <2>. QED
    BY <1>0, <1>10, <2>1, <2>2, <2>3, TypesP DEF ThreadUnmasks, knet
<1>11. ASSUME IsrNotOurs PROVE TypeOK' /\ Counts'
  <2>1. irq' \in IrqType
    BY <1>0, <1>11 DEF IsrNotOurs, IrqType
  <2>2. Counts'
    BY <1>11 DEF IsrNotOurs, Counts, knet
  <2>. QED
    BY <1>0, <1>11, <2>1, <2>2, TypesP DEF IsrNotOurs, knet
<1>12. ASSUME IsrDma PROVE TypeOK' /\ Counts'
  <2>1. lock' \in LockType
    BY <1>12 DEF IsrDma, LockType, Contexts
  <2>2. bde' \in BdeType
    BY <1>0, <1>12, MaskSet DEF IsrDma
  <2>3. irq' \in IrqType
    BY <1>0, <1>12 DEF IsrDma, IrqType
  <2>4. d' \in DType
    BY <1>0, <1>12 DEF IsrDma, DType, DmaType, DmaCall, Contexts
  <2>5. Counts'
    BY <1>12 DEF IsrDma, Counts, DmaCall
  <2>. QED
    BY <1>0, <1>12, <2>1, <2>2, <2>3, <2>4, <2>5, TypesP DEF IsrDma
<1>13. ASSUME IsrDmaOver PROVE TypeOK' /\ Counts'
  <2>1. k' \in KType
    BY <1>0, <1>13, IsrDmaOverEffect
  <2>2. d' \in DType
    BY <1>0, <1>13 DEF IsrDmaOver, DType, DmaType, DmaIdle, DmaCall
  <2>3. bde' \in BdeType
    BY <1>0, <1>13, IsrDmaOverEffect
  <2>4. irq' \in IrqType
    BY <1>0, <1>13 DEF IsrDmaOver, IrqType
  <2>5. lock' \in LockType
    BY <1>0, <1>13 DEF IsrDmaOver, LockType
  <2>6. Counts'
    BY <1>0, <1>13 DEF IsrDmaOver, Counts, Busy, DType, DmaIdle, DmaCall
  <2>. QED
    BY <1>0, <1>13, <2>1, <2>2, <2>3, <2>4, <2>5, <2>6, TypesP
    DEF IsrDmaOver
<1>14. ASSUME IsrNapi PROVE TypeOK' /\ Counts'
  <2>1. k' \in KType
    BY <1>0, <1>14 DEF IsrNapi, KType
  <2>2. irq' \in IrqType
    BY <1>0, <1>14 DEF IsrNapi, IrqType
  <2>3. Counts'
    BY <1>14 DEF IsrNapi, Counts
  <2>. QED
    BY <1>0, <1>14, <2>1, <2>2, <2>3, TypesP DEF IsrNapi
<1>15. ASSUME IsrSchedule PROVE TypeOK' /\ Counts'
  <2>1. napi' \in NapiType
    BY <1>0, <1>15 DEF IsrSchedule, NapiType
  <2>2. irq' \in IrqType
    BY <1>0, <1>15 DEF IsrSchedule, IrqType
  <2>3. Counts'
    BY <1>15 DEF IsrSchedule, Counts
  <2>. QED
    BY <1>0, <1>15, <2>1, <2>2, <2>3, TypesP DEF IsrSchedule
<1>16. ASSUME IsrMask PROVE TypeOK' /\ Counts'
  <2>1. bde' \in BdeType
    BY <1>0, <1>16, MaskSet DEF IsrMask, KType
  <2>2. irq' \in IrqType
    BY <1>0, <1>16 DEF IsrMask, IrqType
  <2>3. Counts'
    BY <1>16 DEF IsrMask, Counts, knet
  <2>. QED
    BY <1>0, <1>16, <2>1, <2>2, <2>3, TypesP DEF IsrMask, knet
<1>17. ASSUME PollStart PROVE TypeOK' /\ Counts'
  <2>1. lock' \in LockType
    BY <1>17 DEF PollStart, LockType, Contexts
  <2>2. k' \in KType
    BY <1>0, <1>17 DEF PollStart, KType
  <2>3. d' \in DType
    BY <1>0, <1>17 DEF PollStart, DType, DmaType, DmaCall, Contexts
  <2>4. Counts'
    BY <1>17 DEF PollStart, Counts, DmaCall
  <2>. QED
    BY <1>0, <1>17, <2>1, <2>2, <2>3, <2>4, TypesP DEF PollStart
<1>18. ASSUME PollOver PROVE TypeOK' /\ Counts'
  <2>1. k' \in KType
    BY <1>0, <1>18, PollOverEffect
  <2>2. bde' \in BdeType
    BY <1>0, <1>18, PollOverEffect
  <2>3. d' \in DType
    BY <1>0, <1>18 DEF PollOver, DType, DmaType, DmaIdle, Contexts
  <2>4. lock' \in LockType
    BY <1>18 DEF PollOver, LockType
  <2>5. Counts'
    BY <1>18 DEF PollOver, Counts, Busy, DmaIdle
  <2>. QED
    BY <1>0, <1>18, <2>1, <2>2, <2>3, <2>4, <2>5, TypesP DEF PollOver
<1>19. ASSUME PollComplete PROVE TypeOK' /\ Counts'
  <2>1. napi' \in NapiType
    BY <1>19 DEF PollComplete, NapiType
  <2>2. d' \in DType
    BY <1>0, <1>19 DEF PollComplete, DType, DmaType
  <2>3. Counts'
    BY <1>19 DEF PollComplete, Counts, Busy
  <2>. QED
    BY <1>0, <1>19, <2>1, <2>2, <2>3, TypesP DEF PollComplete
<1>20. ASSUME PollLeave PROVE TypeOK' /\ Counts'
  <2>1. k' \in KType
    BY <1>0, <1>20 DEF PollLeave, KType
  <2>2. bde' \in BdeType
    BY <1>0, <1>20, MaskSet DEF PollLeave, KType
  <2>3. d' \in DType
    BY <1>0, <1>20 DEF PollLeave, DType, DmaType, DmaIdle, Contexts
  <2>4. Counts'
    BY <1>20 DEF PollLeave, Counts, Busy, DmaIdle
  <2>. QED
    BY <1>0, <1>20, <2>1, <2>2, <2>3, <2>4, TypesP DEF PollLeave
<1>21. ASSUME bkn_knet_hw_init PROVE TypeOK' /\ Counts'
  <2>1. pend' \in PendType
    BY <1>0, <1>21 DEF bkn_knet_hw_init, PendType
  <2>2. k' \in KType
    BY <1>0, <1>21, HwInitEffect
  <2>3. bde' \in BdeType
    BY <1>0, <1>21, HwInitEffect
  <2>4. Counts'
    BY <1>21 DEF bkn_knet_hw_init, Counts
  <2>. QED
    BY <1>0, <1>21, <2>1, <2>2, <2>3, <2>4, TypesP DEF bkn_knet_hw_init
<1>22. ASSUME OpenBase PROVE TypeOK' /\ Counts'
  <2>1. k' \in KType
    BY <1>0, <1>22 DEF OpenBase, KType
  <2>2. napi' \in NapiType
    BY <1>0, <1>22 DEF OpenBase, NapiType
  <2>3. lock' \in LockType
    BY <1>22 DEF OpenBase, LockType, Contexts
  <2>4. d' \in DType
    BY <1>0, <1>22 DEF OpenBase, DType, DmaType, DmaCall
  <2>5. Counts'
    BY <1>0, <1>22 DEF OpenBase, Counts, DType, DmaCall
  <2>. QED
    BY <1>0, <1>22, <2>1, <2>2, <2>3, <2>4, <2>5, TypesP DEF OpenBase
<1>23. ASSUME OpenOver PROVE TypeOK' /\ Counts'
  <2>1. k' \in KType
    BY <1>0, <1>23, OpenOverEffect
  <2>2. bde' \in BdeType
    BY <1>0, <1>23, OpenOverEffect
  <2>3. d' \in DType
    BY <1>0, <1>23 DEF OpenOver, DType, DmaType, DmaIdle, Contexts
  <2>4. lock' \in LockType
    BY <1>23 DEF OpenOver, LockType
  <2>5. Counts'
    BY <1>23 DEF OpenOver, Counts, Busy, DmaIdle
  <2>. QED
    BY <1>0, <1>23, <2>1, <2>2, <2>3, <2>4, <2>5, TypesP DEF OpenOver
<1>24. ASSUME StopBase PROVE TypeOK' /\ Counts'
  <2>1. k' \in KType
    BY <1>0, <1>24 DEF StopBase, KType
  <2>2. napi' \in NapiType
    BY <1>24 DEF StopBase, NapiType
  <2>3. Counts'
    BY <1>24 DEF StopBase, Counts
  <2>. QED
    BY <1>0, <1>24, <2>1, <2>2, <2>3, TypesP DEF StopBase
<1>25. ASSUME NEW c \in Contexts, DmaBegin(c) PROVE TypeOK' /\ Counts'
  <2>1. pend' \in PendType
    BY <1>0, <1>25 DEF DmaBegin, PendType
  <2>2. d' \in DType
    BY <1>0, <1>25 DEF DmaBegin, DType, DmaType
  <2>3. Counts'
    BY <1>25 DEF DmaBegin, Counts, Busy
  <2>. QED
    BY <1>0, <1>25, <2>1, <2>2, <2>3, TypesP DEF DmaBegin
<1>26. ASSUME NEW c \in Contexts, DmaTake(c) PROVE TypeOK' /\ Counts'
  <2>1. k' \in KType
    BY <1>0, <1>26 DEF DmaTake, KType
  <2>2. d' \in DType
    BY <1>0, <1>26 DEF DmaTake, DType, DmaType
  <2>3. lock' \in LockType
    BY <1>26 DEF DmaTake, LockType
  <2>4. Counts'
    BY <1>26 DEF DmaTake, Counts, Busy
  <2>. QED
    BY <1>0, <1>26, <2>1, <2>2, <2>3, <2>4, TypesP DEF DmaTake
<1>27. ASSUME NEW c \in Contexts, DmaDelivered(c) PROVE TypeOK' /\ Counts'
  <2>1. lock' \in LockType
    BY <1>27 DEF DmaDelivered, LockType
  <2>2. d' \in DType
    BY <1>0, <1>27 DEF DmaDelivered, DType, DmaType, Counts, Busy
  <2>3. Counts'
    BY <1>0, <1>27 DEF DmaDelivered, Counts, Busy, DType, DmaType
  <2>. QED
    BY <1>0, <1>27, <2>1, <2>2, <2>3, TypesP DEF DmaDelivered
<1>28. ASSUME UNCHANGED vars PROVE TypeOK' /\ Counts'
  BY <1>28 DEF vars, TypeOK, Counts
<1>. QED
  BY <1>1, <1>2, <1>3, <1>4, <1>5, <1>6, <1>7, <1>8, <1>9, <1>10, <1>11,
     <1>12, <1>13, <1>14, <1>15, <1>16, <1>17, <1>18, <1>19, <1>20, <1>21,
     <1>22, <1>23, <1>24, <1>25, <1>26, <1>27, <1>28
  DEF Next, Irq, Poll, Thread, DoDma

-----------------------------------------------------------------------------
(* IrqInDma is inductive. *)
LEMMA IrqInDmaStep == ASSUME TypeOK, IrqInDma, [Next]_vars PROVE IrqInDma'
<1>0. /\ param \in ParamType /\ pend \in PendType /\ bde \in BdeType
      /\ irq \in IrqType /\ thread \in ThreadType /\ k \in KType
      /\ lock \in LockType /\ napi \in NapiType /\ d \in DType
  BY Types
<1>1. ASSUME IrqStart PROVE IrqInDma'
  BY <1>1 DEF IrqStart, IrqInDma, knet
<1>2. ASSUME IrqAllKernelCmic PROVE IrqInDma'
  BY <1>2 DEF IrqAllKernelCmic, IrqInDma, Secondary, AllKernel, knet
<1>3. ASSUME IrqAllKernelCmicm PROVE IrqInDma'
  BY <1>3 DEF IrqAllKernelCmicm, IrqInDma, Secondary, AllKernel, knet
<1>4. ASSUME IrqUser PROVE IrqInDma'
  BY <1>4 DEF IrqUser, IrqInDma, Secondary, knet
<1>5. ASSUME IsrNotOurs PROVE IrqInDma'
  BY <1>5 DEF IsrNotOurs, IrqInDma, knet
<1>6. ASSUME IsrDma PROVE IrqInDma'
  BY <1>0, <1>6 DEF IsrDma, IrqInDma, DmaCall, Contexts, DType
<1>7. ASSUME IsrDmaOver PROVE IrqInDma'
  BY <1>0, <1>7
  DEF IsrDmaOver, IrqInDma, IrqType, DmaIdle, DmaCall, Contexts, DType,
      DmaOver
<1>8. ASSUME IsrNapi PROVE IrqInDma'
  BY <1>8 DEF IsrNapi, IrqInDma, IsrOurs
<1>9. ASSUME IsrSchedule PROVE IrqInDma'
  BY <1>9 DEF IsrSchedule, IrqInDma
<1>10. ASSUME IsrMask PROVE IrqInDma'
  BY <1>10 DEF IsrMask, IrqInDma, knet
<1>11. ASSUME PollStart PROVE IrqInDma'
  BY <1>11 DEF PollStart, IrqInDma
<1>12. ASSUME PollOver PROVE IrqInDma'
  BY <1>0, <1>12, PollOverEffect DEF IrqInDma, Contexts, DType
<1>13. ASSUME PollComplete PROVE IrqInDma'
  BY <1>13 DEF PollComplete, IrqInDma
<1>14. ASSUME PollLeave PROVE IrqInDma'
  BY <1>14 DEF PollLeave, IrqInDma
<1>15. ASSUME OpenBase PROVE IrqInDma'
  BY <1>0, <1>15 DEF OpenBase, IrqInDma, Contexts, DType
<1>16. ASSUME OpenOver PROVE IrqInDma'
  BY <1>16 DEF OpenOver, IrqInDma
<1>17. ASSUME NEW c \in Contexts, DmaBegin(c) PROVE IrqInDma'
  BY <1>17 DEF DmaBegin, IrqInDma
<1>18. ASSUME NEW c \in Contexts, DmaTake(c) PROVE IrqInDma'
  BY <1>18 DEF DmaTake, IrqInDma
<1>19. ASSUME NEW c \in Contexts, DmaDelivered(c) PROVE IrqInDma'
  BY <1>19 DEF DmaDelivered, IrqInDma
<1>20. ASSUME \/ HwUser \/ HwPacket \/ ThreadWakes \/ ThreadClears \/ ThreadHandles
             \/ ThreadUnmasks \/ bkn_knet_hw_init \/ StopBase \/ UNCHANGED vars
  PROVE IrqInDma'
  BY <1>20
  DEF HwUser, HwPacket, ThreadWakes, ThreadClears, ThreadHandles,
      ThreadUnmasks, bkn_knet_hw_init, StopBase, IrqInDma, vars, knet
<1>. QED
  BY <1>1, <1>2, <1>3, <1>4, <1>5, <1>6, <1>7, <1>8, <1>9, <1>10, <1>11,
     <1>12, <1>13, <1>14, <1>15, <1>16, <1>17, <1>18, <1>19, <1>20
  DEF Next, Irq, Poll, Thread, DoDma

-----------------------------------------------------------------------------
(* MaskRight is inductive: whoever changes irq_mask or the poll mode       *)
(* writes the register in the same step, except the handler that switches  *)
(* to the poll mode, which does so before it ends.                         *)
LEMMA MaskStep == ASSUME TypeOK, IrqInDma, MaskRight, [Next]_vars PROVE MaskRight'
<1>0. /\ param \in ParamType /\ pend \in PendType /\ bde \in BdeType
      /\ irq \in IrqType /\ thread \in ThreadType /\ k \in KType
      /\ lock \in LockType /\ napi \in NapiType /\ d \in DType
  BY Types
<1>1. ASSUME HwPacket PROVE MaskRight'
  BY <1>1 DEF HwPacket, MaskRight
<1>2. ASSUME IrqStart PROVE MaskRight'
  BY <1>2 DEF IrqStart, MaskRight, knet
<1>3. ASSUME IrqAllKernelCmic PROVE MaskRight'
  BY <1>0, <1>3, MaskSetUser
  DEF IrqAllKernelCmic, MaskRight, AllKernel, knet, IrqType
<1>4. ASSUME IrqAllKernelCmicm PROVE MaskRight'
  BY <1>4 DEF IrqAllKernelCmicm, MaskRight, knet, AllKernel
<1>5. ASSUME IrqUser PROVE MaskRight'
  BY <1>0, <1>5, MaskSetUser DEF IrqUser, MaskRight, knet
<1>6. ASSUME ThreadUnmasks PROVE MaskRight'
  BY <1>0, <1>6, MaskSetUser DEF ThreadUnmasks, MaskRight, knet
<1>7. ASSUME IsrNotOurs PROVE MaskRight'
  BY <1>7 DEF IsrNotOurs, MaskRight, knet
<1>8. ASSUME IsrDma PROVE MaskRight'
  BY <1>8, MaskSet DEF IsrDma, MaskRight
<1>9. ASSUME IsrDmaOver PROVE MaskRight'
  BY <1>0, <1>9, IsrDmaOverEffect
  DEF IsrDmaOver, DmaOver, IrqInDma, MaskRight
<1>10. ASSUME IsrNapi PROVE MaskRight'
  BY <1>10 DEF IsrNapi, MaskRight
<1>11. ASSUME IsrSchedule PROVE MaskRight'
  BY <1>11 DEF IsrSchedule, MaskRight
<1>12. ASSUME IsrMask PROVE MaskRight'
  BY <1>0, <1>12, MaskSet DEF IsrMask, MaskRight, knet, KType
<1>13. ASSUME PollStart PROVE MaskRight'
  BY <1>13 DEF PollStart, MaskRight
<1>14. ASSUME PollOver PROVE MaskRight'
  BY <1>0, <1>14, PollOverEffect DEF MaskRight, Alike, MaskKept
<1>15. ASSUME PollLeave PROVE MaskRight'
  BY <1>0, <1>15, MaskSet DEF PollLeave, MaskRight, KType
<1>16. ASSUME bkn_knet_hw_init PROVE MaskRight'
  BY <1>0, <1>16, HwInitEffect DEF MaskRight
<1>17. ASSUME OpenBase PROVE MaskRight'
  BY <1>17 DEF OpenBase, MaskRight
<1>18. ASSUME OpenOver PROVE MaskRight'
  BY <1>0, <1>18, OpenOverEffect DEF OpenOver, MaskRight, Alike, MaskKept
<1>19. ASSUME StopBase PROVE MaskRight'
  BY <1>19 DEF StopBase, MaskRight
<1>20. ASSUME NEW c \in Contexts, DmaTake(c) PROVE MaskRight'
  BY <1>20 DEF DmaTake, MaskRight
<1>21. ASSUME \/ HwUser \/ ThreadWakes \/ ThreadClears \/ ThreadHandles \/ PollComplete
             \/ (\E c \in Contexts : DmaBegin(c)) \/ (\E c \in Contexts : DmaDelivered(c)) \/ UNCHANGED vars
  PROVE MaskRight'
  BY <1>21
  DEF HwUser, ThreadWakes, ThreadClears, ThreadHandles, PollComplete,
      DmaBegin, DmaDelivered, MaskRight, vars, knet
<1>. QED
  BY <1>1, <1>2, <1>3, <1>4, <1>5, <1>6, <1>7, <1>8, <1>9, <1>10, <1>11,
     <1>12, <1>13, <1>14, <1>15, <1>16, <1>17, <1>18, <1>19, <1>20, <1>21
  DEF Next, Irq, Poll, Thread, DoDma

-----------------------------------------------------------------------------
(* Apart is inductive if no packet comes and no handler is at work while   *)
(* the base device stops.                                                  *)
LEMMA ApartStep == ASSUME QuietStop, TypeOK, Apart, [Next]_vars PROVE Apart'
<1>0. /\ param \in ParamType /\ pend \in PendType /\ bde \in BdeType
      /\ irq \in IrqType /\ thread \in ThreadType /\ k \in KType
      /\ lock \in LockType /\ napi \in NapiType /\ d \in DType
  BY Types
<1>00. IrqInDma'
  BY IrqInDmaStep DEF Apart
<1>1. ASSUME HwUser PROVE Apart'
  BY <1>00, <1>1
  DEF HwUser, knet, Apart, NapiOrNot, PollMode, Suspended, Quiet
<1>2. ASSUME HwPacket PROVE Apart'
  BY <1>00, <1>2 DEF HwPacket, Apart, NapiOrNot, PollMode, Suspended, Quiet
<1>3. ASSUME IrqStart PROVE Apart'
  BY <1>00, <1>3
  DEF IrqStart, knet, Apart, NapiOrNot, PollMode, Suspended, Quiet
<1>4. ASSUME IrqAllKernelCmic PROVE Apart'
  BY <1>00, <1>4
  DEF IrqAllKernelCmic, Secondary, knet, Apart, AllKernel, NapiOrNot,
      PollMode, Suspended, Quiet
<1>5. ASSUME IrqAllKernelCmicm PROVE Apart'
  BY <1>00, <1>5
  DEF IrqAllKernelCmicm, Secondary, knet, Apart, AllKernel, NapiOrNot,
      PollMode, Suspended, Quiet
<1>6. ASSUME IrqUser PROVE Apart'
  BY <1>00, <1>6
  DEF IrqUser, Secondary, knet, Apart, NapiOrNot, PollMode, Suspended,
      Quiet
<1>7. ASSUME ThreadHandles PROVE Apart'
  BY <1>00, <1>7
  DEF ThreadHandles, knet, Apart, NapiOrNot, PollMode, Suspended, Quiet
<1>8. ASSUME IsrNotOurs PROVE Apart'
  BY <1>00, <1>8
  DEF IsrNotOurs, knet, Apart, NapiOrNot, PollMode, Suspended, Quiet
<1>9. ASSUME IsrDma PROVE Apart'
  BY <1>00, <1>9
  DEF IsrDma, Apart, IsrOurs, NapiOrNot, PollMode, Suspended, Quiet
<1>10. ASSUME IsrDmaOver PROVE Apart'
  <2>1. NapiOrNot'
    BY <1>0, <1>10, IsrDmaOverEffect
    DEF IsrDmaOver, Contexts, DType, Apart, NapiOrNot, IrqType
  <2>2. PollMode'
    BY <1>0, <1>10, IsrDmaOverEffect
    DEF IsrDmaOver, Alike, Contexts, DType, DmaOver, Apart, IrqInDma,
        PollMode, IrqType
  <2>3. Suspended'
    BY <1>0, <1>10, IsrDmaOverEffect
    DEF IsrDmaOver, Alike, Contexts, DType, DmaOver, Apart, Suspended
  <2>4. Quiet'
    BY <1>0, <1>10, IsrDmaOverEffect DEF IsrDmaOver, DmaOver, Apart, Quiet
  <2>. QED
    BY <1>00, <2>1, <2>2, <2>3, <2>4 DEF Apart
<1>11. ASSUME IsrNapi PROVE Apart'
  BY <1>00, <1>11
  DEF IsrNapi, Apart, IsrOurs, NapiOrNot, PollMode, Suspended, Quiet
<1>12. ASSUME IsrSchedule PROVE Apart'
  <2>1. PollMode'
    <3>1. /\ irq.pc = "schedule" /\ irq'.pc = "mask" /\ UNCHANGED <<k, d, param>>
          /\ napi' = IF napi = "idle" THEN "scheduled" ELSE napi
      BY <1>12 DEF IsrSchedule
    <3>2. k.poll_mode /\ d["poll"].pc = "idle" /\ napi # "scheduled" /\ param.use_napi
      BY <3>1, Zenon DEF Apart, PollMode, NapiOrNot
    <3>3. k.inits \in Nat /\ k.inits # 0
      BY <1>0, <3>2, BoundAssumption DEF KType, Apart, Suspended
    <3>4. k.base_up
      BY <3>2, <3>3 DEF Apart, NapiOrNot, Suspended, Quiet
    <3>5. napi = "idle"
      BY <1>0, <3>2, <3>4 DEF NapiType, Apart, PollMode
    <3> QED
      BY <3>1, <3>2, <3>4, <3>5 DEF PollMode
  <2>2. NapiOrNot' /\ Suspended' /\ Quiet'
    BY <1>12 DEF IsrSchedule, Apart, NapiOrNot, Suspended, Quiet
  <2>. QED
    BY <1>00, <2>1, <2>2 DEF Apart
<1>13. ASSUME IsrMask PROVE Apart'
  BY <1>00, <1>13
  DEF IsrMask, Apart, knet, NapiOrNot, PollMode, Suspended, Quiet
<1>14. ASSUME PollStart PROVE Apart'
  BY <1>00, <1>14
  DEF PollStart, Apart, DmaCall, NapiOrNot, PollMode, Suspended, Quiet
<1>15. ASSUME PollOver PROVE Apart'
  <2>1. NapiOrNot'
    BY <1>0, <1>15, PollOverEffect DEF Apart, NapiOrNot
  <2>2. PollMode'
    BY <1>0, <1>15, PollOverEffect
    DEF Alike, DmaIdle, DType, DmaType, Apart, Busy, PollMode
  <2>3. Suspended'
    BY <1>0, <1>15, PollOverEffect
    DEF Alike, Contexts, DType, Apart, PollMode, Suspended
  <2>4. Quiet'
    BY <1>0, <1>15, PollOverEffect DEF Contexts, DType, Apart, Quiet
  <2>. QED
    BY <1>00, <2>1, <2>2, <2>3, <2>4 DEF Apart
<1>16. ASSUME PollComplete PROVE Apart'
  <2>1. PollMode'
    BY <1>0, <1>16 DEF PollComplete, Contexts, DType, Apart, Busy, PollMode
  <2>2. NapiOrNot' /\ Suspended' /\ Quiet'
    BY <1>16 DEF PollComplete, Apart, NapiOrNot, Suspended, Quiet
  <2>. QED
    BY <1>00, <2>1, <2>2 DEF Apart
<1>17. ASSUME PollLeave PROVE Apart'
  <2>1. PollMode'
    BY <1>0, <1>17
    DEF PollLeave, DmaIdle, Contexts, DType, Apart, Busy, PollMode
  <2>2. NapiOrNot' /\ Suspended' /\ Quiet'
    BY <1>17 DEF PollLeave, Apart, NapiOrNot, Suspended, Quiet
  <2>. QED
    BY <1>00, <2>1, <2>2 DEF Apart
<1>18. ASSUME bkn_knet_hw_init PROVE Apart'
  <2>0. /\ pend'.knet = FALSE /\ UNCHANGED <<param, irq, napi, d>>
        /\ k'.poll_mode = k.poll_mode /\ k'.base_up = k.base_up
        /\ k'.work = 0 /\ k'.inits = k.inits + 1 /\ k.inits \in Nat
        /\ k'.basedev_suspended
              <=> (k.basedev_suspended \/ (param.basedev_suspend /\ ~k.base_up))
    <3>1. k.inits \in Nat
      BY <1>0 DEF KType
    <3> QED
      BY <1>0, <1>18, <3>1, HwInitEffect, Zenon
  <2>1. NapiOrNot'
    BY <1>0, <1>18, HwInitEffect, BoundAssumption DEF Apart, NapiOrNot
  <2>2. PollMode'
    BY <1>0, <1>18, HwInitEffect, BoundAssumption DEF Apart, PollMode
  <2>3. Suspended'
    <3>1. k'.inits # 0
      BY <2>0
    <3>2. k'.basedev_suspended => param'.basedev_suspend
      BY <2>0, Zenon DEF Apart, Suspended
    <3>3. param'.basedev_suspend /\ ~k'.base_up => k'.basedev_suspended
      BY <2>0, Zenon
    <3>4. d'["open"].pc # "idle" => k'.basedev_suspended /\ k'.base_up
      BY <2>0, Zenon DEF Apart, Suspended
    <3> QED
      BY <3>1, <3>2, <3>3, <3>4 DEF Suspended
  <2>4. Quiet'
    <3>1. CASE k.basedev_suspended
      BY <2>0, <3>1, Zenon DEF Apart, Quiet
    <3>2. CASE ~k.basedev_suspended /\ param.basedev_suspend /\ ~k.base_up
      <4>1. k.inits = 0
        BY <2>0, <3>2 DEF Apart, Suspended
      <4> QED
        BY <2>0, <4>1, Zenon DEF Apart, Suspended, Quiet
    <3> QED
      BY <2>0, <3>1, <3>2, Zenon DEF Quiet
  <2>. QED
    BY <1>00, <2>1, <2>2, <2>3, <2>4 DEF Apart
<1>19. ASSUME OpenBase PROVE Apart'
  <2>1. NapiOrNot'
    BY <1>0, <1>19 DEF OpenBase, Contexts, DType, Apart, NapiOrNot
  <2>2. PollMode'
    BY <1>0, <1>19 DEF OpenBase, Contexts, DType, Apart, PollMode
  <2>3. Quiet'
    BY <1>0, <1>19 DEF OpenBase, Contexts, DType, Apart, Quiet
  <2>4. Suspended'
    BY <1>19 DEF OpenBase, Apart, Suspended
  <2>. QED
    BY <1>00, <2>1, <2>2, <2>3, <2>4 DEF Apart
<1>20. ASSUME OpenOver PROVE Apart'
  <2>1. NapiOrNot'
    BY <1>20, OpenOverEffect DEF OpenOver, Apart, NapiOrNot
  <2>2. PollMode'
    BY <1>0, <1>20, OpenOverEffect
    DEF OpenOver, Alike, Contexts, DType, Apart, PollMode
  <2>3. Suspended'
    BY <1>0, <1>20, OpenOverEffect
    DEF OpenOver, Alike, DmaIdle, Contexts, DType, DmaOver, Apart,
        Suspended
  <2>4. Quiet'
    BY <1>0, <1>20, OpenOverEffect DEF Quiet
  <2>. QED
    BY <1>00, <2>1, <2>2, <2>3, <2>4 DEF Apart
<1>21. ASSUME StopBase PROVE Apart'
  <2>1. PollMode'
    BY <1>21 DEF StopBase, Apart, NapiOrNot, PollMode
  <2>2. Suspended'
    BY <1>0, <1>21 DEF StopBase, Apart, Suspended, ParamType
  <2>3. Quiet'
    BY <1>0, <1>21 DEF StopBase, Apart, Quiet, ParamType
  <2>4. NapiOrNot'
    BY <1>21 DEF StopBase, Apart, NapiOrNot
  <2>. QED
    BY <1>00, <2>1, <2>2, <2>3, <2>4 DEF Apart
<1>22. ASSUME NEW c \in Contexts, DmaBegin(c) PROVE Apart'
  <2>1. PollMode'
    BY <1>22 DEF DmaBegin, Apart, Busy, PollMode
  <2>2. NapiOrNot' /\ Suspended' /\ Quiet'
    BY <1>22 DEF DmaBegin, Apart, NapiOrNot, Suspended, Quiet
  <2>. QED
    BY <1>00, <2>1, <2>2 DEF Apart
<1>23. ASSUME NEW c \in Contexts, DmaTake(c) PROVE Apart'
  <2>1. PollMode'
    BY <1>23 DEF DmaTake, Apart, Busy, PollMode
  <2>2. NapiOrNot' /\ Suspended' /\ Quiet'
    BY <1>23 DEF DmaTake, Apart, NapiOrNot, Suspended, Quiet
  <2>. QED
    BY <1>00, <2>1, <2>2 DEF Apart
<1>24. ASSUME NEW c \in Contexts, DmaDelivered(c) PROVE Apart'
  <2>1. PollMode'
    BY <1>24 DEF DmaDelivered, Apart, Busy, PollMode
  <2>2. NapiOrNot' /\ Suspended' /\ Quiet'
    BY <1>24 DEF DmaDelivered, Apart, NapiOrNot, Suspended, Quiet
  <2>. QED
    BY <1>00, <2>1, <2>2 DEF Apart
<1>25. ASSUME ThreadWakes \/ ThreadClears \/ ThreadUnmasks \/ UNCHANGED vars PROVE Apart'
  <2>1. UNCHANGED <<param, pend, irq, k, napi, d>>
    BY <1>25 DEF ThreadWakes, ThreadClears, ThreadUnmasks, vars, knet
  <2> QED
    BY <2>1 DEF Apart, IrqInDma, NapiOrNot, PollMode, Suspended, Quiet
<1>. QED
  BY <1>1, <1>2, <1>3, <1>4, <1>5, <1>6, <1>7, <1>8, <1>9, <1>10, <1>11,
     <1>12, <1>13, <1>14, <1>15, <1>16, <1>17, <1>18, <1>19, <1>20, <1>21,
     <1>22, <1>23, <1>24, <1>25
  DEF Next, Irq, Poll, Thread, DoDma

-----------------------------------------------------------------------------
(* The initial states. *)
LEMMA InitInv == Init => TypeOK /\ Counts /\ IrqInDma /\ MaskRight /\ Apart
<1>. SUFFICES ASSUME Init PROVE TypeOK /\ Counts /\ IrqInDma /\ MaskRight /\ Apart
  OBVIOUS
<1>. USE BudgetAssumption, BoundAssumption
<1>1. TypeOK
  BY DEF Init, TypeOK, DmaIdle
<1>2. Counts /\ IrqInDma /\ MaskRight
  BY DEF Init, Counts, Busy, IrqInDma, MaskRight, DmaIdle, Contexts
<1>3. Apart
  BY DEF Init, Apart, IrqInDma, NapiOrNot, PollMode, Suspended, Quiet,
         Busy, DmaIdle, Contexts
<1> QED
  BY <1>1, <1>2, <1>3

(* Type correctness, and what the activations of do_dma may still take.    *)
THEOREM IrqTypeCorrect == Spec => [](TypeOK /\ Counts)
<1>1. Init => TypeOK /\ Counts
  BY InitInv
<1>2. TypeOK /\ Counts /\ [Next]_vars => (TypeOK /\ Counts)'
  BY TypeStep
<1> QED
  BY <1>1, <1>2, PTL DEF Spec

(* The mask register has KNET's interrupts enabled exactly if KNET wants   *)
(* them whenever none of its handlers is at work, whatever the base device *)
(* and the packets do.                                                     *)
THEOREM IrqMaskRestored == Spec => []MaskRestored
<1>1. Init => IrqInDma /\ MaskRight
  BY InitInv
<1>2. TypeOK /\ IrqInDma /\ MaskRight /\ [Next]_vars => (IrqInDma /\ MaskRight)'
  BY IrqInDmaStep, MaskStep
<1>3. MaskRight => MaskRestored
  BY DEF MaskRight, MaskRestored
<1> QED
  BY <1>1, <1>2, <1>3, IrqTypeCorrect, PTL DEF Spec

(* If no packet DMA goes on while the base device is stopped, the poll     *)
(* mode never outlasts the poll, as it does otherwise (run napi_stuck).    *)
THEOREM IrqPollModeHasPoll == QuietStop => (Spec => []PollModeHasPoll)
<1>. SUFFICES ASSUME QuietStop PROVE Spec => []PollModeHasPoll
  OBVIOUS
<1>1. Init => Apart
  BY InitInv
<1>2. TypeOK /\ Apart /\ [Next]_vars => Apart'
  BY ApartStep
<1>3. Apart => PollModeHasPoll
  BY DEF Apart, PollMode, PollModeHasPoll
<1> QED
  BY <1>1, <1>2, <1>3, IrqTypeCorrect, PTL DEF Spec

=============================================================================
