----------------------------- MODULE Interrupts -----------------------------
(***************************************************************************)
(* The way of an interrupt of one switch device through three modules:     *)
(*                                                                         *)
(*   linux-kernel-bde.c   one handler (_isr) and one mask register, shared *)
(*                        by a primary and a secondary driver;             *)
(*   linux-user-bde.c     the primary: masks its interrupts and wakes the  *)
(*                        interrupt thread of the SDK in user space;       *)
(*   bcm-knet.c           the secondary: handles packet DMA, in the        *)
(*                        handler itself or in the NAPI poll.              *)
(*                                                                         *)
(* The mask register always holds imask | imask2: the bits of the primary  *)
(* ("user", everything but packet DMA) and of the secondary ("knet").      *)
(* Interrupts are levels.  Packet DMA is reduced to a number of DCBs that  *)
(* are done (work); KnetRx and KnetTx model the rings.                     *)
(*                                                                         *)
(* KNET's handlers run under sinfo->lock, which they release to hand a     *)
(* packet to the stack and to call NAPI.                                   *)
(***************************************************************************)
EXTENDS Integers

CONSTANTS
    Budget,         \* DCBs one call of do_dma may take
    MAX_WORK,       \* bound: DCBs done and not taken
    MAX_EVENTS,     \* bound: packets received
    MAX_INITS,      \* bound: hw_init commands after the first
    QuietStop       \* is there no packet DMA while the base device is stopped?

ASSUME BudgetAssumption == Budget \in Nat /\ Budget >= 1
ASSUME BoundAssumption == {MAX_WORK, MAX_EVENTS, MAX_INITS} \subseteq Nat
ASSUME ParamAssumption == QuietStop \in BOOLEAN

VARIABLES
    param,      \* what the device is and the module parameters
    pend,       \* the interrupt status register
    bde,        \* bde_ctrl_t of the kernel BDE
    irq,        \* _isr, which does not run twice at the same time
    thread,     \* the SDK's interrupt thread and the flag it waits for
    k,          \* bkn_switch_info_t
    lock,       \* sinfo->lock: who holds it
    napi,       \* the NAPI context of the base device
    d           \* the activations of do_dma

vars == <<param, pend, bde, irq, thread, k, lock, napi, d>>
knet == <<k, lock, napi, d>>

Contexts == {"irq", "poll", "open"}
DmaIdle == [pc |-> "idle", left |-> 0, count |-> 0]
DmaCall == [pc |-> "begin", left |-> Budget, count |-> 0]

-----------------------------------------------------------------------------
(* The kernel BDE.                                                         *)

(* lkbde_irq_mask_set for the primary and for the secondary driver.  The   *)
(* secondary's filter mask takes effect with its first call.               *)
lkbde_irq_mask_set(b, mask) == [b EXCEPT !.imask = mask]
lkbde_irq_mask_set2(b, mask) == [b EXCEPT !.imask2 = mask, !.fmask = TRUE]

Enabled(src) == IF src = "user" THEN bde.imask ELSE bde.imask2

(* KNET never enables the register in poll mode (xgs_irq_mask_set). *)
irq_mask_set(b, s, mask) == lkbde_irq_mask_set2(b, mask /\ ~s.poll_mode)

-----------------------------------------------------------------------------
Init ==
    /\ param \in {p \in [use_napi : BOOLEAN, basedev_suspend : BOOLEAN,
                         cmic : {"e", "m"}] : p.use_napi => p.basedev_suspend}
    /\ pend = [user |-> FALSE, knet |-> FALSE]
    /\ bde = [isr2 |-> FALSE, fmask |-> FALSE, imask |-> TRUE, imask2 |-> FALSE]
    /\ irq = [pc |-> "idle", imask |-> FALSE, fmask |-> FALSE]
    /\ thread = [pc |-> "wait", intr |-> FALSE]
    /\ k = [irq_mask |-> FALSE, poll_mode |-> FALSE, poll_again |-> FALSE,
            base_up |-> FALSE, basedev_suspended |-> FALSE,
            work |-> 0, events |-> 0, inits |-> 0]
    /\ lock = "none"
    /\ napi = "disabled"
    /\ d = [c \in Contexts |-> DmaIdle]

(* The hardware (external). *)
HwUser ==
    /\ ~pend.user
    /\ pend' = [pend EXCEPT !.user = TRUE]
    /\ UNCHANGED <<param, bde, irq, thread, knet>>

HwPacket ==
    /\ k.irq_mask /\ k.work < MAX_WORK /\ k.events < MAX_EVENTS
    /\ QuietStop => ~k.basedev_suspended
    /\ pend' = [pend EXCEPT !.knet = TRUE]
    /\ k' = [k EXCEPT !.work = @ + 1, !.events = @ + 1]
    /\ UNCHANGED <<param, bde, irq, thread, lock, napi, d>>

-----------------------------------------------------------------------------
(* The interrupt.  _isr calls the primary handler, which asks the kernel   *)
(* BDE for the masks (lkbde_irq_mask_get, without its lock) ...            *)
IrqStart ==
    /\ irq.pc = "idle"
    /\ (pend.user /\ Enabled("user")) \/ (pend.knet /\ Enabled("knet"))
    /\ irq' = [pc |-> "user", imask |-> bde.imask, fmask |-> bde.fmask]
    /\ UNCHANGED <<param, pend, bde, thread, knet>>

Secondary == irq' = [irq EXCEPT !.pc = IF bde.isr2 THEN "knet" ELSE "idle"]

(* ... and returns if a secondary handler is there and no interrupt of its *)
(* own is pending.  On a CMIC it writes its mask back first                *)
(* (_cmic_interrupt); the later variants just return (_cmicm_interrupt).   *)
AllKernel == irq.pc = "user" /\ irq.fmask /\ ~(pend.user /\ irq.imask)

IrqAllKernelCmic ==
    /\ AllKernel /\ param.cmic = "e"
    /\ Secondary
    /\ bde' = lkbde_irq_mask_set(bde, irq.imask)
    /\ UNCHANGED <<param, pend, thread, knet>>

IrqAllKernelCmicm ==
    /\ AllKernel /\ param.cmic = "m"
    /\ Secondary
    /\ UNCHANGED <<param, pend, bde, thread, knet>>

(* Mutant of IrqUser: nobody is woken. *)
IrqUserNoWake ==
    /\ irq.pc = "user" /\ ~AllKernel
    /\ Secondary
    /\ bde' = lkbde_irq_mask_set(bde, FALSE)
    /\ UNCHANGED <<param, pend, thread, knet>>

(* Otherwise it masks its interrupts and wakes the thread. *)
IrqUser ==
    /\ irq.pc = "user" /\ ~AllKernel
    /\ Secondary
    /\ bde' = lkbde_irq_mask_set(bde, FALSE)
    /\ thread' = [thread EXCEPT !.intr = TRUE]
    /\ UNCHANGED <<param, pend, knet>>

(* LUBDE_WAIT_FOR_INTERRUPT; the wait also ends with a signal or a         *)
(* time-out.                                                               *)
ThreadWakes ==
    /\ thread.pc = "wait"
    /\ thread' = [thread EXCEPT !.pc = "clear"]
    /\ UNCHANGED <<param, pend, bde, irq, knet>>

ThreadClears ==
    /\ thread.pc = "clear"
    /\ thread' = [pc |-> "handle", intr |-> FALSE]
    /\ UNCHANGED <<param, pend, bde, irq, knet>>

(* The SDK (external) handles what is pending and unmasks its interrupts   *)
(* with LUBDE_WRITE_IRQ_MASK.                                              *)
ThreadHandles ==
    /\ thread.pc = "handle"
    /\ thread' = [thread EXCEPT !.pc = "unmask"]
    /\ pend' = [pend EXCEPT !.user = FALSE]
    /\ UNCHANGED <<param, bde, irq, knet>>

ThreadUnmasks ==
    /\ thread.pc = "unmask"
    /\ thread' = [thread EXCEPT !.pc = "wait"]
    /\ bde' = lkbde_irq_mask_set(bde, TRUE)
    /\ UNCHANGED <<param, pend, irq, knet>>

-----------------------------------------------------------------------------
(* do_dma, called by c, which holds the lock.  It acknowledges the         *)
(* interrupt first and takes the DCBs afterwards.                          *)
DmaBegin(c) ==
    /\ d[c].pc = "begin"
    /\ pend' = [pend EXCEPT !.knet = FALSE]
    /\ d' = [d EXCEPT ![c].pc = "take"]
    /\ UNCHANGED <<param, bde, irq, thread, k, lock, napi>>

DmaTake(c) ==
    /\ d[c].pc = "take" /\ k.work > 0 /\ d[c].left > 0
    /\ k' = [k EXCEPT !.work = @ - 1]
    /\ d' = [d EXCEPT ![c].pc = "deliver"]
    /\ lock' = "none"
    /\ UNCHANGED <<param, pend, bde, irq, thread, napi>>

DmaDelivered(c) ==
    /\ d[c].pc = "deliver" /\ lock = "none"
    /\ lock' = c
    /\ d' = [d EXCEPT ![c] = [pc |-> "take", left |-> @.left - 1, count |-> @.count + 1]]
    /\ UNCHANGED <<param, pend, bde, irq, thread, k, napi>>

(* bkn_rx_restart of a channel; in poll mode it asks for one more poll. *)
Restarted(s) == [s EXCEPT !.irq_mask = TRUE, !.poll_again = @ \/ s.poll_mode]

DmaOver(c) == d[c].pc = "take" /\ (k.work = 0 \/ d[c].left = 0)

(* do_dma is at its end: it may have restarted channels that had stopped.  *)
ChainsDone ==
    {[s |-> k, b |-> bde]} \cup
    (IF k.basedev_suspended THEN {}
     ELSE {[s |-> Restarted(k), b |-> irq_mask_set(bde, k, TRUE)]})

-----------------------------------------------------------------------------
(* KNET's interrupt handler, bkn_isr. *)

(* It has nothing to do, or a poll will do it. *)
IsrNotOurs ==
    /\ irq.pc = "knet"
    /\ \/ ~k.irq_mask
       \/ lock = "none" /\ (k.poll_mode \/ ~pend.knet)
    /\ irq' = [irq EXCEPT !.pc = "idle"]
    /\ UNCHANGED <<param, pend, bde, thread, knet>>

IsrOurs == irq.pc = "knet" /\ lock = "none" /\ k.irq_mask /\ ~k.poll_mode /\ pend.knet

(* Without NAPI: disable the interrupt and call do_dma. *)
IsrDma ==
    /\ IsrOurs /\ ~param.use_napi
    /\ lock' = "irq"
    /\ bde' = irq_mask_set(bde, k, FALSE)
    /\ irq' = [irq EXCEPT !.pc = "dma"]
    /\ d' = [d EXCEPT !["irq"] = DmaCall]
    /\ UNCHANGED <<param, pend, thread, k, napi>>

(* The interrupt mask is restored when do_dma has found nothing to do. *)

(* Mutant of IsrDmaOver: do_dma is not called again. *)
IsrDmaOverOnce ==
    /\ DmaOver("irq")
    /\ k' = k
    /\ d' = [d EXCEPT !["irq"] = DmaIdle]
    /\ bde' = irq_mask_set(bde, k, k.irq_mask)
    /\ irq' = [irq EXCEPT !.pc = "idle"]
    /\ lock' = "none"
    /\ UNCHANGED <<param, pend, thread, napi>>

IsrDmaOver ==
    /\ DmaOver("irq")
    /\ \E after \in ChainsDone :
          /\ k' = after.s
          /\ \/ /\ d["irq"].count > 0
                /\ d' = [d EXCEPT !["irq"] = DmaCall]
                /\ bde' = after.b
                /\ UNCHANGED <<irq, lock>>
             \/ /\ d["irq"].count = 0
                /\ d' = [d EXCEPT !["irq"] = DmaIdle]
                /\ bde' = irq_mask_set(after.b, after.s, after.s.irq_mask)
                /\ irq' = [irq EXCEPT !.pc = "idle"]
                /\ lock' = "none"
    /\ UNCHANGED <<param, pend, thread, napi>>

(* With NAPI (bkn_schedule_napi_poll): the lock is released to schedule    *)
(* the poll.                                                               *)
IsrNapi ==
    /\ IsrOurs /\ param.use_napi
    /\ k' = [k EXCEPT !.poll_mode = TRUE]
    /\ irq' = [irq EXCEPT !.pc = "schedule"]
    /\ UNCHANGED <<param, pend, bde, thread, lock, napi, d>>

IsrSchedule ==
    /\ irq.pc = "schedule"
    /\ napi' = IF napi = "idle" THEN "scheduled" ELSE napi
    /\ irq' = [irq EXCEPT !.pc = "mask"]
    /\ UNCHANGED <<param, pend, bde, thread, k, lock, d>>

IsrMask ==
    /\ irq.pc = "mask" /\ lock = "none"
    /\ bde' = irq_mask_set(bde, k, k.irq_mask)
    /\ irq' = [irq EXCEPT !.pc = "idle"]
    /\ UNCHANGED <<param, pend, thread, knet>>

-----------------------------------------------------------------------------
(* The NAPI poll, bkn_poll. *)
PollStart ==
    /\ napi = "scheduled" /\ d["poll"].pc = "idle" /\ lock = "none"
    /\ lock' = "poll"
    /\ k' = [k EXCEPT !.poll_again = FALSE]
    /\ d' = [d EXCEPT !["poll"] = DmaCall]
    /\ UNCHANGED <<param, pend, bde, irq, thread, napi>>

PollOver ==
    /\ DmaOver("poll")
    /\ \E after \in ChainsDone :
          /\ k' = after.s /\ bde' = after.b
          /\ d' = [d EXCEPT !["poll"] = IF after.s.poll_again \/ @.left = 0 THEN DmaIdle
                                        ELSE [@ EXCEPT !.pc = "complete"]]
    /\ lock' = "none"
    /\ UNCHANGED <<param, pend, irq, thread, napi>>

(* bkn_napi_poll_complete *)
PollComplete ==
    /\ d["poll"].pc = "complete"
    /\ napi' = "idle"
    /\ d' = [d EXCEPT !["poll"].pc = "leave"]
    /\ UNCHANGED <<param, pend, bde, irq, thread, k, lock>>

(* Mutant of PollLeave: the register is not written. *)
PollLeaveMasked ==
    /\ d["poll"].pc = "leave" /\ lock = "none"
    /\ k' = [k EXCEPT !.poll_mode = FALSE]
    /\ d' = [d EXCEPT !["poll"] = DmaIdle]
    /\ UNCHANGED <<param, pend, bde, irq, thread, lock, napi>>

PollLeave ==
    /\ d["poll"].pc = "leave" /\ lock = "none"
    /\ k' = [k EXCEPT !.poll_mode = FALSE]
    /\ bde' = irq_mask_set(bde, [k EXCEPT !.poll_mode = FALSE], k.irq_mask)
    /\ d' = [d EXCEPT !["poll"] = DmaIdle]
    /\ UNCHANGED <<param, pend, irq, thread, lock, napi>>

-----------------------------------------------------------------------------
(* KCOM_M_HW_INIT: abort and clean the channels, connect the handler,      *)
(* start the channels, for which there may be no memory.                   *)
bkn_knet_hw_init ==
    /\ lock = "none" /\ k.inits <= MAX_INITS
    /\ LET suspended == k.basedev_suspended \/ (param.basedev_suspend /\ ~k.base_up)
           s == [k EXCEPT !.basedev_suspended = suspended, !.irq_mask = FALSE,
                          !.work = 0, !.inits = @ + 1]
           b == [irq_mask_set(bde, k, FALSE) EXCEPT !.isr2 = TRUE]
       IN  \/ k' = s /\ bde' = b
           \/ ~suspended /\ k' = Restarted(s) /\ bde' = irq_mask_set(b, s, TRUE)
    /\ pend' = [pend EXCEPT !.knet = FALSE]
    /\ UNCHANGED <<param, irq, thread, lock, napi, d>>

(* bkn_open of the base device; it calls do_dma if it was suspended. *)

OpenBase ==
    /\ ~k.base_up /\ lock = "none"
    /\ k' = [k EXCEPT !.base_up = TRUE]
    /\ napi' = IF param.use_napi THEN "idle" ELSE napi
    /\ IF k.basedev_suspended THEN lock' = "open" /\ d' = [d EXCEPT !["open"] = DmaCall]
                              ELSE UNCHANGED <<lock, d>>
    /\ UNCHANGED <<param, pend, bde, irq, thread>>

OpenOver ==
    /\ DmaOver("open")
    /\ LET s == [k EXCEPT !.basedev_suspended = FALSE]
       IN  \/ k' = s /\ bde' = bde
           \/ k' = Restarted(s) /\ bde' = irq_mask_set(bde, s, TRUE)
    /\ d' = [d EXCEPT !["open"] = DmaIdle]
    /\ lock' = "none"
    /\ UNCHANGED <<param, pend, irq, thread, napi>>

(* bkn_stop of the base device.  napi_disable waits for the poll.  If      *)
(* QuietStop, no packet is in the ring or on its way.  Not modelled: a     *)
(* stop before the first hw_init, after which bkn_open would call do_dma   *)
(* with rx_chans = 0 and divide by it.                                     *)
StopBase ==
    /\ k.base_up /\ lock = "none" /\ d["open"].pc = "idle" /\ k.inits > 0
    /\ param.use_napi => napi = "idle"
    /\ QuietStop /\ param.basedev_suspend =>
          ~pend.knet /\ k.work = 0 /\ ~k.poll_mode /\ d["irq"].pc = "idle"
    /\ napi' = "disabled"
    /\ k' = [k EXCEPT !.base_up = FALSE,
                      !.basedev_suspended = @ \/ param.basedev_suspend]
    /\ UNCHANGED <<param, pend, bde, irq, thread, lock, d>>

-----------------------------------------------------------------------------
DoDma == \E c \in Contexts : DmaBegin(c) \/ DmaTake(c) \/ DmaDelivered(c)
Irq == IrqAllKernelCmic \/ IrqAllKernelCmicm \/ IrqUser \/ IsrNotOurs \/ IsrDma \/ IsrDmaOver
         \/ IsrNapi \/ IsrSchedule \/ IsrMask
Poll == PollStart \/ PollOver \/ PollComplete \/ PollLeave
Thread == ThreadClears \/ ThreadHandles \/ ThreadUnmasks

Next ==
    \/ HwUser \/ HwPacket
    \/ IrqStart \/ Irq \/ DoDma \/ Poll
    \/ ThreadWakes \/ Thread
    \/ bkn_knet_hw_init \/ OpenBase \/ OpenOver \/ StopBase

Spec == Init /\ [][Next]_vars

(* An interrupt that is pending and enabled is served, handlers and polls  *)
(* run to their end and get the lock in turn, the thread runs when it is   *)
(* woken; its wait need not end otherwise.                                 *)
Fairness ==
    /\ WF_vars(IrqStart) /\ SF_vars(Irq) /\ WF_vars(DoDma)
    /\ SF_vars(Poll) /\ WF_vars(OpenOver)
    /\ WF_vars(ThreadWakes /\ thread.intr) /\ WF_vars(Thread)
FairSpec == Spec /\ Fairness

-----------------------------------------------------------------------------
TypeOK ==
    /\ param \in [use_napi : BOOLEAN, basedev_suspend : BOOLEAN, cmic : {"e", "m"}]
    /\ pend \in [user : BOOLEAN, knet : BOOLEAN]
    /\ bde \in [isr2 : BOOLEAN, fmask : BOOLEAN, imask : BOOLEAN, imask2 : BOOLEAN]
    /\ irq \in [pc : {"idle", "user", "knet", "dma", "schedule", "mask"},
                imask : BOOLEAN, fmask : BOOLEAN]
    /\ thread \in [pc : {"wait", "clear", "handle", "unmask"}, intr : BOOLEAN]
    /\ k \in [irq_mask : BOOLEAN, poll_mode : BOOLEAN, poll_again : BOOLEAN,
              base_up : BOOLEAN, basedev_suspended : BOOLEAN, work : 0 .. MAX_WORK,
              events : 0 .. MAX_EVENTS, inits : 0 .. MAX_INITS + 1]
    /\ lock \in Contexts \cup {"none"}
    /\ napi \in {"disabled", "idle", "scheduled"}
    /\ d \in [Contexts -> [pc : {"idle", "begin", "take", "deliver", "complete", "leave"},
                           left : 0 .. Budget, count : 0 .. Budget]]

(* KNET's interrupts stay off in poll mode only while a poll is under way  *)
(* that will end the mode.  bkn_schedule_napi_poll (bcm-knet.c:4308):      *)
(* "Disable interrupts until poll job is complete".                        *)
PollModeHasPoll ==
    k.poll_mode =>
        \/ irq.pc = "schedule"
        \/ napi = "scheduled"
        \/ d["poll"].pc # "idle"

(* When none of KNET's handlers is at work, the mask register has KNET's   *)
(* interrupts enabled exactly if KNET wants them (xgs_isr, bkn_poll,       *)
(* bkn_rx_restart all write it).                                           *)
MaskRestored ==
    irq.pc \in {"idle", "user"} /\ d["poll"].pc = "idle" =>
        bde.imask2 = (k.irq_mask /\ ~k.poll_mode)

(* Two activations of do_dma never work on the rings at the same time,     *)
(* although each releases the lock for every packet.  No run checks this:  *)
(* the code keeps it only if no packet arrives while the base device is    *)
(* stopped (QuietStop).  Otherwise bkn_open (bcm-knet.c:4739) meets a      *)
(* handler that has released the lock.                                     *)
OneHandler ==
    \A c1, c2 \in Contexts :
        d[c1].pc \in {"take", "deliver"} /\ d[c2].pc \in {"take", "deliver"} => c1 = c2

(* Every packet is taken: no interrupt is lost between the handler, the    *)
(* poll and the mask register.                                             *)
PacketsTaken == k.work > 0 ~> k.work = 0

(* The SDK's thread handles every interrupt of the primary driver: the     *)
(* interrupt thread unmasks interrupts again when interrupt handling is    *)
(* complete (linux-user-bde.c:229), and this has to last.                  *)
UserServedAlways == pend.user ~> ~pend.user

(* It does where the handler leaves the mask alone (_cmicm_interrupt). *)
UserServed == param.cmic = "m" => UserServedAlways

=============================================================================
