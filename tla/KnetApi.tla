------------------------------ MODULE KnetApi ------------------------------
(***************************************************************************)
(* An Rx channel of device 0 whose packets go to the BCM API in user space *)
(* (bcm-knet.c), in the mode where the channel stops at the end of each    *)
(* chain, composed with the events that tell the process about it          *)
(* (KnetEvents).                                                           *)
(*                                                                         *)
(* The process gives KNET chains of DCBs (bkn_knet_dma_info); a kernel     *)
(* record, bkn_dcb_chain_t, stands for each.  One chain is active, the     *)
(* others are queued.  Either the hardware writes into the DCBs of the     *)
(* active chain (use_rx_skb = 0), or the handler of the Linux channel      *)
(* copies packets into them.  The process takes its DCBs back one by one   *)
(* when an event says that DMA is done, and may give KNET a chain again    *)
(* whose record the driver has not freed yet.                              *)
(***************************************************************************)
EXTENDS KnetEvents, Sequences, FiniteSetsExt, Functions

CONSTANTS
    Chains,             \* the DCB chains of the process, in DMA memory
    DCB_CNT,            \* DCBs of a chain
    RECORDS,            \* bkn_dcb_chain_t that exist at most
    rx_sync_retry,      \* module parameter: rounds to wait for a late DCB
    basedev_suspend,    \* module parameter: pause traffic till the base device is up
    MAX_RESETS          \* bound: resets of the channel

ASSUME ChainAssumption == Chains # {} /\ DCB_CNT \in Nat \ {0} /\ RECORDS \in Nat \ {0}
ASSUME RetryAssumption == rx_sync_retry \in Nat /\ MAX_RESETS \in Nat
ASSUME SuspendAssumption == basedev_suspend \in BOOLEAN

VARIABLES
    dcb,        \* the state of each DCB
    rec,        \* the bkn_dcb_chain_t
    refused,    \* those of chains for an invalid channel
    api,        \* sinfo->rx[0], its part of sinfo, and the DMA channel
    h,          \* the DMA handler
    base_up,    \* netif_running() of the base device
    resets      \* resets so far

apivars == <<dcb, rec, refused, api, h, base_up, resets>>
allvars == <<apivars, evvars>>

Idx == 1 .. DCB_CNT
Recs == 1 .. RECORDS
None == 0                       \* NULL
AnyChain == CHOOSE c \in Chains : TRUE
Stopped == [st |-> "idle", chain |-> AnyChain, idx |-> 1]

(* A DCB: the process has it; given to KNET; the hardware has set its done *)
(* bit; the driver has set SOC_DCB_KNET_DONE.                              *)
DcbStates == {"own", "new", "filled", "done"}

ApiType ==
    [on : BOOLEAN,                  \* is there an API channel?
     use_rx_skb : BOOLEAN,          \* does the Linux channel feed it?
     posted : BOOLEAN,              \* the platform's DCB writes arrive late
     api_dcb_list : Seq(Recs), api_dcb_chain : Recs \cup {None},
     api_active : BOOLEAN, chain_complete : BOOLEAN,
     basedev_suspended : BOOLEAN,
     irq : BOOLEAN, desc_done : BOOLEAN, chain_done : BOOLEAN,
     late : BOOLEAN,                \* is the write-back of DCB dma.idx under way?
     warm : BOOLEAN,                \* after wb_cleanup: the process is gone
     dma : [st : {"idle", "rx", "clash"}, chain : Chains, idx : Idx]]

HandlerType ==
    [pc : {"idle", "rx", "deliver", "chain"},
     by : {"isr", "open"},
     stat : BOOLEAN,                \* chain done, as read at the start
     sync : BOOLEAN,                \* inside the loop of bkn_rx_chain_done
     took : BOOLEAN,                \* dcbs_done > 0
     retry : 0 .. rx_sync_retry + 1,\* maxloop
     rec : Recs \cup {None}]        \* dcb_chain of bkn_do_api_rx

HandlerIdle == [pc |-> "idle", by |-> "isr", stat |-> FALSE, sync |-> FALSE,
                took |-> FALSE, retry |-> 0, rec |-> None]
LockFree == h.pc \in {"idle", "deliver"}

NoRec == [used |-> FALSE, chain |-> AnyChain, cur |-> 1]

ApiInit ==
    /\ EvInit
    /\ dcb = [c \in Chains |-> [i \in Idx |-> "own"]]
    /\ rec = [r \in Recs |-> NoRec] /\ refused = {}
    /\ base_up \in BOOLEAN
    /\ \E on, skb, posted \in BOOLEAN :
           /\ on \/ ~(skb \/ posted \/ base_up)
           /\ ~(skb /\ posted) /\ (on => inst[0] = {})
           /\ api = [on |-> on, use_rx_skb |-> skb, posted |-> posted,
                     api_dcb_list |-> <<>>, api_dcb_chain |-> None,
                     api_active |-> FALSE, chain_complete |-> FALSE,
                     basedev_suspended |-> basedev_suspend /\ ~base_up,
                     irq |-> FALSE, desc_done |-> FALSE, chain_done |-> FALSE,
                     late |-> FALSE, warm |-> FALSE, dma |-> Stopped]
    /\ h = HandlerIdle
    /\ resets = 0

-----------------------------------------------------------------------------
(* The channel is started on the first DCB of a chain. *)
StartDma(s, c) ==
    [s EXCEPT !.irq = TRUE, !.desc_done = FALSE, !.chain_done = FALSE,
              !.dma = IF @ = Stopped THEN [st |-> "rx", chain |-> c, idx |-> 1]
                      ELSE [@ EXCEPT !.st = "clash"]]

(* Mutant of bkn_api_rx_restart: a chain is taken though one is active.    *)
RestartAnyway(s, recs) ==
    IF s.basedev_suspended \/ s.api_dcb_list = <<>> THEN s
    ELSE LET r == Head(s.api_dcb_list)
             t == [s EXCEPT !.api_dcb_chain = r, !.api_active = TRUE,
                            !.api_dcb_list = Tail(@)]
         IN  IF s.use_rx_skb THEN t
             ELSE StartDma([t EXCEPT !.chain_complete = FALSE], recs[r].chain)

bkn_api_rx_restart(s, recs) ==
    IF s.basedev_suspended \/ s.api_dcb_chain # None \/ s.api_dcb_list = <<>> THEN s
    ELSE LET r == Head(s.api_dcb_list)
             t == [s EXCEPT !.api_dcb_chain = r, !.api_active = TRUE,
                            !.api_dcb_list = Tail(@)]
         IN  IF s.use_rx_skb THEN t
             ELSE StartDma([t EXCEPT !.chain_complete = FALSE], recs[r].chain)

bkn_api_rx_chain_done(s) ==
    bkn_api_rx_restart([s EXCEPT !.api_active = FALSE, !.api_dcb_chain = None], rec)

(* kfree of the active chain's record. *)
FreeActive == IF api.api_dcb_chain = None THEN rec
              ELSE [rec EXCEPT ![api.api_dcb_chain] = NoRec]

(* The DCB of record r that comes next. *)
NextDcb(r) == dcb[rec[r].chain][rec[r].cur]
SetNext(r, st) == [dcb EXCEPT ![rec[r].chain][rec[r].cur] = st]

-----------------------------------------------------------------------------
(* KCOM_M_DMA_INFO: the process (external) gives KNET a chain, for the     *)
(* channel, or for one that is invalid.  Then the record that was made for *)
(* it is neither queued nor freed.                                         *)
kmalloc(r) ==
    LET Free(q) == ~rec[q].used /\ q \notin refused
    IN  Free(r) /\ \A q \in Recs : Free(q) => r <= q

RefuseChain(r) ==
    /\ refused' = refused \cup {r}
    /\ UNCHANGED <<dcb, rec, api>>

QueueChain(r, c) ==
    /\ rec' = [rec EXCEPT ![r] = [used |-> TRUE, chain |-> c, cur |-> 1]]
    /\ dcb' = [dcb EXCEPT ![c] = [i \in Idx |-> "new"]]
    /\ LET s == [api EXCEPT !.api_dcb_list = Append(@, r)]
       IN  api' = IF s.api_active THEN s ELSE bkn_api_rx_restart(s, rec')
    /\ UNCHANGED refused

bkn_knet_dma_info(c) ==
    /\ LockFree /\ api.on /\ ~api.warm /\ Started(0)
    /\ \A i \in Idx : dcb[c][i] = "own"
    /\ \E r \in Recs : kmalloc(r) /\ (RefuseChain(r) \/ QueueChain(r, c))
    /\ UNCHANGED <<h, base_up, resets, evvars>>

(* The hardware (external) receives a packet into the DCB it works on.     *)
HwRxDone ==
    /\ api.dma.st = "rx" /\ ~api.late
    /\ LET i == api.dma.idx
           s1 == [api EXCEPT !.desc_done = TRUE, !.late = api.posted,
                             !.chain_done = @ \/ i = DCB_CNT]
           s2 == [s1 EXCEPT !.dma = IF i = DCB_CNT THEN Stopped ELSE [@ EXCEPT !.idx = i + 1]]
       IN  IF api.posted THEN api' = s1 /\ UNCHANGED dcb
           ELSE api' = s2 /\ dcb' = [dcb EXCEPT ![api.dma.chain][i] = "filled"]
    /\ UNCHANGED <<rec, refused, h, base_up, resets, evvars>>

(* On some platforms the write of the DCB arrives after the interrupt. *)
HwWriteBack ==
    /\ api.late
    /\ LET d == api.dma
       IN  /\ dcb' = [dcb EXCEPT ![d.chain][d.idx] = "filled"]
           /\ api' = [api EXCEPT !.late = FALSE,
                                 !.dma = IF d.idx = DCB_CNT THEN Stopped ELSE [d EXCEPT !.idx = @ + 1]]
    /\ UNCHANGED <<rec, refused, h, base_up, resets, evvars>>

(* do_dma begins.  If no channel of the device asks for it all are polled. *)
(* Its budget plays no part: bkn_do_api_rx looks at it only in continuous  *)
(* mode (3302).                                                            *)
BeginDma(by) ==
    \E polled \in BOOLEAN :
        /\ api.desc_done => polled
        /\ api' = [api EXCEPT !.desc_done = FALSE]
        /\ h' = [HandlerIdle EXCEPT !.pc = IF polled THEN "rx" ELSE "chain", !.by = by,
                                    !.stat = api.chain_done,
                                    !.rec = IF polled THEN api.api_dcb_chain ELSE None]

DoDma ==
    /\ api.on /\ ~api.use_rx_skb /\ Started(0) /\ h.pc = "idle"
    /\ BeginDma("isr")
    /\ UNCHANGED <<dcb, rec, refused, base_up, resets, evvars>>

(* bkn_do_api_rx, one DCB: it is left to the API or dropped, or it is      *)
(* handed to the network stack first, with the lock given up.              *)
MoreDcbs == h.rec # None /\ rec[h.rec].cur <= DCB_CNT /\ NextDcb(h.rec) = "filled"

ApiDcb ==
    /\ h.pc = "rx" /\ MoreDcbs
    /\ api' = [api EXCEPT !.chain_complete = @ \/ rec[h.rec].cur = DCB_CNT]
    /\ \/ /\ dcb' = SetNext(h.rec, "done")
          /\ rec' = [rec EXCEPT ![h.rec].cur = @ + 1]
          /\ h' = [h EXCEPT !.took = TRUE]
       \/ h' = [h EXCEPT !.pc = "deliver"] /\ UNCHANGED <<dcb, rec>>
    /\ UNCHANGED <<refused, base_up, resets, evvars>>

Delivered ==
    /\ h.pc = "deliver"
    /\ dcb' = SetNext(h.rec, "done")
    /\ rec' = [rec EXCEPT ![h.rec].cur = @ + 1]
    /\ h' = [h EXCEPT !.pc = "rx", !.took = TRUE]
    /\ UNCHANGED <<refused, api, base_up, resets, evvars>>

(* Mutant of ApiRxEnd: an event only if a chain was completed. *)
ApiRxEndPostsLate ==
    /\ h.pc = "rx" /\ ~MoreDcbs
    /\ h' = [h EXCEPT !.pc = "chain"]
    /\ IF api.chain_complete THEN Post(0, {"RX_DONE"}) ELSE UNCHANGED <<dev, evt>>
    /\ UNCHANGED <<dcb, rec, refused, api, base_up, resets,
                   inst, multi_inst, last_dev_no, late, lost, thr>>

(* bkn_do_api_rx returns, and bkn_rx_desc_done posts an event. *)
ApiRxEnd ==
    /\ h.pc = "rx" /\ ~MoreDcbs
    /\ h' = [h EXCEPT !.pc = "chain"]
    /\ IF h.sync /\ ~h.took THEN UNCHANGED <<dev, evt>> ELSE Post(0, {"RX_DONE"})
    /\ UNCHANGED <<dcb, rec, refused, api, base_up, resets,
                   inst, multi_inst, last_dev_no, late, lost, thr>>

(* The rest of bkn_open of the base device (bkn_resume_rx). *)
Resume(s) == bkn_api_rx_restart([s EXCEPT !.basedev_suspended = FALSE], rec)
EndDma(s) == /\ api' = IF h.by = "open" THEN Resume(s) ELSE s
             /\ h' = HandlerIdle

NoChainDone ==
    /\ h.pc = "chain" /\ ~h.stat
    /\ EndDma(api)
    /\ UNCHANGED <<dcb, rec, refused, base_up, resets, evvars>>

(* bkn_rx_chain_done: wait for a DCB that is late.  A write-back that is   *)
(* under way arrives within rx_sync_retry rounds, so only the rounds when  *)
(* none is are counted.                                                    *)

(* Mutant of SyncOver: nobody waits. *)
SyncNever == TRUE

SyncOver == api.chain_complete \/ h.retry > rx_sync_retry

ApiSync ==
    /\ h.pc = "chain" /\ h.stat /\ ~SyncOver
    /\ api' = [api EXCEPT !.chain_done = @ /\ h.sync]
    /\ h' = [h EXCEPT !.pc = "rx", !.sync = TRUE, !.took = FALSE, !.rec = api.api_dcb_chain,
                      !.retry = IF api.late THEN @ ELSE @ + 1]
    /\ UNCHANGED <<dcb, rec, refused, base_up, resets, evvars>>

(* Mutant of bkn_rx_chain_done: the record is not freed. *)
ChainDoneLeaks ==
    /\ h.pc = "chain" /\ h.stat /\ SyncOver
    /\ EndDma(bkn_api_rx_chain_done([api EXCEPT !.chain_complete = TRUE,
                                                !.chain_done = @ /\ h.sync]))
    /\ UNCHANGED <<dcb, rec, refused, base_up, resets, evvars>>

bkn_rx_chain_done ==
    /\ h.pc = "chain" /\ h.stat /\ SyncOver
    /\ EndDma(bkn_api_rx_chain_done([api EXCEPT !.chain_complete = TRUE,
                                                !.chain_done = @ /\ h.sync]))
    /\ rec' = FreeActive
    /\ UNCHANGED <<dcb, refused, base_up, resets, evvars>>

(* A packet that the handler of the Linux channel has for the API.  With   *)
(* no chain, or one it does not fit into, it is dropped.                   *)
bkn_api_rx_copy_from_skb ==
    /\ api.use_rx_skb /\ Started(0) /\ api.api_dcb_chain # None
    /\ LET r == api.api_dcb_chain
       IN  /\ dcb' = SetNext(r, "done")
           /\ \/ /\ rec[r].cur < DCB_CNT
                 /\ rec' = [rec EXCEPT ![r].cur = @ + 1]
                 /\ UNCHANGED api
              \/ /\ rec[r].cur = DCB_CNT
                 /\ rec' = FreeActive
                 /\ api' = bkn_api_rx_chain_done(api)
    /\ Post(0, {"RX_DONE"})
    /\ UNCHANGED <<refused, h, base_up, resets, inst, multi_inst, last_dev_no, late, lost, thr>>

-----------------------------------------------------------------------------
(* Resets come between two runs of the handler, MAX_RESETS of them, and    *)
(* none where DCB writes are late.                                         *)
MayReset == api.on /\ h.pc = "idle" /\ ~api.posted /\ resets < MAX_RESETS

(* bkn_dma_abort_rx and bkn_clean_rx_dcbs: every record is freed, and the  *)
(* process has its DCBs back.  Some variants leave the status of an idle   *)
(* channel alone.                                                          *)
Abort(stale) ==
    /\ rec' = [r \in Recs |-> NoRec]
    /\ dcb' = [c \in Chains |-> [i \in Idx |-> "own"]]
    /\ api' = [api EXCEPT !.irq = FALSE, !.dma = Stopped, !.late = FALSE,
                          !.api_dcb_chain = None, !.api_dcb_list = <<>>,
                          !.api_active = FALSE, !.warm = FALSE,
                          !.chain_done = stale /\ @ /\ api.dma = Stopped,
                          !.desc_done = stale /\ @ /\ api.dma = Stopped]

(* KCOM_M_HW_RESET of the channel, or KCOM_M_HW_INIT. *)
bkn_knet_hw_reset(stale) ==
    /\ Abort(stale)
    /\ \/ api.warm /\ h.pc = "idle" /\ UNCHANGED resets
       \/ ~api.warm /\ MayReset /\ resets' = resets + 1
    /\ UNCHANGED <<refused, h, base_up, evvars>>

(* KCOM_M_WB_CLEANUP: the records are freed, the channel is not stopped;   *)
(* the process that does it ends, and the next one begins with a reset.    *)
bkn_knet_wb_cleanup ==
    /\ ~api.warm /\ MayReset
    /\ rec' = [r \in Recs |-> NoRec]
    /\ api' = [api EXCEPT !.api_dcb_chain = None, !.api_dcb_list = <<>>,
                          !.api_active = FALSE, !.warm = TRUE]
    /\ resets' = resets + 1
    /\ UNCHANGED <<dcb, refused, h, base_up, evvars>>

OpenBase ==
    /\ api.on /\ ~base_up /\ h.pc = "idle"
    /\ base_up' = TRUE
    /\ \/ ~api.basedev_suspended /\ UNCHANGED <<api, h>>
       \/ api.basedev_suspended /\ ~api.use_rx_skb /\ Started(0) /\ BeginDma("open")
       \/ api.basedev_suspended /\ api.use_rx_skb /\ api' = Resume(api) /\ UNCHANGED h
    /\ UNCHANGED <<dcb, rec, refused, resets, evvars>>

StopBase ==
    /\ api.on /\ base_up /\ LockFree /\ h.by = "isr"
    /\ base_up' = FALSE
    /\ api' = [api EXCEPT !.basedev_suspended = @ \/ basedev_suspend]
    /\ UNCHANGED <<dcb, rec, refused, h, resets, evvars>>

(* The process takes the events, and with Rx events all DCBs that are done. *)
TakeEvents(p) ==
    /\ EventHandled(p)
    /\ dcb' = IF thr[p].unit # 0 \/ "RX_DONE" \notin thr[p].flags THEN dcb
              ELSE [c \in Chains |-> [i \in Idx |-> IF dcb[c][i] = "done" THEN "own"
                                                    ELSE dcb[c][i]]]
    /\ UNCHANGED <<rec, refused, api, h, base_up, resets>>

(* Bounds: while there is an API channel, nothing else posts events and    *)
(* there are no signals; and see MayReset.                                 *)
OtherEvents ==
    /\ \/ \E u \in Units : bkn_knet_dev_inst_set(u)
       \/ \E u \in Units :
              ~api.on /\ (DmaEvent(u, {"TX_DONE"}) \/ DmaEventBegin(u, {"TX_DONE"}))
       \/ \E u \in Units : DmaEventEnd(u)
       \/ \E p \in Units : \/ GetNextDmaEvent(p) \/ ScanDevice(p) \/ WakeUp(p)
                           \/ (~api.on /\ Signal(p)) \/ Interrupted(p)
    /\ UNCHANGED apivars

Handler == ApiDcb \/ Delivered \/ ApiRxEnd \/ NoChainDone \/ ApiSync \/ bkn_rx_chain_done

ApiNext ==
    \/ \E c \in Chains : bkn_knet_dma_info(c)
    \/ HwRxDone \/ HwWriteBack
    \/ DoDma \/ Handler
    \/ bkn_api_rx_copy_from_skb
    \/ \E stale \in BOOLEAN : bkn_knet_hw_reset(stale)
    \/ bkn_knet_wb_cleanup
    \/ OpenBase \/ StopBase
    \/ \E p \in Units : TakeEvents(p)
    \/ OtherEvents

ApiSpec == ApiInit /\ [][ApiNext]_allvars

(* The hardware's writes arrive, an interrupt that is enabled is served,   *)
(* and the handler runs to its end.  This is the mode without NAPI, the    *)
(* default: with NAPI, a stop of the base device with traffic may leave    *)
(* the interrupts masked for good (Interrupts).                            *)
ApiFairness ==
    /\ WF_allvars(HwWriteBack)
    /\ WF_allvars(DoDma /\ api.irq /\ (api.desc_done \/ api.chain_done))
    /\ WF_allvars(Handler)
    /\ \A u \in Units : /\ WF_allvars(bkn_knet_dev_inst_set(u) /\ UNCHANGED apivars)
                        /\ WF_allvars(DmaEventEnd(u) /\ UNCHANGED apivars)
                        /\ WF_allvars(EvThread(u) /\ UNCHANGED apivars)
                        /\ WF_allvars(TakeEvents(u))
ApiFairSpec == ApiSpec /\ ApiFairness

-----------------------------------------------------------------------------
TypeOK ==
    /\ EvTypeOK
    /\ dcb \in [Chains -> [Idx -> DcbStates]]
    /\ rec \in [Recs -> [used : BOOLEAN, chain : Chains, cur : 1 .. DCB_CNT + 1]]
    /\ api \in ApiType /\ h \in HandlerType
    /\ refused \subseteq Recs /\ base_up \in BOOLEAN /\ resets \in 0 .. MAX_RESETS

(* Every bkn_dcb_chain_t is in the list of its channel or is the active    *)
(* one, once, and no other is allocated but those of chains that were      *)
(* refused, which are lost (6925); the one that the handler holds while a  *)
(* packet is handed to the stack stays active (kfree in                    *)
(* bkn_api_rx_chain_done; bkn_do_api_rx writes through it afterwards).     *)
Active == IF api.api_dcb_chain = None THEN {} ELSE {api.api_dcb_chain}
Queued == Range(api.api_dcb_list)
Allocated == {r \in Recs : rec[r].used} \cup refused
ChainsKept ==
    /\ Queued \cup Active = Allocated \ refused
    /\ Len(api.api_dcb_list) + Cardinality(Active) = Cardinality(Allocated \ refused)
    /\ h.pc = "deliver" => h.rec = api.api_dcb_chain

(* The hardware works on the active chain only, on a DCB which the driver  *)
(* has not passed and which is still KNET's, and it is started only when   *)
(* it is idle (bkn_api_rx_restart, api_active).                            *)
HwOnActiveChain ==
    ~api.warm =>
        /\ api.dma.st # "clash"
        /\ api.dma.st = "rx" =>
              /\ api.api_dcb_chain # None
              /\ rec[api.api_dcb_chain].chain = api.dma.chain
              /\ rec[api.api_dcb_chain].cur <= api.dma.idx
              /\ dcb[api.dma.chain][api.dma.idx] = "new"

(* A DCB that the hardware has filled is never dropped with its chain: it  *)
(* is one that the driver comes to later on (bkn_rx_chain_done waits for   *)
(* the writes of DCBs that arrive after the interrupt).                    *)
NoDcbLost ==
    \A c \in Chains, i \in Idx :
        dcb[c][i] = "filled" /\ ~api.warm =>
            /\ api.api_dcb_chain # None
            /\ rec[api.api_dcb_chain].chain = c /\ rec[api.api_dcb_chain].cur <= i

(* Without a reset, and where DCB writes are not late, each DCB that the   *)
(* hardware fills comes back to the process (bkn_do_api_rx, the event of   *)
(* bkn_rx_desc_done, bkn_get_next_dma_event).                              *)
DcbReturned ==
    [](resets = 0) /\ ~api.posted =>
        \A c \in Chains, i \in Idx : dcb[c][i] = "filled" ~> dcb[c][i] = "own"

=============================================================================
