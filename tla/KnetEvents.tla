----------------------------- MODULE KnetEvents -----------------------------
(***************************************************************************)
(* The events by which KNET tells the BCM API in user space that DMA is    *)
(* done (bcm-knet.c).  The DMA handler of a device sets bits in its        *)
(* dma_events, counts evt_wq_put of an event queue up and wakes whoever    *)
(* waits for the queue.  Each SDK process has a thread that is inside the  *)
(* ioctl bkn_get_next_dma_event: it goes round the devices, takes the      *)
(* events of one device at a time, and waits when no device of its own     *)
(* instance has any.                                                       *)
(*                                                                         *)
(* Devices are shared out to processes as "instances".  Without instances  *)
(* ("legacy mode") there is one process and one event queue.  The handlers *)
(* of two devices hold different locks, so "evt_wq_put++" of a queue that  *)
(* they share is not atomic: "late" is the value one of them has read and  *)
(* not yet written back.                                                   *)
(***************************************************************************)
EXTENDS Integers, FiniteSets

CONSTANTS
    UNITS,          \* number of switch devices
    Configs,        \* the instances there may be: [Units -> SUBSET Units], {} is legacy
    SetUpFirst,     \* do threads enter the ioctl only when all devices are set up?
    MAX_AHEAD       \* bound: how far put may get ahead of get

ASSUME UnitAssumption == UNITS \in Nat /\ UNITS >= 1
ASSUME AheadAssumption == MAX_AHEAD \in Nat /\ MAX_AHEAD >= 1
ASSUME SetUpAssumption == SetUpFirst \in BOOLEAN

Units == 0 .. UNITS - 1
Slots == Units                  \* _bkn_evt[]; num_devices() of them are used
NoPut == -MAX_AHEAD - 1         \* no write of evt_wq_put is under way

(* An instance is a set of devices, a partition of them all, or there are  *)
(* none (lkbde_dev_instid_set).                                            *)
ASSUME ConfigAssumption ==
    \A c \in Configs :
        /\ c \in [Units -> SUBSET Units]
        /\ \/ \A u \in Units : c[u] = {}
           \/ \A u, v \in Units : u \in c[u] /\ (v \in c[u] => c[v] = c[u])

VARIABLES
    inst,           \* the instance ids the BDE knows (lkbde_dev_instid_get)
    dev,            \* the events' part of bkn_switch_info_t
    evt,            \* _bkn_evt[]; ahead is evt_wq_put - evt_wq_get
    multi_inst,     \* _bkn_multi_inst # 0
    last_dev_no,    \* shared by all threads
    late,           \* per device: evt_wq_put as read, relative to evt_wq_get
    lost,           \* has a write back of evt_wq_put undone another's?
    thr             \* the event thread of each process

evvars == <<inst, dev, evt, multi_inst, last_dev_no, late, lost, thr>>

EventFlags == {"TX_DONE", "RX_DONE"}

(* The process of a device's instance, by the unit it passes to the ioctl. *)
Process(u) == CHOOSE p \in Units :
    IF inst[u] = {} THEN p = 0 ELSE p \in inst[u] /\ \A q \in inst[u] : p <= q
Processes == {Process(u) : u \in Units}

(* The SDK starts the DMA of a device when the device is set up. *)
Started(u) == dev[u].evt_idx # -1 /\ dev[u].inst_id = inst[u]

-----------------------------------------------------------------------------
EvInit ==
    /\ inst \in Configs
    /\ dev = [u \in Units |-> [dma_events |-> {}, evt_idx |-> -1, inst_id |-> {}]]
    /\ evt = [q \in Slots |-> [ahead |-> 0, inst_id |-> {}]]
    /\ multi_inst = FALSE
    /\ last_dev_no = 0
    /\ late = [u \in Units |-> NoPut]
    /\ lost = FALSE
    /\ thr = [p \in Units |-> [pc |-> "user", dev_no |-> 0, queue |-> -1,
                               signal |-> FALSE, unit |-> 0, flags |-> {}]]

(* The queue an instance gets: its own, or the first that nobody has.      *)
SlotFor(id) ==
    CHOOSE i \in Slots :
        LET Ok(k) == evt[k].inst_id = id \/ ~multi_inst \/ evt[k].inst_id = {}
        IN  Ok(i) /\ \A k \in Slots : Ok(k) => i <= k

(* bkn_create_inst, which moves all devices of the instance to its queue.  *)
bkn_create_inst(u, id) ==
    /\ multi_inst' = TRUE
    /\ evt' = [evt EXCEPT ![SlotFor(id)].inst_id = id]
    /\ dev' = [v \in Units |->
                  LET d == [dev[v] EXCEPT !.evt_idx = IF v \in id THEN SlotFor(id) ELSE @]
                  IN  IF v = u THEN [d EXCEPT !.inst_id = id] ELSE d]

(* KCOM_M_REPROBE: bkn_knet_dev_inst_set.  The instance of a device never  *)
(* changes once it has one.                                                *)
bkn_knet_dev_inst_set(u) ==
    /\ ~Started(u)
    /\ \/ /\ inst[u] # {}
          /\ bkn_create_inst(u, inst[u])
       \/ /\ inst[u] = {}
          /\ dev' = [v \in Units |-> [dev[v] EXCEPT !.evt_idx = 0, !.inst_id = {}]]
          /\ UNCHANGED <<evt, multi_inst>>
    /\ UNCHANGED <<inst, last_dev_no, late, lost, thr>>

Capped(n) == IF n > MAX_AHEAD THEN MAX_AHEAD ELSE n

(* Set events of a device and count evt_wq_put up.  A thread that waits    *)
(* goes on as soon as put and get differ.                                  *)
Post(u, flags) ==
    /\ dev' = [dev EXCEPT ![u].dma_events = @ \cup flags]
    /\ evt' = [evt EXCEPT ![dev[u].evt_idx].ahead = Capped(@ + 1)]

(* The other devices of the queue a device posts to.  Bound: no event is   *)
(* posted between a wake-up and the write that was under way at it.        *)
Sharers(u) == {v \in Units : dev[v].evt_idx = dev[u].evt_idx} \ {u}
Settled(u) ==
    /\ late[u] = NoPut
    /\ \A v \in Sharers(u) : late[v] \in 0 .. MAX_AHEAD \cup {NoPut}

(* The DMA handler of a device posts events, or bkn_knet_detach does. *)
DmaEvent(u, flags) ==
    /\ Started(u) /\ Settled(u)
    /\ Post(u, flags)
    /\ UNCHANGED <<inst, multi_inst, last_dev_no, late, lost, thr>>

(* The same, when another handler works on evt_wq_put at the same time.    *)
DmaEventBegin(u, flags) ==
    /\ Started(u) /\ Settled(u) /\ Sharers(u) # {}
    /\ evt[dev[u].evt_idx].ahead \in 0 .. MAX_AHEAD - 1
    /\ dev' = [dev EXCEPT ![u].dma_events = @ \cup flags]
    /\ late' = [late EXCEPT ![u] = evt[dev[u].evt_idx].ahead]
    /\ UNCHANGED <<inst, evt, multi_inst, last_dev_no, lost, thr>>

DmaEventEnd(u) ==
    /\ late[u] # NoPut
    /\ lost' = (lost \/ evt[dev[u].evt_idx].ahead # late[u])
    /\ evt' = [evt EXCEPT ![dev[u].evt_idx].ahead = late[u] + 1]
    /\ late' = [late EXCEPT ![u] = NoPut]
    /\ UNCHANGED <<inst, dev, multi_inst, last_dev_no, thr>>

(* bkn_get_next_dma_event.  The thread enters ...                          *)
GetNextDmaEvent(p) ==
    /\ p \in Processes /\ thr[p].pc = "user" /\ dev[p].evt_idx # -1
    /\ SetUpFirst => \A u \in Units : Started(u)
    /\ thr' = [thr EXCEPT ![p] = [@ EXCEPT !.pc = "scan", !.dev_no = last_dev_no,
                                           !.signal = FALSE]]
    /\ UNCHANGED <<inst, dev, evt, multi_inst, last_dev_no, late, lost>>

(* ... and looks at one device after the other.                            *)
NextUnit(n) == IF n + 1 \in Units THEN n + 1 ELSE 0

(* Mutant of Foreign: the devices of all instances are looked at. *)
ForeignNever(p, u) == FALSE

Foreign(p, u) == dev[u].inst_id # {} /\ p \notin dev[u].inst_id

(* Mutant of ScanDevice: waits after one device, not after a whole round. *)
ScanOnlyOne(p) ==
    LET u == NextUnit(thr[p].dev_no)
    IN  /\ thr[p].pc = "scan"
        /\ \/ /\ ~Foreign(p, u) /\ dev[u].dma_events # {}
              /\ thr' = [thr EXCEPT ![p] = [@ EXCEPT !.pc = "done", !.unit = u,
                                                !.flags = dev[u].dma_events]]
              /\ dev' = [dev EXCEPT ![u].dma_events = {}]
              /\ last_dev_no' = u
           \/ /\ Foreign(p, u)
              /\ thr' = [thr EXCEPT ![p].dev_no = u]
              /\ UNCHANGED <<dev, last_dev_no>>
           \/ /\ ~Foreign(p, u) /\ dev[u].dma_events = {}
              /\ thr' = [thr EXCEPT ![p] = [@ EXCEPT !.dev_no = u, !.pc = "wait",
                                                !.queue = dev[u].evt_idx]]
              /\ UNCHANGED <<dev, last_dev_no>>
        /\ UNCHANGED <<inst, evt, multi_inst, late, lost>>

ScanDevice(p) ==
    LET u == NextUnit(thr[p].dev_no)
    IN  /\ thr[p].pc = "scan"
        /\ \/ /\ ~Foreign(p, u) /\ dev[u].dma_events # {}
              /\ thr' = [thr EXCEPT ![p] = [@ EXCEPT !.pc = "done", !.unit = u,
                                                !.flags = dev[u].dma_events]]
              /\ dev' = [dev EXCEPT ![u].dma_events = {}]
              /\ last_dev_no' = u
           \/ /\ Foreign(p, u)
              /\ thr' = [thr EXCEPT ![p].dev_no = u]
              /\ UNCHANGED <<dev, last_dev_no>>
           \/ /\ ~Foreign(p, u) /\ dev[u].dma_events = {}
              /\ thr' = [thr EXCEPT ![p] =
                     IF u # last_dev_no
                     THEN [@ EXCEPT !.dev_no = u]
                     ELSE [@ EXCEPT !.dev_no = u, !.pc = "wait",
                                    !.queue = dev[u].evt_idx]]
              /\ UNCHANGED <<dev, last_dev_no>>
        /\ UNCHANGED <<inst, evt, multi_inst, late, lost>>

(* The wait is over when put and get differ, or at a signal; get catches   *)
(* up with put.  A thread that waits for _bkn_evt[-1] reads what lies      *)
(* before the array, and is taken never to see a difference.               *)
Shift(q, n) == [u \in Units |-> IF late[u] # NoPut /\ dev[u].evt_idx = q
                                THEN late[u] - n ELSE late[u]]

WakeUp(p) ==
    LET q == thr[p].queue
    IN  /\ thr[p].pc = "wait" /\ q # -1 /\ evt[q].ahead # 0 /\ ~thr[p].signal
        /\ evt' = [evt EXCEPT ![q].ahead = 0]
        /\ late' = Shift(q, evt[q].ahead)
        /\ thr' = [thr EXCEPT ![p].pc = "scan"]
        /\ UNCHANGED <<inst, dev, multi_inst, last_dev_no, lost>>

Signal(p) ==
    /\ thr[p].pc \in {"scan", "wait"} /\ ~thr[p].signal
    /\ thr' = [thr EXCEPT ![p].signal = TRUE]
    /\ UNCHANGED <<inst, dev, evt, multi_inst, last_dev_no, late, lost>>

Interrupted(p) ==
    /\ thr[p].pc = "wait" /\ thr[p].signal
    /\ thr' = [thr EXCEPT ![p].pc = "user"]
    /\ UNCHANGED <<inst, dev, evt, multi_inst, last_dev_no, late, lost>>

(* The process (external) has handled the events it was given. *)
EventHandled(p) ==
    /\ thr[p].pc = "done"
    /\ thr' = [thr EXCEPT ![p] = [@ EXCEPT !.pc = "user", !.flags = {}]]
    /\ UNCHANGED <<inst, dev, evt, multi_inst, last_dev_no, late, lost>>

EvThread(p) == GetNextDmaEvent(p) \/ ScanDevice(p) \/ WakeUp(p) \/ Interrupted(p)

EvNext ==
    \/ \E u \in Units : bkn_knet_dev_inst_set(u)
    \/ \E u \in Units, flags \in {{"TX_DONE"}, {"RX_DONE"}} :
           DmaEvent(u, flags) \/ DmaEventBegin(u, flags)
    \/ \E u \in Units : DmaEventEnd(u)
    \/ \E p \in Units : \/ GetNextDmaEvent(p) \/ ScanDevice(p) \/ WakeUp(p)
                        \/ Signal(p) \/ Interrupted(p) \/ EventHandled(p)

(* The devices are set up, the threads run, the processes come back for    *)
(* more, and a handler finishes what it has begun.                         *)
EvFairness ==
    /\ \A u \in Units : WF_evvars(bkn_knet_dev_inst_set(u))
    /\ \A p \in Units : WF_evvars(EvThread(p)) /\ WF_evvars(EventHandled(p))
    /\ \A u \in Units : WF_evvars(DmaEventEnd(u))
EvSpec == EvInit /\ [][EvNext]_evvars /\ EvFairness

-----------------------------------------------------------------------------
EvTypeOK ==
    /\ inst \in Configs
    /\ dev \in [Units -> [dma_events : SUBSET EventFlags,
                          evt_idx : {-1} \cup Slots, inst_id : SUBSET Units]]
    /\ evt \in [Slots -> [ahead : -MAX_AHEAD .. MAX_AHEAD, inst_id : SUBSET Units]]
    /\ multi_inst \in BOOLEAN /\ lost \in BOOLEAN
    /\ last_dev_no \in Units
    /\ late \in [Units -> NoPut .. MAX_AHEAD - 1]
    /\ thr \in [Units -> [pc : {"user", "scan", "wait", "done"}, dev_no : Units,
                          queue : {-1} \cup Slots, signal : BOOLEAN, unit : Units, flags : SUBSET EventFlags]]

(* The events of a device go to the process that has the device, and a     *)
(* thread waits only for the queue on which the devices of its own         *)
(* instance post (bkn_create_inst, bkn_get_next_dma_event): two processes  *)
(* that use different devices never take each other's completions.         *)
EventToOwner ==
    \A p \in Units :
        /\ thr[p].pc = "done" => Process(thr[p].unit) = p
        /\ thr[p].pc = "wait" =>
               \A u \in Units : Process(u) = p => thr[p].queue = dev[u].evt_idx

(* Unless a count of evt_wq_put was lost, the events of a device are       *)
(* always taken: a thread never waits on while one of its devices has      *)
(* events (dma_events is set before evt_wq_put, and read after evt_wq_get  *)
(* is).                                                                    *)
EventTaken ==
    []~lost => \A u \in Units : dev[u].dma_events # {} ~> dev[u].dma_events = {}

(* bcm-knet.c:7990, "Thread interrupted": a thread with a signal pending   *)
(* leaves the ioctl.                                                       *)
SignalReturns ==
    \A p \in Units : thr[p].signal ~> thr[p].pc \in {"user", "done"}

=============================================================================
