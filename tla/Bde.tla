-------------------------------- MODULE Bde ---------------------------------
(***************************************************************************)
(* The instances of the user BDE (linux-user-bde.c).  Several SDK          *)
(* processes can share the switches of a system: each attaches an instance,*)
(* the set of its devices, and gets a part of the DMA pool and a slot of   *)
(* _bde_inst_resource[], where the interrupt handlers of its devices wake  *)
(* its threads.  Slot 0 stands for the whole system until the first        *)
(* instance is attached and overwrites it.                                 *)
(*                                                                         *)
(* LUBDE_ATTACH_INSTANCE takes no lock: it validates the request, takes a  *)
(* part of the pool in two accesses to _dma_pool.offset, looks for a slot  *)
(* and fills it; the processes of different instances may do so at once.   *)
(* Two variables remember when they have met: torn, that one has read the  *)
(* offset before another has moved it on, and doubled, that one has picked *)
(* a slot before another has filled the one it had picked.                 *)
(* The devices and their hot-plugging are BdeDevices.                      *)
(***************************************************************************)
EXTENDS BdeDevices

CONSTANTS
    Instances,      \* the sets of devices the processes attach
    DmaSize,        \* per instance, the part of the pool it asks for (in MB)
    PoolSizes       \* the sizes the DMA pool may have (in MB)

ASSUME InstanceAssumption ==
    /\ Instances \subseteq (SUBSET Devs) \ {{}}
    /\ DmaSize \in [Instances -> Nat]
    /\ PoolSizes \subseteq Nat

VARIABLES
    slot,           \* _bde_inst_resource[]
    multi_inst,     \* _bde_multi_inst # 0
    _dma_pool,      \* its size, and the offset of what no instance has got
    app,            \* per instance, its process and the ioctl it has called
    torn, doubled   \* history: two processes at the offset, at the slots

vars == <<devices, slot, multi_inst, _dma_pool, app, torn, doubled>>

NoSlot == [inst_id |-> {}, dma_offset |-> 0, dma_size |-> 0]
NoRange == [dma_offset |-> 0, dma_size |-> 0]
AppIdle == [pc |-> "idle", dma_offset |-> 0, inst_idx |-> -1, range |-> NoRange]
Attaching(inst) == app[inst].pc \in {"validated", "taking", "placing", "filling"}

Init ==
    /\ DevicesInit
    /\ \E size \in PoolSizes : _dma_pool = [total_size |-> size, offset |-> 0]
    /\ slot = [k \in Devs |-> IF k = 0
                   THEN [inst_id |-> 0 .. NDEVICES - 1,
                         dma_offset |-> 0, dma_size |-> _dma_pool.total_size]
                   ELSE NoSlot]
    /\ multi_inst = FALSE
    /\ app = [inst \in Instances |-> AppIdle]
    /\ torn = FALSE /\ doubled = FALSE

-----------------------------------------------------------------------------
(* The loops over the slots take the first one that fits. *)
First(S) == CHOOSE k \in S : \A l \in S : k <= l
Slots(inst) == {k \in Probed : slot[k].inst_id = inst}

(* _device_reprobe looks at the devices the user BDE has not seen yet. *)
_device_reprobe(ds) ==
    [d \in Devs |-> IF d \in ds /\ ~udev[d].devid THEN _devices_init ELSE udev[d]]
Reprobed == _device_reprobe({d \in Probed : Present(d)})

(* _instance_validate: what is there already under this instance id.  The  *)
(* size is compared, but a slot with the number of a device in slot 0      *)
(* counts as "not init yet".                                               *)
_instance_validate(inst) ==
    IF Slots(inst) = {} THEN "validated"
    ELSE IF slot[First(Slots(inst))].dma_size = DmaSize[inst] THEN "attached"
    ELSE IF Reprobed[First(Slots(inst))].inst = 0 THEN "validated"
    ELSE "idle"

(* An SDK process attaches devices it has found. *)
AttachBegin(inst) ==
    /\ app[inst].pc = "idle"
    /\ \A d \in inst : Present(d)
    /\ udev' = Reprobed
    /\ app' = [app EXCEPT ![inst].pc = _instance_validate(inst)]
    /\ UNCHANGED <<use_msi, ndevices, kdev, call, raced, slot, multi_inst, _dma_pool,
                   torn, doubled>>

(* _dma_resource_alloc reads the offset; what is left is unsigned, and an  *)
(* offset beyond the pool leaves more than anybody asks for ...            *)
RunsOut(size) ==
    /\ _dma_pool.offset <= _dma_pool.total_size
    /\ size > _dma_pool.total_size - _dma_pool.offset
AttachAlloc(inst) ==
    /\ app[inst].pc = "validated"
    /\ app' = [app EXCEPT ![inst] =
                  IF RunsOut(DmaSize[inst]) THEN AppIdle
                  ELSE [@ EXCEPT !.pc = "taking", !.dma_offset = _dma_pool.offset]]
    /\ torn' = (torn \/ \E other \in Instances : app[other].pc = "taking")
    /\ UNCHANGED <<devices, slot, multi_inst, _dma_pool, doubled>>

(* Mutant of AttachTake: off by one. *)
AttachTakeShort(inst) ==
    /\ app[inst].pc = "taking"
    /\ _dma_pool' = [_dma_pool EXCEPT !.offset = @ + DmaSize[inst] - 1]
    /\ app' = [app EXCEPT ![inst].pc = "placing"]
    /\ UNCHANGED <<devices, slot, multi_inst, torn, doubled>>

(* ... and moves it on. *)
AttachTake(inst) ==
    /\ app[inst].pc = "taking"
    /\ _dma_pool' = [_dma_pool EXCEPT !.offset = @ + DmaSize[inst]]
    /\ app' = [app EXCEPT ![inst].pc = "placing"]
    /\ UNCHANGED <<devices, slot, multi_inst, torn, doubled>>

FreeSlots == {k \in Probed : ~multi_inst \/ slot[k].inst_id = {}}
InstIdx == IF FreeSlots = {} THEN -1 ELSE First(FreeSlots)

(* The first slot that is free is picked; without one the call succeeds    *)
(* all the same.                                                           *)
AttachPick(inst) ==
    /\ app[inst].pc = "placing"
    /\ app' = [app EXCEPT ![inst].pc = "filling", ![inst].inst_idx = InstIdx]
    /\ doubled' = (doubled \/ \E other \in Instances : app[other].pc = "filling")
    /\ UNCHANGED <<devices, slot, multi_inst, _dma_pool, torn>>

FillSlot(inst) ==
    /\ app[inst].pc = "filling"
    /\ slot' = [k \in Devs |-> IF k = app[inst].inst_idx
                               THEN [inst_id |-> inst, dma_offset |-> app[inst].dma_offset,
                                     dma_size |-> DmaSize[inst]]
                               ELSE slot[k]]
    /\ multi_inst' = (multi_inst \/ app[inst].inst_idx # -1)
    /\ kdev' = [d \in Devs |-> IF d \in inst \cap Probed /\ kdev[d].inst_id = {}
                               THEN [kdev[d] EXCEPT !.inst_id = inst] ELSE kdev[d]]
    /\ app' = [app EXCEPT ![inst].pc = "attached"]
    /\ UNCHANGED <<use_msi, ndevices, call, raced, _dma_pool, torn, doubled>>

(* Mutant of AttachFill: the devices stay with slot 0. *)
AttachFillKeepsDevices(inst) == FillSlot(inst) /\ UNCHANGED udev

(* The slot is filled, the devices point to it, and the kernel BDE (from   *)
(* which KNET takes the owner of its events) learns the instance unless it *)
(* knows one.                                                              *)
AttachFill(inst) ==
    /\ FillSlot(inst)
    /\ udev' = [d \in Devs |-> IF d \in inst \cap Probed
                               THEN [udev[d] EXCEPT !.inst = app[inst].inst_idx]
                               ELSE udev[d]]

(* _dma_resource_get. *)
RangeOf(s) == [dma_offset |-> s.dma_offset, dma_size |-> s.dma_size]
_dma_resource_get(inst) ==
    IF Slots(inst) = {} THEN NoRange ELSE RangeOf(slot[First(Slots(inst))])

(* LUBDE_GET_DMA_INFO: the process maps its part of the pool and runs. *)
GetDmaInfo(inst) ==
    /\ app[inst].pc = "attached"
    /\ app' = [app EXCEPT ![inst].pc = "running",
                          ![inst].range = IF multi_inst THEN _dma_resource_get(inst)
                                          ELSE [dma_offset |-> 0,
                                                dma_size |-> _dma_pool.total_size]]
    /\ UNCHANGED <<devices, slot, multi_inst, _dma_pool, torn, doubled>>

(* The process ends, to be started again later (external). *)
AppExit(inst) ==
    /\ app[inst].pc \in {"attached", "running"}
    /\ app' = [app EXCEPT ![inst] = AppIdle]
    /\ UNCHANGED <<devices, slot, multi_inst, _dma_pool, torn, doubled>>

(* LUBDE_REPROBE. *)
Reprobe ==
    /\ udev' = Reprobed
    /\ UNCHANGED <<use_msi, ndevices, kdev, call, raced, slot, multi_inst, _dma_pool, app,
                   torn, doubled>>

Next ==
    \/ DevicesNext /\ UNCHANGED <<slot, multi_inst, _dma_pool, app, torn, doubled>>
    \/ \E inst \in Instances : AttachBegin(inst) \/ AttachAlloc(inst)
    \/ \E inst \in Instances : AttachTake(inst) \/ AttachPick(inst) \/ AttachFill(inst)
    \/ \E inst \in Instances : GetDmaInfo(inst) \/ AppExit(inst)
    \/ Reprobe

Spec == Init /\ [][Next]_vars

-----------------------------------------------------------------------------
SlotType == [inst_id : SUBSET Devs, dma_offset : Nat, dma_size : Nat]
RangeType == [dma_offset : Nat, dma_size : Nat]
AppType == [pc : {"idle", "validated", "taking", "placing", "filling", "attached", "running"},
            dma_offset : Nat, inst_idx : Devs \cup {-1}, range : RangeType]
TypeOK ==
    /\ ndevices \in 1 .. LINUX_BDE_MAX_DEVICES
    /\ slot \in [Devs -> SlotType]
    /\ multi_inst \in BOOLEAN
    /\ _dma_pool \in [total_size : PoolSizes, offset : Nat]
    /\ app \in [Instances -> AppType]
    /\ torn \in BOOLEAN /\ doubled \in BOOLEAN

Apart(r, s) == \/ r.dma_size = 0 \/ s.dma_size = 0
               \/ r.dma_offset + r.dma_size <= s.dma_offset
               \/ s.dma_offset + s.dma_size <= r.dma_offset

(* An instance of the devices found first that asks for the whole pool is  *)
(* taken for slot 0 as _init left it: the call succeeds and the pool is    *)
(* still free for the next instance.                                       *)
DefaultNotAsked ==
    \A inst \in Instances : inst = 0 .. NDEVICES - 1 => DmaSize[inst] # _dma_pool.total_size

(* The comment on the slots (linux-user-bde.c:180) says they "keep the DMA *)
(* resource per instance": the parts of the pool that running processes of *)
(* different instances have mapped do not overlap and lie in the pool      *)
(* (_instance_attach, _dma_resource_get).                                  *)
RangesApart ==
    DefaultNotAsked =>
        /\ \A i, j \in Instances : i # j => Apart(app[i].range, app[j].range)
        /\ \A i \in Instances : app[i].range.dma_offset + app[i].range.dma_size
               <= _dma_pool.total_size

(* The same, as long as no process has read the offset between another's   *)
(* reading it and moving it on: whatever else of the attaching of several  *)
(* processes overlaps, in whichever order they fill their slots, end and   *)
(* attach again, and whatever is plugged in meanwhile.                     *)
RangesDisjoint == ~torn => RangesApart

(* If no two instances share a device, an attached instance has a slot     *)
(* with the size it has asked for, the interrupts of all its devices go to *)
(* that slot, and the kernel BDE, and so KNET, takes it for their owner    *)
(* (_instance_attach, _device_reprobe).  This is as long as no process has *)
(* picked a slot while another was about to fill the one it had picked.    *)
DevicesApart == \A i, j \in Instances : i = j \/ i \cap j = {}
InstanceServed ==
    ~doubled /\ DevicesApart /\ DefaultNotAsked =>
        \A inst \in Instances : app[inst].pc \in {"attached", "running"} =>
            \E k \in Devs :
                /\ slot[k].inst_id = inst /\ slot[k].dma_size = DmaSize[inst]
                /\ \A d \in inst : udev[d].inst = k /\ kdev[d].inst_id = inst

=============================================================================
