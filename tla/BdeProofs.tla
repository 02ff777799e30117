---------------------------- MODULE BdeProofs ------------------------------
(***************************************************************************)
(* Proofs about the devices of the BDE and the instances of the user BDE,  *)
(* for any number of devices, any vectors, any set of instances and any    *)
(* pool, whichever calls and processes overlap.                            *)
(*   - The pool is handed out from its start to its end: what an instance  *)
(*     claims, as what it has mapped, as its slots or as what it is about  *)
(*     to put into one, lies below the offset and apart from what others   *)
(*     claim, as long as the offset was never torn (AInv, RInv).           *)
(*   - A device no call is about has its main handler on all its lines or  *)
(*     on none, as it has handlers or not, unless it has raced (DevInv).   *)
(*   - A filled slot and the devices of its instance point to each other,  *)
(*     there are as many slots as devices, and who is about to fill a slot *)
(*     is alone, as long as no slot was doubled (ServedInv).               *)
(***************************************************************************)
EXTENDS Bde, TLAPS, FiniteSetTheorems, WellFoundedInduction

Filled(k) == slot[k].inst_id # {}
End(r) == r.dma_offset + r.dma_size

(* Until the first instance is attached slot 0 is as _init left it, and it *)
(* is the slot that is picked.                                             *)
OnlyDefault ==
    ~multi_inst =>
        /\ slot[0].inst_id = 0 .. NDEVICES - 1
        /\ slot[0].dma_size = _dma_pool.total_size
        /\ \A k \in Devs : k # 0 => ~Filled(k)
        /\ \A i \in Instances : app[i].pc = "filling" => app[i].inst_idx = 0

AttachedMulti ==
    \A i \in Instances : app[i].pc = "attached" => multi_inst

AInv ==
    /\ TypeOK
    /\ DefaultNotAsked
    /\ OnlyDefault
    /\ AttachedMulti

(* The parts of the pool that belong to an instance.                       *)
SlotClaims(i) == {RangeOf(slot[k]) : k \in {l \in Devs : multi_inst /\ slot[l].inst_id = i}}
Pending(i) == [dma_offset |-> app[i].dma_offset, dma_size |-> DmaSize[i]]
PendingClaims(i) == IF app[i].pc \in {"placing", "filling"} THEN {Pending(i)} ELSE {}
Claims(i) == {NoRange, app[i].range} \cup SlotClaims(i) \cup PendingClaims(i)

ClaimsBelow ==
    \A i \in Instances : \A r \in Claims(i) : End(r) <= _dma_pool.offset
ClaimsApart ==
    \A i, j \in Instances : i # j =>
        \A r \in Claims(i), s \in Claims(j) : Apart(r, s)

OneTakes ==
    \A i, j \in Instances : app[i].pc = "taking" /\ app[j].pc = "taking" => i = j

TakingFits ==
    /\ _dma_pool.offset <= _dma_pool.total_size
    /\ \A i \in Instances : app[i].pc = "taking" =>
           /\ app[i].dma_offset = _dma_pool.offset
           /\ _dma_pool.offset + DmaSize[i] <= _dma_pool.total_size

RInv ==
    /\ OneTakes
    /\ TakingFits
    /\ ClaimsBelow
    /\ ClaimsApart

-----------------------------------------------------------------------------
LEMMA ConstantFacts ==
    /\ LINUX_BDE_MAX_DEVICES \in Nat /\ NDEVICES \in 1 .. LINUX_BDE_MAX_DEVICES
    /\ 0 \in Devs /\ Devs \subseteq Nat
    /\ \A i \in Instances : i # {} /\ i \subseteq Devs /\ DmaSize[i] \in Nat
    /\ PoolSizes \subseteq Nat
  BY DeviceAssumption, InstanceAssumption DEF Devs

(* The loops over the slots find a slot if there is one that fits. *)
LEMMA FirstFound ==
    ASSUME NEW S, S \subseteq Nat, S # {}
    PROVE  /\ First(S) \in S
           /\ 0 \in S => First(S) = 0
  <1> DEFINE less == OpToRel(<, Nat)
  <1>1. PICK k \in S : \A l \in S : <<l, k>> \notin less
    <2>1. IsWellFoundedOn(less, Nat)
      BY NatLessThanWellFounded
    <2> HIDE DEF less
    <2> QED
      BY <2>1, WFMin
  <1>2. \A l \in S : k <= l
    <2> SUFFICES ASSUME NEW l \in S PROVE k <= l
      OBVIOUS
    <2>1. k \in Nat /\ l \in Nat
      OBVIOUS
    <2>2. l < k => <<l, k>> \in less
      BY <2>1 DEF OpToRel
    <2> HIDE DEF less
    <2> QED
      BY <1>1, <2>1, <2>2
  <1>3. First(S) \in S /\ \A l \in S : First(S) <= l
    BY <1>2 DEF First
  <1>4. First(S) \in Nat
    BY <1>3
  <1>5. 0 \in S => First(S) <= 0
    BY <1>3
  <1> QED
    BY <1>3, <1>4, <1>5

LEMMA InitType == Init => TypeOK
  <1> SUFFICES ASSUME Init PROVE TypeOK
    OBVIOUS
  <1> USE ConstantFacts
  <1>1. PICK size \in PoolSizes : _dma_pool = [total_size |-> size, offset |-> 0]
    BY DEF Init
  <1>2. _dma_pool.total_size = size /\ size \in Nat
    BY <1>1
  <1>3. ndevices \in 1 .. LINUX_BDE_MAX_DEVICES
    BY DEF Init, DevicesInit
  <1>4. 0 .. NDEVICES - 1 \in SUBSET Devs
    BY DEF Devs
  <1>5. slot \in [Devs -> SlotType]
    BY <1>2, <1>4 DEF Init, SlotType, NoSlot
  <1>6. AppIdle \in AppType
    BY DEF AppIdle, NoRange, RangeType, AppType
  <1>7. app \in [Instances -> AppType]
    BY <1>6 DEF Init
  <1>8. multi_inst \in BOOLEAN /\ torn \in BOOLEAN /\ doubled \in BOOLEAN
    BY DEF Init
  <1> QED
    BY <1>1, <1>3, <1>5, <1>7, <1>8 DEF TypeOK

LEMMA InitInv == Init /\ DefaultNotAsked => AInv /\ RInv
  <1> SUFFICES ASSUME Init, DefaultNotAsked PROVE AInv /\ RInv
    OBVIOUS
  <1> USE ConstantFacts
  <1>1. _dma_pool.offset = 0 /\ _dma_pool.total_size \in Nat
    BY DEF Init
  <1>2. \A i \in Instances : app[i].pc = "idle" /\ app[i].range = NoRange
    BY DEF Init, AppIdle
  <1>3. OnlyDefault
    BY <1>2 DEF Init, OnlyDefault, Filled, NoSlot
  <1>4. AttachedMulti /\ OneTakes /\ TakingFits
    BY <1>1, <1>2 DEF AttachedMulti, OneTakes, TakingFits
  <1>5. ASSUME NEW i \in Instances PROVE \A r \in Claims(i) : r = NoRange
    BY <1>2 DEF Init, Claims, SlotClaims, PendingClaims
  <1>6. ClaimsBelow
    BY <1>1, <1>5 DEF ClaimsBelow, End, NoRange
  <1>7. ClaimsApart
    BY <1>5 DEF ClaimsApart, Apart, NoRange
  <1> QED
    BY <1>3, <1>4, <1>6, <1>7, InitType DEF AInv, RInv

-----------------------------------------------------------------------------
(* A slot that is found has the instance id that was looked for.           *)
LEMMA SlotFound ==
    ASSUME TypeOK, NEW inst \in Instances, Slots(inst) # {}
    PROVE  /\ First(Slots(inst)) \in Devs
           /\ slot[First(Slots(inst))].inst_id = inst
  <1>1. Slots(inst) \subseteq Devs /\ Slots(inst) \subseteq Nat
    BY ConstantFacts DEF Slots, Probed, Devs, TypeOK
  <1>2. First(Slots(inst)) \in Slots(inst)
    BY <1>1, FirstFound
  <1> QED
    BY <1>1, <1>2 DEF Slots

(* The slot that is picked is empty, or is slot 0 and the only one.        *)
LEMMA SlotChosen ==
    ASSUME TypeOK
    PROVE  /\ InstIdx \in Devs \cup {-1}
           /\ FreeSlots # {} => InstIdx \in Probed /\ (multi_inst => ~Filled(InstIdx))
           /\ ~multi_inst => FreeSlots # {} /\ InstIdx = 0
  <1>1. FreeSlots \subseteq Probed /\ Probed \subseteq Devs /\ FreeSlots \subseteq Nat
    BY ConstantFacts DEF FreeSlots, Probed, Devs, TypeOK
  <1>2. ~multi_inst => 0 \in FreeSlots
    BY ConstantFacts DEF FreeSlots, Probed, TypeOK
  <1>3. FreeSlots # {} => /\ InstIdx = First(FreeSlots) /\ InstIdx \in FreeSlots
                          /\ 0 \in FreeSlots => InstIdx = 0
    BY <1>1, FirstFound DEF InstIdx
  <1>4. FreeSlots = {} => InstIdx = -1
    BY DEF InstIdx
  <1>5. ASSUME FreeSlots # {}, multi_inst PROVE ~Filled(InstIdx)
    BY <1>3, <1>5 DEF FreeSlots, Filled
  <1> QED
    BY <1>1, <1>2, <1>3, <1>4, <1>5

-----------------------------------------------------------------------------
(* The steps of the devices, and LUBDE_REPROBE. *)
Untouched == UNCHANGED <<slot, multi_inst, _dma_pool, app, torn, doubled>>

LEMMA ProbedStays ==
    ASSUME TypeOK, DevicesNext \/ UNCHANGED devices \/ Reprobe
    PROVE  ndevices' \in 1 .. LINUX_BDE_MAX_DEVICES
  <1>1. CASE NewSwitch
    BY <1>1, ConstantFacts DEF NewSwitch, TypeOK
  <1>2. CASE UNCHANGED ndevices
    BY <1>2 DEF TypeOK
  <1> QED
    BY <1>1, <1>2 DEF DevicesNext, CallBegin, CallWrite, ConnectFinish,
       DisconnectFinish, _pci_probe, _pci_remove, devices, Reprobe

LEMMA TypeStays == TypeOK /\ [Next]_vars => TypeOK'
  <1> SUFFICES ASSUME TypeOK, [Next]_vars PROVE TypeOK'
    OBVIOUS
  <1> USE ConstantFacts
  <1>1. ASSUME NEW inst \in Instances, NEW a \in AppType, app' = [app EXCEPT ![inst] = a],
               UNCHANGED <<slot, multi_inst, _dma_pool, ndevices>>,
               torn' \in BOOLEAN, doubled' \in BOOLEAN
        PROVE  TypeOK'
    BY <1>1 DEF TypeOK
  <1>2. CASE Untouched /\ (DevicesNext \/ UNCHANGED devices \/ Reprobe)
    BY <1>2, ProbedStays DEF Untouched, TypeOK
  <1>3. ASSUME NEW inst \in Instances, AttachBegin(inst) PROVE TypeOK'
    <2>1. [app[inst] EXCEPT !.pc = _instance_validate(inst)] \in AppType
      BY DEF TypeOK, AppType, _instance_validate
    <2> QED
      BY <1>1, <1>3, <2>1 DEF AttachBegin, TypeOK
  <1>4. ASSUME NEW inst \in Instances, AttachAlloc(inst) PROVE TypeOK'
    <2> DEFINE b == [app[inst] EXCEPT !.pc = "taking", !.dma_offset = _dma_pool.offset]
    <2>1. AppIdle \in AppType /\ b \in AppType
      <3>1. AppIdle \in AppType
        BY DEF AppType, AppIdle, NoRange, RangeType
      <3>2. _dma_pool.offset \in Nat /\ app[inst] \in AppType
        BY DEF TypeOK
      <3>3. b \in AppType
        BY <3>2 DEF AppType
      <3> QED
        BY <3>1, <3>3
    <2>2. app' = [app EXCEPT ![inst] = AppIdle] \/ app' = [app EXCEPT ![inst] = b]
      BY <1>4 DEF AttachAlloc
    <2> HIDE DEF b, AppIdle
    <2>3. /\ UNCHANGED <<slot, multi_inst, _dma_pool, ndevices>>
          /\ torn' \in BOOLEAN /\ doubled' \in BOOLEAN
      BY <1>4 DEF AttachAlloc, devices, TypeOK
    <2> QED
      BY <1>1, <2>1, <2>2, <2>3
  <1>5. ASSUME NEW inst \in Instances, AttachTake(inst) PROVE TypeOK'
    <2>1. app' \in [Instances -> AppType]
      BY <1>5 DEF AttachTake, TypeOK, AppType
    <2>2. _dma_pool' \in [total_size : PoolSizes, offset : Nat]
      BY <1>5 DEF AttachTake, TypeOK
    <2> QED
      BY <1>5, <2>1, <2>2 DEF AttachTake, devices, TypeOK
  <1>6. ASSUME NEW inst \in Instances, AttachPick(inst) PROVE TypeOK'
    <2> DEFINE a == [app[inst] EXCEPT !.pc = "filling", !.inst_idx = InstIdx]
    <2>1. a \in AppType
      <3>1. InstIdx \in Devs \cup {-1} /\ app[inst] \in AppType
        BY SlotChosen DEF TypeOK
      <3> QED
        BY <3>1 DEF AppType
    <2>2. app' = [app EXCEPT ![inst] = a]
      BY <1>6 DEF AttachPick, TypeOK
    <2> HIDE DEF a
    <2>3. /\ UNCHANGED <<slot, multi_inst, _dma_pool, ndevices>>
          /\ torn' \in BOOLEAN /\ doubled' \in BOOLEAN
      BY <1>6 DEF AttachPick, devices, TypeOK
    <2> QED
      BY <1>1, <2>1, <2>2, <2>3
  <1>7. ASSUME NEW inst \in Instances, AttachFill(inst) PROVE TypeOK'
    <2>1. app[inst] \in AppType
      BY DEF TypeOK
    <2>2. slot' \in [Devs -> SlotType]
      <3>1. [inst_id |-> inst, dma_offset |-> app[inst].dma_offset,
             dma_size |-> DmaSize[inst]] \in SlotType
        BY <2>1 DEF SlotType, AppType
      <3> QED
        BY <1>7, <3>1 DEF AttachFill, FillSlot, TypeOK
    <2>3. app' \in [Instances -> AppType]
      BY <1>7 DEF AttachFill, FillSlot, TypeOK, AppType
    <2>4. multi_inst' \in BOOLEAN
      BY <1>7 DEF AttachFill, FillSlot
    <2> QED
      BY <1>7, <2>2, <2>3, <2>4 DEF AttachFill, FillSlot, TypeOK
  <1>8. ASSUME NEW inst \in Instances, GetDmaInfo(inst) PROVE TypeOK'
    <2> DEFINE r == IF multi_inst THEN _dma_resource_get(inst)
                    ELSE [dma_offset |-> 0, dma_size |-> _dma_pool.total_size]
               a == [app[inst] EXCEPT !.pc = "running", !.range = r]
    <2>1. \A k \in Devs : RangeOf(slot[k]) \in RangeType
      BY DEF RangeOf, RangeType, TypeOK, SlotType
    <2>2. _dma_resource_get(inst) \in RangeType
      BY <2>1, SlotFound DEF _dma_resource_get, NoRange, RangeType
    <2>3. r \in RangeType
      <3>1. _dma_pool.total_size \in Nat
        BY DEF TypeOK
      <3>2. [dma_offset |-> 0, dma_size |-> _dma_pool.total_size] \in RangeType
        BY <3>1 DEF RangeType
      <3> QED
        BY <2>2, <3>2
    <2>4. app' = [app EXCEPT ![inst].pc = "running", ![inst].range = r]
      BY <1>8 DEF GetDmaInfo
    <2> HIDE DEF r
    <2>5. a \in AppType /\ app' = [app EXCEPT ![inst] = a]
      <3>1. app[inst] \in AppType /\ app \in [Instances -> AppType]
        BY DEF TypeOK
      <3>2. a \in AppType
        BY <2>3, <3>1 DEF AppType
      <3>3. app' = [app EXCEPT ![inst] = a]
        BY <2>4, <3>1
      <3> QED
        BY <3>2, <3>3
    <2> HIDE DEF a
    <2>6. /\ UNCHANGED <<slot, multi_inst, _dma_pool, ndevices>>
          /\ torn' \in BOOLEAN /\ doubled' \in BOOLEAN
      BY <1>8 DEF GetDmaInfo, devices, TypeOK
    <2> QED
      BY <1>1, <2>5, <2>6
  <1>9. ASSUME NEW inst \in Instances, AppExit(inst) PROVE TypeOK'
    <2>1. AppIdle \in AppType
      BY DEF AppType, AppIdle, NoRange, RangeType
    <2> QED
      BY <1>1, <1>9, <2>1 DEF AppExit, devices, TypeOK
  <1>10. CASE Reprobe \/ UNCHANGED vars
    BY <1>2, <1>10 DEF Reprobe, vars, Untouched
  <1> QED
    BY <1>2, <1>3, <1>4, <1>5, <1>6, <1>7, <1>8, <1>9, <1>10 DEF Next, Untouched

LEMMA UntouchedKeeps ==
    ASSUME AInv, Untouched, ndevices' \in 1 .. LINUX_BDE_MAX_DEVICES
    PROVE  AInv' /\ (RInv => RInv')
  <1> USE DEF Untouched
  <1>1. TypeOK'
    BY DEF AInv, TypeOK
  <1>2. (DefaultNotAsked /\ OnlyDefault /\ AttachedMulti)'
    BY DEF AInv, DefaultNotAsked, OnlyDefault, AttachedMulti, Filled
  <1>3. \A i \in Instances : Claims(i)' = Claims(i)
    BY DEF Claims, SlotClaims, PendingClaims, Pending
  <1>4. RInv => RInv'
    BY <1>3 DEF RInv, OneTakes, TakingFits, ClaimsBelow, ClaimsApart
  <1> QED
    BY <1>1, <1>2, <1>4 DEF AInv

(* What the invariants need when only the process of inst has moved.       *)
LEMMA AppMoves ==
    ASSUME AInv, NEW inst \in Instances, NEW a \in AppType,
           app' = [app EXCEPT ![inst] = a],
           UNCHANGED <<slot, multi_inst, _dma_pool, ndevices>>,
           torn' \in BOOLEAN, doubled' \in BOOLEAN,
           a.pc = "attached" => multi_inst,
           a.pc = "filling" /\ ~multi_inst => a.inst_idx = 0
    PROVE  /\ AInv'
           /\ app'[inst] = a /\ \A i \in Instances : i # inst => app'[i] = app[i]
  <1>1. /\ app'[inst] = a
        /\ \A i \in Instances : i # inst => app'[i] = app[i]
    BY DEF AInv, TypeOK
  <1>2. TypeOK'
    BY DEF AInv, TypeOK
  <1>3. (DefaultNotAsked /\ OnlyDefault)'
    BY <1>1 DEF AInv, DefaultNotAsked, OnlyDefault, Filled
  <1>4. AttachedMulti'
    BY <1>1 DEF AInv, AttachedMulti
  <1> QED
    BY <1>1, <1>2, <1>3, <1>4 DEF AInv

(* Nobody gets a claim, and nobody takes.                                  *)
LEMMA ClaimsKept ==
    ASSUME RInv, UNCHANGED _dma_pool,
           \A i \in Instances : Claims(i)' \subseteq Claims(i),
           \A i \in Instances : app'[i].pc = "taking" => app'[i] = app[i]
    PROVE  RInv'
  <1>1. OneTakes' /\ TakingFits'
    BY DEF RInv, OneTakes, TakingFits
  <1>2. ClaimsBelow'
    BY DEF RInv, ClaimsBelow, End
  <1>3. ClaimsApart'
    BY DEF RInv, ClaimsApart, Apart
  <1> QED
    BY <1>1, <1>2, <1>3 DEF RInv

(* What a process claims beside its slots.                                 *)
LEMMA AppClaims ==
    ASSUME AInv, NEW inst \in Instances,
           UNCHANGED <<slot, multi_inst>>,
           \A i \in Instances : i # inst => app'[i] = app[i],
           app'[inst].range \in Claims(inst),
           \/ app'[inst].pc \notin {"placing", "filling"}
           \/ /\ app[inst].pc \in {"placing", "filling"}
              /\ app'[inst].dma_offset = app[inst].dma_offset
    PROVE  \A i \in Instances : Claims(i)' \subseteq Claims(i)
  <1>1. \A i \in Instances : SlotClaims(i)' = SlotClaims(i)
    BY DEF SlotClaims, RangeOf
  <1>2. ASSUME NEW i \in Instances, i # inst PROVE Claims(i)' \subseteq Claims(i)
    BY <1>1, <1>2 DEF Claims, PendingClaims, Pending
  <1>3. PendingClaims(inst)' \subseteq PendingClaims(inst)
    BY DEF PendingClaims, Pending
  <1>4. NoRange \in Claims(inst) /\ SlotClaims(inst) \subseteq Claims(inst)
        /\ PendingClaims(inst) \subseteq Claims(inst)
    BY DEF Claims
  <1>5. Claims(inst)' = {NoRange, app'[inst].range} \cup SlotClaims(inst)'
                            \cup PendingClaims(inst)'
    BY DEF Claims
  <1> QED
    BY <1>1, <1>2, <1>3, <1>4, <1>5

-----------------------------------------------------------------------------
(* Without an instance the slot that is found is slot 0, which holds the   *)
(* whole pool: no instance asks for it.                                    *)
LEMMA BeginKeepsInv ==
    ASSUME AInv, NEW inst \in Instances, AttachBegin(inst)
    PROVE  AInv' /\ (RInv => RInv')
  <1> DEFINE a == [app[inst] EXCEPT !.pc = _instance_validate(inst)]
  <1>1. app' = [app EXCEPT ![inst] = a]
    BY DEF AttachBegin, AInv, TypeOK
  <1>2. /\ _instance_validate(inst) \in {"idle", "validated", "attached"}
        /\ a.pc = _instance_validate(inst) /\ a.range = app[inst].range /\ a \in AppType
    BY DEF _instance_validate, AInv, TypeOK, AppType
  <1>3. _instance_validate(inst) = "attached" => multi_inst
    <2> SUFFICES ASSUME _instance_validate(inst) = "attached", ~multi_inst
                 PROVE  FALSE
      BY DEF AInv, TypeOK
    <2> DEFINE k == First(Slots(inst))
    <2>1. Slots(inst) # {} /\ slot[k].dma_size = DmaSize[inst]
      BY DEF _instance_validate
    <2>2. k \in Devs /\ slot[k].inst_id = inst /\ inst # {}
      BY <2>1, SlotFound, ConstantFacts DEF AInv
    <2> HIDE DEF k
    <2>3. k = 0
      BY <2>2 DEF AInv, OnlyDefault, Filled
    <2>4. inst = 0 .. NDEVICES - 1 /\ DmaSize[inst] = _dma_pool.total_size
      BY <2>1, <2>2, <2>3 DEF AInv, OnlyDefault
    <2> QED
      BY <2>4 DEF AInv, DefaultNotAsked
  <1>4. UNCHANGED <<slot, multi_inst, _dma_pool, ndevices, torn, doubled>>
    BY DEF AttachBegin
  <1>5. torn' \in BOOLEAN /\ doubled' \in BOOLEAN
    BY <1>4 DEF AInv, TypeOK
  <1> HIDE DEF a
  <1>6. AInv' /\ app'[inst] = a /\ \A i \in Instances : i # inst => app'[i] = app[i]
    BY <1>1, <1>2, <1>3, <1>4, <1>5, AppMoves
  <1>7. app[inst].range \in Claims(inst)
    BY DEF Claims
  <1>8. \A i \in Instances : Claims(i)' \subseteq Claims(i)
    BY <1>2, <1>4, <1>6, <1>7, AppClaims
  <1>9. \A i \in Instances : app'[i].pc = "taking" => app'[i] = app[i]
    BY <1>2, <1>6
  <1> QED
    BY <1>4, <1>6, <1>8, <1>9, ClaimsKept

(* Who reads the offset while nobody is taking reads it as it is.          *)
LEMMA AllocKeepsInv ==
    ASSUME AInv, NEW inst \in Instances, AttachAlloc(inst)
    PROVE  AInv' /\ (RInv /\ ~torn' => RInv')
  <1> DEFINE b == [app[inst] EXCEPT !.pc = "taking", !.dma_offset = _dma_pool.offset]
             a == IF RunsOut(DmaSize[inst]) THEN AppIdle ELSE b
  <1>1. app' = [app EXCEPT ![inst] = a]
    BY DEF AttachAlloc, AInv, TypeOK
  <1>2. /\ _dma_pool.offset \in Nat /\ _dma_pool.total_size \in Nat
        /\ DmaSize[inst] \in Nat
    BY ConstantFacts DEF AInv, TypeOK
  <1>3. AppIdle \in AppType /\ AppIdle.pc = "idle" /\ AppIdle.range = NoRange
    BY DEF AppIdle, NoRange, RangeType, AppType
  <1>4. /\ b \in AppType /\ b.pc = "taking" /\ b.dma_offset = _dma_pool.offset
        /\ b.range = app[inst].range
    BY <1>2 DEF AInv, TypeOK, AppType
  <1> HIDE DEF b, AppIdle
  <1>5. /\ a \in AppType /\ a.pc \in {"idle", "taking"}
        /\ a.range = NoRange \/ a.range = app[inst].range
        /\ a.pc = "taking" => a = b /\ ~RunsOut(DmaSize[inst])
    BY <1>3, <1>4
  <1>6. UNCHANGED <<slot, multi_inst, _dma_pool, ndevices, doubled>> /\ torn' \in BOOLEAN
        /\ doubled' \in BOOLEAN
    BY DEF AttachAlloc, devices, AInv, TypeOK
  <1> HIDE DEF a
  <1>7. AInv' /\ app'[inst] = a /\ \A i \in Instances : i # inst => app'[i] = app[i]
    BY <1>1, <1>5, <1>6, AppMoves
  <1>8. app'[inst].range \in Claims(inst)
    BY <1>5, <1>7 DEF Claims
  <1>9. \A i \in Instances : Claims(i)' \subseteq Claims(i)
    BY <1>5, <1>6, <1>7, <1>8, AppClaims
  <1>10. ASSUME RInv, ~torn' PROVE RInv'
    <2>1. \A i \in Instances : app[i].pc # "taking"
      BY <1>10 DEF AttachAlloc
    <2>2. OneTakes'
      BY <1>7, <2>1 DEF OneTakes
    <2>3. a.pc = "taking" => _dma_pool.offset + DmaSize[inst] <= _dma_pool.total_size
      BY <1>2, <1>5, <1>10 DEF RInv, TakingFits, RunsOut
    <2>4. TakingFits'
      BY <1>4, <1>5, <1>6, <1>7, <1>10, <2>1, <2>3 DEF RInv, TakingFits
    <2>5. ClaimsBelow' /\ ClaimsApart'
      BY <1>6, <1>9, <1>10 DEF RInv, ClaimsBelow, ClaimsApart, Apart, End
    <2> QED
      BY <2>2, <2>4, <2>5 DEF RInv
  <1> QED
    BY <1>7, <1>10

LEMMA PickKeepsInv ==
    ASSUME AInv, NEW inst \in Instances, AttachPick(inst)
    PROVE  AInv' /\ (RInv => RInv')
  <1> DEFINE a == [app[inst] EXCEPT !.pc = "filling", !.inst_idx = InstIdx]
  <1>1. app' = [app EXCEPT ![inst] = a] /\ app[inst].pc = "placing"
    BY DEF AttachPick, AInv, TypeOK
  <1>2. InstIdx \in Devs \cup {-1} /\ (~multi_inst => InstIdx = 0)
    BY SlotChosen DEF AInv
  <1>3. /\ a \in AppType /\ a.pc = "filling" /\ a.inst_idx = InstIdx
        /\ a.range = app[inst].range /\ a.dma_offset = app[inst].dma_offset
    BY <1>2 DEF AInv, TypeOK, AppType
  <1>4. UNCHANGED <<slot, multi_inst, _dma_pool, ndevices, torn>> /\ torn' \in BOOLEAN
        /\ doubled' \in BOOLEAN
    BY DEF AttachPick, devices, AInv, TypeOK
  <1> HIDE DEF a
  <1>5. AInv' /\ app'[inst] = a /\ \A i \in Instances : i # inst => app'[i] = app[i]
    BY <1>1, <1>2, <1>3, <1>4, AppMoves
  <1>6. app'[inst].range \in Claims(inst)
    BY <1>3, <1>5 DEF Claims
  <1>7. \A i \in Instances : Claims(i)' \subseteq Claims(i)
    BY <1>1, <1>3, <1>4, <1>5, <1>6, AppClaims
  <1>8. \A i \in Instances : app'[i].pc = "taking" => app'[i] = app[i]
    BY <1>3, <1>5
  <1> QED
    BY <1>4, <1>5, <1>7, <1>8, ClaimsKept

LEMMA GetDmaInfoKeepsInv ==
    ASSUME AInv, NEW inst \in Instances, GetDmaInfo(inst)
    PROVE  AInv' /\ (RInv => RInv')
  <1> DEFINE r == _dma_resource_get(inst)
             a == [app[inst] EXCEPT !.pc = "running", !.range = r]
  <1>1. multi_inst
    BY DEF GetDmaInfo, AInv, AttachedMulti
  <1>2. r \in Claims(inst)
    <2>1. CASE Slots(inst) = {}
      BY <2>1 DEF _dma_resource_get, Claims
    <2>2. CASE Slots(inst) # {}
      <3>1. r = RangeOf(slot[First(Slots(inst))])
        BY <2>2 DEF _dma_resource_get
      <3>2. r \in SlotClaims(inst)
        BY <1>1, <2>2, <3>1, SlotFound DEF SlotClaims, AInv
      <3> QED
        BY <3>2 DEF Claims
    <2> QED
      BY <2>1, <2>2
  <1>3. r \in RangeType
    <2>1. r = NoRange \/ \E k \in Devs : r = RangeOf(slot[k])
      BY SlotFound DEF _dma_resource_get, AInv
    <2> QED
      BY <2>1 DEF NoRange, RangeOf, RangeType, AInv, TypeOK, SlotType
  <1>4. app' = [app EXCEPT ![inst] = a]
    BY <1>1 DEF GetDmaInfo, AInv, TypeOK
  <1>5. UNCHANGED <<slot, multi_inst, _dma_pool, ndevices, torn, doubled>>
        /\ torn' \in BOOLEAN /\ doubled' \in BOOLEAN
    BY DEF GetDmaInfo, devices, AInv, TypeOK
  <1> HIDE DEF r
  <1>6. a \in AppType /\ a.pc = "running" /\ a.range = r
    BY <1>3 DEF AInv, TypeOK, AppType
  <1> HIDE DEF a
  <1>7. AInv' /\ app'[inst] = a /\ \A i \in Instances : i # inst => app'[i] = app[i]
    BY <1>4, <1>5, <1>6, AppMoves
  <1>8. \A i \in Instances : Claims(i)' \subseteq Claims(i)
    BY <1>2, <1>5, <1>6, <1>7, AppClaims
  <1>9. \A i \in Instances : app'[i].pc = "taking" => app'[i] = app[i]
    BY <1>6, <1>7
  <1> QED
    BY <1>5, <1>7, <1>8, <1>9, ClaimsKept

LEMMA ExitKeepsInv ==
    ASSUME AInv, NEW inst \in Instances, AppExit(inst)
    PROVE  AInv' /\ (RInv => RInv')
  <1>1. AppIdle \in AppType /\ AppIdle.pc = "idle" /\ AppIdle.range = NoRange
    BY DEF AppIdle, NoRange, RangeType, AppType
  <1>2. /\ UNCHANGED <<slot, multi_inst, _dma_pool, ndevices, torn, doubled>>
        /\ torn' \in BOOLEAN /\ doubled' \in BOOLEAN
        /\ app' = [app EXCEPT ![inst] = AppIdle]
    BY DEF AppExit, devices, AInv, TypeOK
  <1> HIDE DEF AppIdle
  <1>3. AInv' /\ app'[inst] = AppIdle /\ \A i \in Instances : i # inst => app'[i] = app[i]
    BY <1>1, <1>2, AppMoves
  <1>4. app'[inst].range \in Claims(inst)
    BY <1>1, <1>3 DEF Claims
  <1>5. \A i \in Instances : Claims(i)' \subseteq Claims(i)
    BY <1>1, <1>2, <1>3, <1>4, AppClaims
  <1>6. \A i \in Instances : app'[i].pc = "taking" => app'[i] = app[i]
    BY <1>1, <1>3
  <1> QED
    BY <1>2, <1>3, <1>5, <1>6, ClaimsKept

-----------------------------------------------------------------------------
(* The process takes what lies between the old offset and the new one.     *)
LEMMA TakeKeepsInv ==
    ASSUME AInv, NEW inst \in Instances, AttachTake(inst)
    PROVE  AInv' /\ (RInv => RInv')
  <1>1. /\ _dma_pool.offset \in Nat /\ _dma_pool.total_size \in Nat
        /\ DmaSize[inst] \in Nat
    BY ConstantFacts DEF AInv, TypeOK
  <1>2. /\ _dma_pool'.offset = _dma_pool.offset + DmaSize[inst]
        /\ _dma_pool'.total_size = _dma_pool.total_size
        /\ _dma_pool' \in [total_size : PoolSizes, offset : Nat]
        /\ UNCHANGED <<slot, multi_inst, ndevices, torn, doubled>>
    BY <1>1 DEF AttachTake, devices, AInv, TypeOK
  <1>3. /\ app'[inst].pc = "placing" /\ app'[inst].dma_offset = app[inst].dma_offset
        /\ app'[inst].range = app[inst].range /\ app[inst].pc = "taking"
        /\ \A i \in Instances : i # inst => app'[i] = app[i]
        /\ app' \in [Instances -> AppType]
    BY DEF AttachTake, AInv, TypeOK, AppType
  <1>4. AInv'
    <2>1. TypeOK'
      BY <1>2, <1>3 DEF AInv, TypeOK
    <2>2. (DefaultNotAsked /\ OnlyDefault /\ AttachedMulti)'
      BY <1>2, <1>3 DEF AInv, DefaultNotAsked, OnlyDefault, AttachedMulti, Filled
    <2> QED
      BY <2>1, <2>2 DEF AInv
  <1>5. ASSUME RInv PROVE RInv'
    <2>1. /\ app[inst].dma_offset = _dma_pool.offset
          /\ _dma_pool.offset + DmaSize[inst] <= _dma_pool.total_size
      BY <1>3, <1>5 DEF RInv, TakingFits
    <2>2. \A i \in Instances : app'[i].pc # "taking"
      BY <1>3, <1>5 DEF RInv, OneTakes
    <2> DEFINE new == [dma_offset |-> _dma_pool.offset, dma_size |-> DmaSize[inst]]
    <2>3. /\ new \in RangeType /\ new.dma_offset = _dma_pool.offset
          /\ new.dma_size = DmaSize[inst]
      BY <1>1 DEF RangeType
    <2>4. \A i \in Instances : SlotClaims(i)' = SlotClaims(i)
      BY <1>2 DEF SlotClaims, RangeOf
    <2>5. ASSUME NEW i \in Instances, i # inst PROVE Claims(i)' = Claims(i)
      BY <1>3, <2>4, <2>5 DEF Claims, PendingClaims, Pending
    <2>6. Claims(inst)' \subseteq Claims(inst) \cup {new}
      <3>1. PendingClaims(inst)' = {new}
        BY <1>3, <2>1 DEF PendingClaims, Pending
      <3> QED
        BY <1>3, <2>4, <3>1 DEF Claims
    <2> HIDE DEF new
    <2>7. \A i \in Instances : \A r \in Claims(i) : r \in RangeType /\ End(r) <= _dma_pool.offset
      <3> SUFFICES ASSUME NEW i \in Instances, NEW r \in Claims(i) PROVE r \in RangeType
        BY <1>5 DEF RInv, ClaimsBelow
      <3>1. app[i] \in AppType /\ DmaSize[i] \in Nat
        BY ConstantFacts DEF AInv, TypeOK
      <3>2. NoRange \in RangeType /\ app[i].range \in RangeType /\ Pending(i) \in RangeType
        BY <3>1 DEF NoRange, RangeType, AppType, Pending
      <3>3. \A k \in Devs : RangeOf(slot[k]) \in RangeType
        BY DEF AInv, TypeOK, SlotType, RangeOf, RangeType
      <3> QED
        BY <3>2, <3>3 DEF Claims, SlotClaims, PendingClaims
    <2>8. ClaimsBelow'
      <3> SUFFICES ASSUME NEW i \in Instances, NEW r \in Claims(i)'
                   PROVE  End(r) <= _dma_pool'.offset
        BY DEF ClaimsBelow, End
      <3>1. CASE r = new
        BY <1>1, <1>2, <2>3, <3>1 DEF End
      <3>2. CASE r # new
        <4>1. r \in Claims(i)
          BY <2>5, <2>6, <3>2
        <4> QED
          BY <1>1, <1>2, <2>7, <4>1 DEF End, RangeType
      <3> QED
        BY <3>1, <3>2
    <2>9. ClaimsApart'
      <3>1. ASSUME NEW i \in Instances, i # inst, NEW r \in Claims(i)
            PROVE  Apart(r, new) /\ Apart(new, r)
        BY <1>1, <2>3, <2>7, <3>1 DEF Apart, End, RangeType
      <3>2. \A i, j \in Instances : i # j =>
                \A r \in Claims(i), s \in Claims(j) : Apart(r, s)
        BY <1>5 DEF RInv, ClaimsApart
      <3> SUFFICES ASSUME NEW i \in Instances, NEW j \in Instances, i # j,
                          NEW r \in Claims(i)', NEW s \in Claims(j)'
                   PROVE  Apart(r, s)
        BY DEF ClaimsApart, Apart
      <3>3. CASE i = inst
        BY <2>5, <2>6, <3>1, <3>2, <3>3
      <3>4. CASE j = inst
        BY <2>5, <2>6, <3>1, <3>2, <3>4
      <3>5. CASE i # inst /\ j # inst
        BY <2>5, <3>2, <3>5
      <3> QED
        BY <3>3, <3>4, <3>5
    <2>10. OneTakes' /\ TakingFits'
      BY <1>1, <1>2, <2>1, <2>2 DEF OneTakes, TakingFits
    <2> QED
      BY <2>8, <2>9, <2>10 DEF RInv
  <1> QED
    BY <1>4, <1>5

(* What it was about to put into a slot is now in the slot, or lost.       *)
LEMMA FillKeepsInv ==
    ASSUME AInv, NEW inst \in Instances, AttachFill(inst)
    PROVE  AInv' /\ (RInv => RInv')
  <1> DEFINE new == [inst_id |-> inst, dma_offset |-> app[inst].dma_offset,
                     dma_size |-> DmaSize[inst]]
             k0 == app[inst].inst_idx
  <1>1. /\ slot' = [k \in Devs |-> IF k = k0 THEN new ELSE slot[k]]
        /\ multi_inst' = (multi_inst \/ k0 # -1)
        /\ UNCHANGED <<_dma_pool, ndevices, torn, doubled>>
    BY DEF AttachFill, FillSlot
  <1>2. k0 \in Devs \cup {-1} /\ (~multi_inst => k0 = 0) /\ app[inst] \in AppType
    BY DEF AttachFill, FillSlot, AInv, OnlyDefault, TypeOK, AppType
  <1>3. /\ new \in SlotType /\ new.inst_id = inst /\ RangeOf(new) = Pending(inst)
    BY <1>2, ConstantFacts DEF SlotType, AppType, RangeOf, Pending
  <1>4. /\ app'[inst].pc = "attached" /\ app'[inst].range = app[inst].range
        /\ app[inst].pc = "filling"
        /\ \A i \in Instances : i # inst => app'[i] = app[i]
        /\ app' \in [Instances -> AppType]
    BY DEF AttachFill, FillSlot, AInv, TypeOK, AppType
  <1>5. multi_inst'
    <2>1. multi_inst \/ k0 # -1
      BY <1>2
    <2> HIDE DEF k0
    <2> QED
      BY <1>1, <2>1
  <1>6. \A k \in Devs : slot'[k] = IF k = k0 THEN new ELSE slot[k]
    BY <1>1
  <1> HIDE DEF new, k0
  <1>7. AInv'
    <2>1. slot' \in [Devs -> SlotType]
      BY <1>1, <1>3 DEF AInv, TypeOK
    <2>2. TypeOK'
      BY <1>1, <1>4, <1>5, <2>1 DEF AInv, TypeOK
    <2>3. (DefaultNotAsked /\ OnlyDefault /\ AttachedMulti)'
      BY <1>1, <1>5 DEF AInv, DefaultNotAsked, OnlyDefault, AttachedMulti
    <2> QED
      BY <2>2, <2>3 DEF AInv
  <1>8. ASSUME NEW i \in Instances PROVE Claims(i)' \subseteq Claims(i)
    <2>1. SlotClaims(i)' \subseteq SlotClaims(i) \cup (IF i = inst THEN {Pending(i)} ELSE {})
      <3> SUFFICES ASSUME NEW k \in Devs, slot'[k].inst_id = i
                   PROVE  \/ i = inst /\ RangeOf(slot'[k]) = Pending(i)
                          \/ RangeOf(slot'[k]) \in SlotClaims(i)
        BY DEF SlotClaims, RangeOf
      <3>1. CASE k = k0
        BY <1>3, <1>6, <3>1
      <3>2. CASE k # k0
        <4>1. slot'[k] = slot[k] /\ i # {}
          BY <1>6, <3>2, ConstantFacts
        <4>2. multi_inst
          BY <1>2, <3>2, <4>1 DEF AInv, OnlyDefault, Filled, TypeOK
        <4> QED
          BY <4>1, <4>2 DEF SlotClaims
      <3> QED
        BY <3>1, <3>2
    <2>2. CASE i = inst
      <3>1. PendingClaims(i) = {Pending(i)} /\ PendingClaims(i)' = {}
        BY <1>4, <2>2 DEF PendingClaims
      <3> QED
        BY <1>4, <2>1, <2>2, <3>1 DEF Claims
    <2>3. CASE i # inst
      <3>1. PendingClaims(i)' = PendingClaims(i) /\ app'[i] = app[i]
        BY <1>4, <2>3 DEF PendingClaims, Pending
      <3> QED
        BY <2>1, <2>3, <3>1 DEF Claims
    <2> QED
      BY <2>2, <2>3
  <1>9. \A i \in Instances : app'[i].pc = "taking" => app'[i] = app[i]
    BY <1>4
  <1> QED
    BY <1>1, <1>7, <1>8, <1>9, ClaimsKept

-----------------------------------------------------------------------------
LEMMA StepKeepsInv ==
    ASSUME AInv, [Next]_vars
    PROVE  AInv' /\ (RInv /\ ~torn' => RInv')
  <1>1. CASE DevicesNext /\ UNCHANGED <<slot, multi_inst, _dma_pool, app, torn, doubled>>
    BY <1>1, ProbedStays, UntouchedKeeps DEF Untouched, AInv
  <1>2. ASSUME NEW inst \in Instances, AttachBegin(inst) PROVE AInv' /\ (RInv => RInv')
    BY <1>2, BeginKeepsInv
  <1>3. ASSUME NEW inst \in Instances, AttachAlloc(inst)
        PROVE  AInv' /\ (RInv /\ ~torn' => RInv')
    BY <1>3, AllocKeepsInv
  <1>4. ASSUME NEW inst \in Instances, AttachTake(inst) PROVE AInv' /\ (RInv => RInv')
    BY <1>4, TakeKeepsInv
  <1>5. ASSUME NEW inst \in Instances, AttachPick(inst) PROVE AInv' /\ (RInv => RInv')
    BY <1>5, PickKeepsInv
  <1>6. ASSUME NEW inst \in Instances, AttachFill(inst) PROVE AInv' /\ (RInv => RInv')
    BY <1>6, FillKeepsInv
  <1>7. ASSUME NEW inst \in Instances, GetDmaInfo(inst) PROVE AInv' /\ (RInv => RInv')
    BY <1>7, GetDmaInfoKeepsInv
  <1>8. ASSUME NEW inst \in Instances, AppExit(inst) PROVE AInv' /\ (RInv => RInv')
    BY <1>8, ExitKeepsInv
  <1>9. CASE Reprobe \/ UNCHANGED vars
    BY <1>9, ProbedStays, UntouchedKeeps DEF Untouched, Reprobe, vars, AInv
  <1> QED
    BY <1>1, <1>2, <1>3, <1>4, <1>5, <1>6, <1>7, <1>8, <1>9 DEF Next

LEMMA RangesFollow ==
    ASSUME AInv, RInv
    PROVE  RangesApart
  <1>1. \A i \in Instances : app[i].range \in Claims(i)
    BY DEF Claims
  <1>2. ASSUME NEW i \in Instances
        PROVE  app[i].range.dma_offset + app[i].range.dma_size <= _dma_pool.total_size
    <2>1. app[i] \in AppType /\ _dma_pool.offset \in Nat /\ _dma_pool.total_size \in Nat
      BY ConstantFacts DEF AInv, TypeOK
    <2>2. End(app[i].range) <= _dma_pool.offset /\ _dma_pool.offset <= _dma_pool.total_size
      BY <1>1 DEF RInv, ClaimsBelow, TakingFits
    <2> QED
      BY <2>1, <2>2 DEF End, AppType, RangeType
  <1>3. \A i, j \in Instances : i # j => Apart(app[i].range, app[j].range)
    BY <1>1 DEF RInv, ClaimsApart
  <1> QED
    BY <1>2, <1>3 DEF RangesApart

-----------------------------------------------------------------------------
(* Whether some instance asks for exactly slot 0 is settled by Init: the   *)
(* size of the pool never changes.  What was torn stays torn.              *)
Settled ==
    /\ _dma_pool \in [total_size : PoolSizes, offset : Int]
    /\ torn \in BOOLEAN
    /\ DefaultNotAsked => AInv /\ (~torn => RInv)

LEMMA SettledInit == Init => Settled
  <1> SUFFICES ASSUME Init PROVE Settled
    OBVIOUS
  <1>1. _dma_pool \in [total_size : PoolSizes, offset : Int]
    BY DEF Init
  <1>2. torn \in BOOLEAN
    BY DEF Init
  <1> QED
    BY <1>1, <1>2, InitInv DEF Settled

LEMMA SettledStays ==
    ASSUME Settled, [Next]_vars
    PROVE  /\ _dma_pool' \in [total_size : PoolSizes, offset : Int]
           /\ DefaultNotAsked' <=> DefaultNotAsked
           /\ torn' \in BOOLEAN /\ (torn => torn')
  <1>1. \/ UNCHANGED _dma_pool
        \/ \E inst \in Instances : AttachTake(inst)
    BY DEF Next, vars, AttachBegin, AttachAlloc, AttachPick, AttachFill, FillSlot, GetDmaInfo,
           AppExit, Reprobe
  <1>2. /\ _dma_pool' \in [total_size : PoolSizes, offset : Int]
        /\ _dma_pool'.total_size = _dma_pool.total_size
    BY <1>1, ConstantFacts DEF AttachTake, Settled
  <1>3. \/ UNCHANGED torn
        \/ \E inst \in Instances : AttachAlloc(inst)
    BY DEF Next, vars, AttachBegin, AttachTake, AttachPick, AttachFill, FillSlot, GetDmaInfo,
           AppExit, Reprobe
  <1>4. torn' \in BOOLEAN /\ (torn => torn')
    BY <1>3 DEF AttachAlloc, Settled
  <1> QED
    BY <1>2, <1>4 DEF DefaultNotAsked

LEMMA SettledStep == Settled /\ [Next]_vars => Settled'
  BY SettledStays, StepKeepsInv DEF Settled

(* The parts of the DMA pool that processes of different instances have    *)
(* mapped never overlap and lie in the pool, as long as no process reads   *)
(* the offset between another's reading it and moving it on: for any       *)
(* devices, instances, sizes and pool, however else the processes that     *)
(* attach overlap, whatever is ended, plugged and reprobed in between.     *)
THEOREM BdeRangesDisjoint == Spec => []RangesDisjoint
  <1>1. Settled => RangesDisjoint
    BY RangesFollow DEF Settled, RangesDisjoint, RangesApart
  <1> QED
    BY <1>1, SettledInit, SettledStep, PTL DEF Spec

(* The devices.  Without a call that is about it a device has its main     *)
(* handler on all its lines or on none (Clean).  During a call it is still *)
(* clean until the caller has written its own handler; afterwards the main *)
(* handler is as the call has found it (active).  Nothing is said of a     *)
(* device that has raced.                                                  *)
KdevType == [state : {"normal", "removed"}, isr : BOOLEAN, isr2 : BOOLEAN,
             irqs : [Vectors -> Nat], msi : BOOLEAN, inst_id : SUBSET Devs]
UdevType == [devid : BOOLEAN, enabled : BOOLEAN, inst : Devs \cup {-1}]
CallType == [pc : {"idle", "write", "finish"}, op : {"connect", "disconnect"},
             dev : Devs, active : BOOLEAN]

DevType ==
    /\ use_msi \in {"INTX", "MSI", "MSIX"}
    /\ ndevices \in 1 .. LINUX_BDE_MAX_DEVICES
    /\ kdev \in [Devs -> KdevType]
    /\ udev \in [Devs -> UdevType]
    /\ call \in [Callers -> CallType]

HasHandler(k) == k.isr \/ k.isr2
OnLines(k) == /\ \A v \in Lines : k.irqs[v] = 1
              /\ k.msi <=> use_msi # "INTX"
OffLines(k) == /\ \A v \in Lines : k.irqs[v] = 0
               /\ ~k.msi
RemovedBare(k) == k.state = "removed" => ~HasHandler(k)
Clean(k) == /\ HasHandler(k) => OnLines(k)
            /\ ~HasHandler(k) => OffLines(k)
            /\ RemovedBare(k)

CallSound(cl, k) ==
    /\ cl.pc = "write" => /\ Clean(k)
                          /\ cl.active <=> HasHandler(k)
                          /\ cl.op = "connect" => k.state = "normal"
    /\ cl.pc = "finish" /\ cl.op = "connect" =>
           OffLines(k) /\ HasHandler(k) /\ k.state = "normal"
    /\ cl.pc = "finish" /\ cl.op = "disconnect" =>
           /\ cl.active => OnLines(k)
           /\ ~cl.active => OffLines(k) /\ ~HasHandler(k)
           /\ RemovedBare(k)

OneCalls ==
    \A b, c \in Callers :
        call[b].pc # "idle" /\ call[c].pc # "idle" /\ call[b].dev = call[c].dev =>
            b = c \/ call[b].dev \in raced
CallsSound ==
    \A c \in Callers : call[c].dev \notin raced => CallSound(call[c], kdev[call[c].dev])
OthersClean == \A d \in Devs : d \notin raced /\ ~Busy(d) => Clean(kdev[d])

DevInv == DevType /\ OneCalls /\ CallsSound /\ OthersClean

-----------------------------------------------------------------------------
LEMMA InitDevInv == Init => DevInv
  <1> SUFFICES ASSUME Init PROVE DevInv
    OBVIOUS
  <1> USE ConstantFacts
  <1>1. NewDev \in KdevType /\ NoCall \in CallType
    BY DEF NewDev, KdevType, NoCall, CallType
  <1>2. DevType
    <2>1. use_msi \in {"INTX", "MSI", "MSIX"} /\ ndevices \in 1 .. LINUX_BDE_MAX_DEVICES
      BY DEF Init, DevicesInit
    <2>2. kdev \in [Devs -> KdevType] /\ call \in [Callers -> CallType]
      BY <1>1 DEF Init, DevicesInit
    <2>3. /\ _devices_init \in UdevType
          /\ [_devices_init EXCEPT !.devid = FALSE] \in UdevType
      BY DEF _devices_init, UdevType
    <2>4. udev \in [Devs -> UdevType]
      BY <2>3 DEF Init, DevicesInit
    <2> QED
      BY <2>1, <2>2, <2>4 DEF DevType
  <1>3. \A c \in Callers : call[c].pc = "idle"
    BY DEF Init, DevicesInit, NoCall
  <1>4. \A d \in Devs : Clean(kdev[d])
    <2>1. Lines \subseteq Vectors
      BY DeviceAssumption DEF Lines
    <2>2. Clean(NewDev)
      BY <2>1 DEF NewDev, Clean, HasHandler, OffLines, RemovedBare
    <2> QED
      BY <2>2 DEF Init, DevicesInit
  <1>5. OneCalls /\ CallsSound
    BY <1>3 DEF OneCalls, CallsSound, CallSound
  <1> QED
    BY <1>2, <1>4, <1>5 DEF DevInv, OthersClean

(* What the invariant needs of a step of a call ...                        *)
LEMMA CallMoves ==
    ASSUME DevInv, NEW c \in Callers, NEW nc \in CallType, NEW nk \in KdevType,
           call[c].pc # "idle",
           call' = [call EXCEPT ![c] = nc],
           kdev' = [kdev EXCEPT ![call[c].dev] = nk],
           nc.pc # "idle" => nc.dev = call[c].dev,
           call[c].dev \notin raced => /\ nc.pc # "idle" => CallSound(nc, nk)
                                       /\ nc.pc = "idle" => Clean(nk),
           udev' \in [Devs -> UdevType],
           UNCHANGED <<use_msi, ndevices, raced>>
    PROVE  DevInv'
  <1> DEFINE d0 == call[c].dev
  <1>1. /\ call'[c] = nc /\ \A b \in Callers : b # c => call'[b] = call[b]
        /\ d0 \in Devs
        /\ kdev'[d0] = nk /\ \A d \in Devs : d # d0 => kdev'[d] = kdev[d]
        /\ \A b \in Callers : call[b].dev \in Devs
    BY DEF DevInv, DevType, CallType
  <1>2. \A b \in Callers :
            b # c /\ call[b].pc # "idle" /\ d0 \notin raced => call[b].dev # d0
    BY DEF DevInv, OneCalls
  <1>3. DevType'
    BY DEF DevInv, DevType
  <1>4. OneCalls'
    <2> SUFFICES ASSUME NEW a \in Callers, NEW b \in Callers, a # b,
                        call'[a].pc # "idle", call'[b].pc # "idle",
                        call'[a].dev = call'[b].dev, call'[a].dev \notin raced
                 PROVE  FALSE
      BY DEF OneCalls
    <2>1. CASE a = c
      BY <1>1, <1>2, <2>1
    <2>2. CASE b = c
      BY <1>1, <1>2, <2>2
    <2>3. CASE a # c /\ b # c
      BY <1>1, <2>3 DEF DevInv, OneCalls
    <2> QED
      BY <2>1, <2>2, <2>3
  <1>5. Lines' = Lines
    BY DEF Lines
  <1>6. CallsSound'
    <2> SUFFICES ASSUME NEW b \in Callers, call'[b].dev \notin raced, call'[b].pc # "idle"
                 PROVE  CallSound(call[b], kdev[call[b].dev])'
      BY DEF CallsSound, CallSound
    <2>1. CallSound(call'[b], kdev'[call'[b].dev])
      <3>1. CASE b = c
        BY <1>1, <3>1
      <3>2. CASE b # c
        <4>1. call'[b] = call[b] /\ call[b].dev # d0
          BY <1>1, <1>2, <3>2
        <4> QED
          BY <1>1, <4>1 DEF DevInv, CallsSound
      <3> QED
        BY <3>1, <3>2
    <2> QED
      BY <1>5, <2>1 DEF CallSound, Clean, OnLines, OffLines, HasHandler, RemovedBare
  <1>7. OthersClean'
    <2> SUFFICES ASSUME NEW d \in Devs, d \notin raced, ~Busy(d)'
                 PROVE  Clean(kdev[d])'
      BY DEF OthersClean
    <2>1. Clean(kdev'[d])
      <3>1. CASE d = d0
        <4>1. nc.pc = "idle"
          BY <1>1, <3>1 DEF Busy
        <4> QED
          BY <1>1, <3>1, <4>1
      <3>2. CASE d # d0
        <4>1. ~Busy(d)
          BY <1>1, <3>2 DEF Busy
        <4> QED
          BY <1>1, <3>2, <4>1 DEF DevInv, OthersClean
      <3> QED
        BY <3>1, <3>2
    <2> QED
      BY <1>5, <2>1 DEF Clean, OnLines, OffLines, HasHandler, RemovedBare
  <1> QED
    BY <1>3, <1>4, <1>6, <1>7 DEF DevInv

(* ... and of a device that goes or comes back.                            *)
LEMMA DeviceMoves ==
    ASSUME DevInv, NEW d0 \in Devs, NEW nk \in KdevType, ~Busy(d0) => Clean(nk),
           kdev' = [kdev EXCEPT ![d0] = nk],
           Overlap(d0),
           UNCHANGED <<use_msi, ndevices, udev, call>>
    PROVE  DevInv'
  <1>1. /\ raced \subseteq raced' /\ (Busy(d0) => d0 \in raced')
        /\ \A d \in Devs : Busy(d)' <=> Busy(d)
    BY DEF Overlap, Busy
  <1>2. /\ kdev'[d0] = nk /\ \A d \in Devs : d # d0 => kdev'[d] = kdev[d]
        /\ \A b \in Callers : call[b].dev \in Devs
    BY DEF DevInv, DevType, CallType
  <1>3. DevType'
    BY DEF DevInv, DevType
  <1>4. OneCalls'
    BY <1>1 DEF DevInv, OneCalls
  <1>5. Lines' = Lines
    BY DEF Lines
  <1>6. CallsSound'
    <2> SUFFICES ASSUME NEW b \in Callers, call[b].dev \notin raced', call[b].pc # "idle"
                 PROVE  CallSound(call[b], kdev[call[b].dev])'
      BY DEF CallsSound, CallSound
    <2>1. call[b].dev # d0
      BY <1>1 DEF Busy
    <2>2. CallSound(call[b], kdev'[call[b].dev])
      BY <1>1, <1>2, <2>1 DEF DevInv, CallsSound
    <2> QED
      BY <1>5, <2>2 DEF CallSound, Clean, OnLines, OffLines, HasHandler, RemovedBare
  <1>7. OthersClean'
    <2> SUFFICES ASSUME NEW d \in Devs, d \notin raced', ~Busy(d)
                 PROVE  Clean(kdev[d])'
      BY <1>1 DEF OthersClean
    <2>1. Clean(kdev'[d])
      <3>1. CASE d = d0
        BY <1>2, <3>1
      <3>2. CASE d # d0
        BY <1>1, <1>2, <3>2 DEF DevInv, OthersClean
      <3> QED
        BY <3>1, <3>2
    <2> QED
      BY <1>5, <2>1 DEF Clean, OnLines, OffLines, HasHandler, RemovedBare
  <1> QED
    BY <1>3, <1>4, <1>6, <1>7 DEF DevInv

(* The instance of a device has nothing to do with its handlers.           *)
LEMMA InstancesMove ==
    ASSUME DevInv, NEW I \in [Devs -> SUBSET Devs],
           kdev' = [d \in Devs |-> [kdev[d] EXCEPT !.inst_id = I[d]]],
           udev' \in [Devs -> UdevType],
           ndevices' \in 1 .. LINUX_BDE_MAX_DEVICES,
           UNCHANGED <<use_msi, call, raced>>
    PROVE  DevInv'
  <1> DEFINE nk(d) == [kdev[d] EXCEPT !.inst_id = I[d]]
  <1>1. ASSUME NEW d \in Devs
        PROVE  /\ nk(d) \in KdevType
               /\ nk(d).state = kdev[d].state /\ nk(d).irqs = kdev[d].irqs
               /\ nk(d).isr = kdev[d].isr /\ nk(d).isr2 = kdev[d].isr2
               /\ nk(d).msi = kdev[d].msi
    <2>1. kdev[d] \in KdevType
      BY DEF DevInv, DevType
    <2> QED
      BY <2>1 DEF KdevType
  <1>2. \A d \in Devs : kdev'[d] = nk(d)
    OBVIOUS
  <1> HIDE DEF nk
  <1>3. \A d \in Devs :
            /\ kdev'[d] \in KdevType
            /\ kdev'[d].state = kdev[d].state /\ kdev'[d].irqs = kdev[d].irqs
            /\ kdev'[d].isr = kdev[d].isr /\ kdev'[d].isr2 = kdev[d].isr2
            /\ kdev'[d].msi = kdev[d].msi
    BY <1>1, <1>2
  <1>4. Lines' = Lines
    BY DEF Lines
  <1>5. \A d \in Devs : Clean(kdev[d]) => Clean(kdev[d])'
    BY <1>3, <1>4 DEF Clean, OnLines, OffLines, HasHandler, RemovedBare
  <1>6. \A c \in Callers : CallSound(call[c], kdev[call[c].dev])
                           => CallSound(call[c], kdev[call[c].dev])'
    <2> SUFFICES ASSUME NEW c \in Callers, CallSound(call[c], kdev[call[c].dev])
                 PROVE  CallSound(call[c], kdev[call[c].dev])'
      OBVIOUS
    <2>1. call[c].dev \in Devs /\ call' = call
      BY DEF DevInv, DevType, CallType
    <2> DEFINE k == kdev[call[c].dev]
               l == kdev'[call[c].dev]
    <2>2. /\ l.state = k.state /\ l.irqs = k.irqs /\ l.isr = k.isr
          /\ l.isr2 = k.isr2 /\ l.msi = k.msi
      BY <1>3, <2>1
    <2> HIDE DEF k, l
    <2>3. CallSound(call[c], l)
      BY <2>2 DEF CallSound, Clean, OnLines, OffLines, HasHandler, RemovedBare, k
    <2> QED
      BY <1>4, <2>1, <2>3
         DEF CallSound, Clean, OnLines, OffLines, HasHandler, RemovedBare, l
  <1>7. DevType'
    <2>1. kdev' = [d \in Devs |-> kdev'[d]]
      OBVIOUS
    <2>2. kdev' \in [Devs -> KdevType]
      BY <1>3, <2>1
    <2> QED
      BY <2>2 DEF DevInv, DevType
  <1>8. OneCalls' /\ CallsSound'
    BY <1>6 DEF DevInv, OneCalls, CallsSound
  <1>9. OthersClean'
    BY <1>5 DEF DevInv, OthersClean, Busy
  <1> QED
    BY <1>7, <1>8, <1>9 DEF DevInv

-----------------------------------------------------------------------------
(* A call sees every device that no other call is about clean.             *)
LEMMA BeginKeepsDev ==
    ASSUME DevInv, NEW c \in Callers, NEW op \in {"connect", "disconnect"},
           NEW d \in Devs, CallBegin(c, op, d)
    PROVE  DevInv'
  <1> DEFINE b == Active(d)
             nc == [pc |-> "write", op |-> op, dev |-> d, active |-> b]
  <1>1. /\ op = "connect" => kdev[d].state # "removed"
        /\ call[c].pc = "idle" /\ d \notin raced
        /\ raced \subseteq raced' /\ (Busy(d) => d \in raced')
    BY DEF CallBegin, Present, Overlap
  <1>2. kdev[d] \in KdevType /\ (~Busy(d) => Clean(kdev[d]))
    BY <1>1 DEF DevInv, DevType, OthersClean
  <1>3. Active(d) \in BOOLEAN /\ (Active(d) <=> HasHandler(kdev[d]))
    BY <1>2 DEF Active, HasHandler, KdevType
  <1>4. kdev[d].state \in {"normal", "removed"}
    BY <1>2 DEF KdevType
  <1>5. /\ nc \in CallType /\ nc.pc = "write" /\ nc.op = op /\ nc.dev = d
        /\ nc.active <=> HasHandler(kdev[d])
    <2>1. b \in BOOLEAN /\ (b <=> HasHandler(kdev[d]))
      BY <1>3
    <2> HIDE DEF b
    <2> QED
      BY <2>1 DEF CallType
  <1>6. call' = [call EXCEPT ![c] = nc] /\ UNCHANGED <<use_msi, ndevices, kdev, udev>>
    BY DEF CallBegin
  <1> HIDE DEF b, nc
  <1>7. ~Busy(d) => CallSound(nc, kdev[d])
    BY <1>1, <1>2, <1>4, <1>5 DEF CallSound
  <1>8. /\ call'[c] = nc /\ \A a \in Callers : a # c => call'[a] = call[a]
        /\ call' \in [Callers -> CallType]
    BY <1>5, <1>6 DEF DevInv, DevType
  <1>9. DevType'
    BY <1>6, <1>8 DEF DevInv, DevType
  <1>10. OneCalls'
    <2> SUFFICES ASSUME NEW a \in Callers, NEW e \in Callers, a # e,
                        call'[a].pc # "idle", call'[e].pc # "idle",
                        call'[a].dev = call'[e].dev, call'[a].dev \notin raced'
                 PROVE  FALSE
      BY DEF OneCalls
    <2>1. CASE a = c \/ e = c
      <3>1. PICK x \in Callers : x # c /\ call'[x].pc # "idle" /\ call'[x].dev = d
        BY <1>5, <1>8, <2>1
      <3>2. Busy(d)
        BY <1>8, <3>1 DEF Busy
      <3>3. call'[a].dev = d
        BY <1>5, <1>8, <2>1
      <3> QED
        BY <1>1, <3>2, <3>3
    <2>2. CASE a # c /\ e # c
      BY <1>1, <1>8, <2>2 DEF DevInv, OneCalls
    <2> QED
      BY <2>1, <2>2
  <1>11. Lines' = Lines
    BY <1>6 DEF Lines
  <1>12. CallsSound'
    <2> SUFFICES ASSUME NEW a \in Callers, call'[a].dev \notin raced'
                 PROVE  CallSound(call[a], kdev[call[a].dev])'
      BY DEF CallsSound
    <2>1. CallSound(call'[a], kdev[call'[a].dev])
      <3>1. CASE a = c
        BY <1>1, <1>5, <1>7, <1>8, <3>1
      <3>2. CASE a # c
        BY <1>1, <1>8, <3>2 DEF DevInv, CallsSound
      <3> QED
        BY <3>1, <3>2
    <2> QED
      BY <1>6, <1>11, <2>1 DEF CallSound, Clean, OnLines, OffLines, HasHandler, RemovedBare
  <1>13. OthersClean'
    <2> SUFFICES ASSUME NEW e \in Devs, e \notin raced', ~Busy(e)' PROVE Clean(kdev[e])'
      BY DEF OthersClean
    <2>1. ~Busy(e)
      BY <1>1, <1>8 DEF Busy
    <2>2. Clean(kdev[e])
      BY <1>1, <2>1 DEF DevInv, OthersClean
    <2> QED
      BY <1>6, <1>11, <2>2 DEF Clean, OnLines, OffLines, HasHandler, RemovedBare
  <1> QED
    BY <1>9, <1>10, <1>12, <1>13 DEF DevInv

LEMMA CallTyped ==
    ASSUME DevInv, NEW c \in Callers
    PROVE  /\ call[c] \in CallType /\ NoCall \in CallType /\ NoCall.pc = "idle"
           /\ call[c].dev \in Devs /\ kdev[call[c].dev] \in KdevType
           /\ Return(c) => /\ call' = [call EXCEPT ![c] = NoCall]
                           /\ udev' \in [Devs -> UdevType]
  <1>1. call[c] \in CallType /\ call[c].dev \in Devs /\ kdev[call[c].dev] \in KdevType
    BY DEF DevInv, DevType, CallType
  <1>2. NoCall \in CallType /\ NoCall.pc = "idle"
    BY ConstantFacts DEF NoCall, CallType
  <1>3. ASSUME Return(c) PROVE udev' \in [Devs -> UdevType]
    <2> DEFINE b == call[c].op = "connect"
               d == call[c].dev
               n == [udev[d] EXCEPT !.enabled = b]
    <2>1. b \in BOOLEAN /\ udev[d] \in UdevType /\ d \in Devs /\ udev \in [Devs -> UdevType]
      BY <1>1 DEF DevInv, DevType
    <2>2. udev' = udev \/ udev' = [udev EXCEPT ![d].enabled = b]
      BY <1>3 DEF Return
    <2> HIDE DEF b
    <2>3. n \in UdevType
      BY <2>1 DEF UdevType
    <2>4. udev' = udev \/ udev' = [udev EXCEPT ![d] = n]
      BY <2>1, <2>2
    <2> HIDE DEF n, d
    <2> QED
      BY <2>1, <2>3, <2>4
  <1>4. Return(c) => call' = [call EXCEPT ![c] = NoCall]
    BY DEF Return
  <1> QED
    BY <1>1, <1>2, <1>3, <1>4

(* The handler is written: nothing changes for the lines.                  *)
LEMMA WriteKeepsDev ==
    ASSUME DevInv, NEW c \in Callers, CallWrite(c)
    PROVE  DevInv'
  <1> DEFINE d == call[c].dev
             cl == call[c]
             on == cl.op = "connect"
             nk == IF c = "user" THEN [kdev[d] EXCEPT !.isr = on]
                   ELSE [kdev[d] EXCEPT !.isr2 = on]
             nf == [cl EXCEPT !.pc = "finish"]
  <1>1. cl \in CallType /\ d \in Devs /\ kdev[d] \in KdevType /\ cl.pc = "write"
    BY CallTyped DEF CallWrite
  <1>2. d \notin raced => CallSound(cl, kdev[d])
    BY DEF DevInv, CallsSound
  <1>3. on \in BOOLEAN /\ (on <=> cl.op = "connect")
    OBVIOUS
  <1>4. UNCHANGED <<use_msi, ndevices, raced>>
    BY DEF CallWrite
  <1>5. kdev' = [kdev EXCEPT ![d] = nk]
    <2>1. kdev' = IF c = "user" THEN [kdev EXCEPT ![d].isr = on]
                                ELSE [kdev EXCEPT ![d].isr2 = on]
      BY DEF CallWrite, SetHandler
    <2> HIDE DEF on
    <2> QED
      BY <2>1 DEF DevInv, DevType
  <1>6. /\ nk \in KdevType /\ nk.state = kdev[d].state
        /\ nk.irqs = kdev[d].irqs /\ nk.msi = kdev[d].msi
        /\ HasHandler(nk) => on \/ HasHandler(kdev[d])
        /\ on => HasHandler(nk)
    <2> DEFINE k == kdev[d]
    <2>1. k \in KdevType
      BY <1>1
    <2> HIDE DEF on, k
    <2>2. CASE c = "user"
      BY <1>3, <2>1, <2>2 DEF KdevType, HasHandler, k
    <2>3. CASE c # "user"
      BY <1>3, <2>1, <2>3 DEF KdevType, HasHandler, k
    <2> QED
      BY <2>2, <2>3
  <1>7. /\ cl.op = "connect" /\ cl.active => Return(c)
        /\ ~(cl.op = "connect" /\ cl.active) =>
               call' = [call EXCEPT ![c].pc = "finish"] /\ UNCHANGED udev
    BY DEF CallWrite
  <1>8. /\ nf \in CallType /\ nf.pc = "finish" /\ nf.op = cl.op /\ nf.dev = cl.dev
        /\ nf.active = cl.active
    BY <1>1 DEF CallType
  <1>9. CASE cl.op = "connect" /\ cl.active
    <2>1. d \notin raced => Clean(nk)
      BY <1>1, <1>2, <1>6, <1>9 DEF CallSound, Clean, OnLines, RemovedBare
    <2>2. /\ call' = [call EXCEPT ![c] = NoCall] /\ udev' \in [Devs -> UdevType]
          /\ NoCall \in CallType /\ NoCall.pc = "idle"
      BY <1>7, <1>9, CallTyped
    <2>3. call[c].pc # "idle"
      BY <1>1
    <2> HIDE DEF nk
    <2> QED
      BY <1>4, <1>5, <1>6, <2>1, <2>2, <2>3, CallMoves
  <1>10. CASE ~(cl.op = "connect" /\ cl.active)
    <2>1. call' = [call EXCEPT ![c] = nf] /\ udev' \in [Devs -> UdevType]
      BY <1>7, <1>10 DEF DevInv, DevType
    <2>2. d \notin raced => CallSound(nf, nk)
      <3> SUFFICES ASSUME d \notin raced PROVE CallSound(nf, nk)
        OBVIOUS
      <3> HIDE DEF nf, nk
      <3> USE DEF CallSound, Clean, OnLines, OffLines, RemovedBare
      <3>1. CASE cl.op = "connect"
        BY <1>1, <1>2, <1>6, <1>8, <1>10, <3>1
      <3>2. CASE cl.op = "disconnect"
        BY <1>1, <1>2, <1>6, <1>8, <3>2
      <3> QED
        BY <1>1, <3>1, <3>2 DEF CallType
    <2>3. call[c].pc # "idle" /\ nf.pc # "idle"
      BY <1>1, <1>8
    <2> HIDE DEF nk, nf
    <2> QED
      BY <1>4, <1>5, <1>6, <1>8, <2>1, <2>2, <2>3, CallMoves
  <1> QED
    BY <1>9, <1>10

LEMMA UnhookedIs ==
    ASSUME NEW k \in KdevType, NEW irqs \in [Vectors -> Nat]
    PROVE  /\ Unhooked(k, irqs) \in KdevType /\ ~HasHandler(Unhooked(k, irqs))
           /\ Unhooked(k, irqs).irqs = irqs /\ ~Unhooked(k, irqs).msi
  <1> DEFINE n == NoHandlers(k)
             u == [n EXCEPT !.msi = FALSE, !.irqs = irqs]
  <1>1. n \in KdevType /\ ~n.isr /\ ~n.isr2
    BY DEF NoHandlers, KdevType
  <1>2. Unhooked(k, irqs) = u
    BY DEF Unhooked
  <1> HIDE DEF n
  <1>3. u \in KdevType /\ ~HasHandler(u) /\ u.irqs = irqs /\ ~u.msi
    BY <1>1 DEF KdevType, HasHandler
  <1> QED
    BY <1>2, <1>3

(* A connect that goes on: the main handler was not installed.             *)
LEMMA ConnectKeepsDev ==
    ASSUME DevInv, NEW c \in Callers, ConnectFinish(c)
    PROVE  DevInv'
  <1> DEFINE d == call[c].dev
             k == kdev[d]
             m == use_msi # "INTX"
             on == [k EXCEPT !.irqs = Added(@, Lines), !.msi = m]
             bare == NoHandlers(k)
             q(v) == Freed(k.irqs, IF use_msi = "MSIX" THEN {v} ELSE {})
  <1>1. /\ k \in KdevType /\ d \in Devs /\ call[c].pc # "idle" /\ kdev \in [Devs -> KdevType]
        /\ call' = [call EXCEPT ![c] = NoCall] /\ udev' \in [Devs -> UdevType]
        /\ NoCall \in CallType /\ NoCall.pc = "idle"
        /\ UNCHANGED <<use_msi, ndevices, raced>>
    BY CallTyped DEF ConnectFinish, DevInv, DevType
  <1>2. d \notin raced => OffLines(k) /\ HasHandler(k) /\ k.state = "normal"
    <2>1. /\ d \notin raced => CallSound(call[c], k)
          /\ call[c].pc = "finish" /\ call[c].op = "connect"
      BY DEF DevInv, CallsSound, ConnectFinish
    <2> QED
      BY <2>1 DEF CallSound
  <1>3. Lines \subseteq Vectors /\ k.irqs \in [Vectors -> Nat]
    BY <1>1, DeviceAssumption DEF Lines, KdevType
  <1>4. ASSUME NEW nk \in KdevType, d \notin raced => Clean(nk), kdev' = [kdev EXCEPT ![d] = nk] PROVE DevInv'
    BY <1>1, <1>4, CallMoves
  <1>5. CASE Connected(d)
    <2>1. kdev' = [kdev EXCEPT ![d] = on]
      <3> HIDE DEF m
      <3>1. kdev' = [kdev EXCEPT ![d].irqs = Added(@, Lines), ![d].msi = m]
        BY <1>5 DEF Connected, m
      <3> QED
        BY <1>1, <3>1
    <2>2. /\ Added(k.irqs, Lines) \in [Vectors -> Nat]
          /\ d \notin raced => \A v \in Lines : Added(k.irqs, Lines)[v] = 1
      BY <1>2, <1>3 DEF Added, OffLines
    <2>3. m \in BOOLEAN /\ (m <=> use_msi # "INTX")
      OBVIOUS
    <2>4. k \in KdevType
      BY <1>1
    <2>5. /\ on \in KdevType /\ on.irqs = Added(k.irqs, Lines) /\ on.msi = m
          /\ on.state = k.state /\ on.isr = k.isr /\ on.isr2 = k.isr2
      <3> HIDE DEF m, k
      <3> QED
        BY <2>2, <2>3, <2>4 DEF KdevType
    <2> HIDE DEF on, m
    <2>7. d \notin raced => Clean(on)
      BY <1>2, <2>2, <2>3, <2>5 DEF Clean, OnLines, HasHandler, RemovedBare
    <2> QED
      BY <1>4, <2>1, <2>5, <2>7
  <1>6. CASE NoMsi(d)
    <2>1. kdev' = [kdev EXCEPT ![d] = bare]
      BY <1>1, <1>6 DEF NoMsi
    <2>2. /\ bare \in KdevType /\ ~HasHandler(bare)
          /\ bare.irqs = k.irqs /\ bare.msi = k.msi
      BY <1>1 DEF NoHandlers, KdevType, HasHandler
    <2> HIDE DEF bare
    <2>3. d \notin raced => Clean(bare)
      BY <1>2, <2>2 DEF Clean, OffLines, RemovedBare
    <2> QED
      BY <1>4, <2>1, <2>2, <2>3
  <1>7. CASE Refused(d)
    <2>1. PICK v \in Lines : kdev' = [kdev EXCEPT ![d] = Unhooked(k, q(v))]
      BY <1>1, <1>7 DEF Refused
    <2>2. q(v) \in [Vectors -> Nat] /\ (d \notin raced => \A w \in Lines : q(v)[w] = 0)
      BY <1>2, <1>3 DEF Freed, OffLines
    <2> DEFINE g == Unhooked(k, q(v))
    <2> HIDE DEF q
    <2>3. g \in KdevType /\ ~HasHandler(g) /\ g.irqs = q(v) /\ ~g.msi
      BY <1>1, <2>2, UnhookedIs
    <2>4. d \notin raced => Clean(g)
      BY <2>2, <2>3 DEF Clean, OffLines, RemovedBare
    <2> QED
      BY <1>4, <2>1, <2>3, <2>4
  <1> QED
    BY <1>5, <1>6, <1>7 DEF ConnectFinish

LEMMA DisconnectKeepsDev ==
    ASSUME DevInv, NEW c \in Callers, DisconnectFinish(c)
    PROVE  DevInv'
  <1> DEFINE d == call[c].dev
             k == kdev[d]
             off == [k EXCEPT !.irqs = Freed(@, Lines), !.msi = FALSE]
  <1>1. /\ k \in KdevType /\ d \in Devs /\ call[c].pc # "idle" /\ kdev \in [Devs -> KdevType]
        /\ call' = [call EXCEPT ![c] = NoCall] /\ udev' \in [Devs -> UdevType]
        /\ NoCall \in CallType /\ NoCall.pc = "idle"
        /\ UNCHANGED <<use_msi, ndevices, raced>>
    BY CallTyped DEF DisconnectFinish, DevInv, DevType
  <1>2. d \notin raced => /\ call[c].active => OnLines(k)
                          /\ ~call[c].active => OffLines(k) /\ ~HasHandler(k)
                          /\ RemovedBare(k)
    <2>1. /\ d \notin raced => CallSound(call[c], k)
          /\ call[c].pc = "finish" /\ call[c].op = "disconnect"
      BY DEF DevInv, CallsSound, DisconnectFinish
    <2> QED
      BY <2>1 DEF CallSound
  <1>3. Lines \subseteq Vectors /\ k.irqs \in [Vectors -> Nat]
    BY <1>1, DeviceAssumption DEF Lines, KdevType
  <1>4. ASSUME NEW nk \in KdevType, d \notin raced => Clean(nk), kdev' = [kdev EXCEPT ![d] = nk] PROVE DevInv'
    BY <1>1, <1>4, CallMoves
  <1>5. Active(d) <=> HasHandler(k)
    BY DEF Active, HasHandler
  <1>6. CASE Active(d) \/ ~call[c].active
    <2>1. d \notin raced => Clean(k)
      BY <1>2, <1>5, <1>6 DEF Clean
    <2>2. kdev' = [kdev EXCEPT ![d] = k]
      BY <1>1, <1>6 DEF DisconnectFinish
    <2> QED
      BY <1>1, <1>4, <2>1, <2>2
  <1>7. CASE ~(Active(d) \/ ~call[c].active)
    <2>1. kdev' = [kdev EXCEPT ![d] = off]
      <3>1. kdev' = [kdev EXCEPT ![d].irqs = Freed(@, Lines), ![d].msi = FALSE]
        BY <1>7 DEF DisconnectFinish
      <3> QED
        BY <1>1, <3>1
    <2>2. /\ Freed(k.irqs, Lines) \in [Vectors -> Nat]
          /\ d \notin raced => \A v \in Lines : Freed(k.irqs, Lines)[v] = 0
      BY <1>2, <1>3, <1>7 DEF Freed, OnLines
    <2>3. /\ off \in KdevType /\ off.irqs = Freed(k.irqs, Lines) /\ ~off.msi
          /\ off.state = k.state /\ off.isr = k.isr /\ off.isr2 = k.isr2
      BY <1>1, <2>2 DEF KdevType
    <2> HIDE DEF off
    <2>4. d \notin raced => Clean(off)
      BY <1>2, <1>5, <1>7, <2>2, <2>3 DEF Clean, OffLines, HasHandler, RemovedBare
    <2> QED
      BY <1>4, <2>1, <2>3, <2>4
  <1> QED
    BY <1>6, <1>7

-----------------------------------------------------------------------------
LEMMA ProbeKeepsDev ==
    ASSUME DevInv, NEW d \in Devs, _pci_probe(d)
    PROVE  DevInv'
  <1> DEFINE k == kdev[d]
             nk == [k EXCEPT !.state = "normal", !.isr = FALSE]
  <1>1. /\ k.state = "removed" /\ d \notin raced /\ Overlap(d)
        /\ UNCHANGED <<use_msi, ndevices, udev, call>>
    BY DEF _pci_probe
  <1>2. k \in KdevType /\ (~Busy(d) => Clean(k)) /\ kdev \in [Devs -> KdevType]
    BY <1>1 DEF DevInv, DevType, OthersClean
  <1>3. kdev' = [kdev EXCEPT ![d] = nk]
    BY <1>2 DEF _pci_probe
  <1>4. /\ nk \in KdevType /\ nk.irqs = k.irqs /\ nk.msi = k.msi /\ nk.state = "normal"
        /\ ~nk.isr /\ nk.isr2 = k.isr2
    BY <1>2 DEF KdevType
  <1> HIDE DEF nk
  <1>5. ~Busy(d) => Clean(nk)
    BY <1>1, <1>2, <1>4 DEF Clean, HasHandler, OnLines, OffLines, RemovedBare
  <1> QED
    BY <1>1, <1>2, <1>3, <1>4, <1>5, DeviceMoves

LEMMA RemoveKeepsDev ==
    ASSUME DevInv, NEW d \in Devs, _pci_remove(d)
    PROVE  DevInv'
  <1> DEFINE k == kdev[d]
             q == Freed(k.irqs, IF Active(d) THEN Lines ELSE {})
             u == Unhooked(k, q)
             nk == [u EXCEPT !.state = "removed"]
  <1>1. d \notin raced /\ Overlap(d) /\ UNCHANGED <<use_msi, ndevices, udev, call>>
    BY DEF _pci_remove
  <1>2. k \in KdevType /\ (~Busy(d) => Clean(k)) /\ kdev \in [Devs -> KdevType]
    BY <1>1 DEF DevInv, DevType, OthersClean
  <1>3. kdev' = [kdev EXCEPT ![d] = nk]
    BY <1>2 DEF _pci_remove
  <1>4. Lines \subseteq Vectors /\ k.irqs \in [Vectors -> Nat]
    BY <1>2, DeviceAssumption DEF Lines, KdevType
  <1>5. q \in [Vectors -> Nat] /\ (~Busy(d) => \A v \in Lines : q[v] = 0)
    <2>1. CASE Active(d)
      BY <1>2, <1>4, <2>1 DEF Active, Freed, Clean, HasHandler, OnLines
    <2>2. CASE ~Active(d)
      BY <1>2, <1>4, <2>2 DEF Active, Freed, Clean, HasHandler, OffLines
    <2> QED
      BY <2>1, <2>2
  <1> HIDE DEF q
  <1>6. u \in KdevType /\ ~HasHandler(u) /\ u.irqs = q /\ ~u.msi
    BY <1>2, <1>5, UnhookedIs
  <1> HIDE DEF u
  <1>7. nk \in KdevType /\ nk.irqs = q /\ ~nk.msi /\ ~HasHandler(nk)
    BY <1>6 DEF KdevType, HasHandler
  <1> HIDE DEF nk
  <1>8. ~Busy(d) => Clean(nk)
    BY <1>5, <1>7 DEF Clean, OffLines, RemovedBare
  <1> QED
    BY <1>1, <1>2, <1>3, <1>7, <1>8, DeviceMoves

(* Nothing happens to the handlers.                                        *)
LEMMA HandlersStay ==
    ASSUME DevInv, UNCHANGED <<use_msi, kdev, call, raced>>,
           ndevices' \in 1 .. LINUX_BDE_MAX_DEVICES, udev' \in [Devs -> UdevType]
    PROVE  DevInv'
  <1> DEFINE I == [d \in Devs |-> kdev[d].inst_id]
  <1>1. \A d \in Devs : kdev[d] \in KdevType
    BY DEF DevInv, DevType
  <1>2. I \in [Devs -> SUBSET Devs]
    BY <1>1 DEF KdevType
  <1>3. kdev' = [d \in Devs |-> [kdev[d] EXCEPT !.inst_id = I[d]]]
    <2>1. \A d \in Devs : kdev[d] = [kdev[d] EXCEPT !.inst_id = kdev[d].inst_id]
      BY <1>1 DEF KdevType
    <2>2. kdev = [d \in Devs |-> kdev[d]]
      BY DEF DevInv, DevType
    <2> QED
      BY <2>1, <2>2
  <1> HIDE DEF I
  <1> QED
    BY <1>2, <1>3, InstancesMove

LEMMA SwitchKeepsDev ==
    ASSUME DevInv, NewSwitch
    PROVE  DevInv'
  <1>1. ndevices' \in 1 .. LINUX_BDE_MAX_DEVICES
    BY ConstantFacts DEF NewSwitch, DevInv, DevType
  <1>2. UNCHANGED <<use_msi, kdev, call, raced>> /\ udev' \in [Devs -> UdevType]
    BY DEF NewSwitch, DevInv, DevType
  <1> QED
    BY <1>1, <1>2, HandlersStay

LEMMA DevicesKeepDev ==
    ASSUME DevInv, DevicesNext
    PROVE  DevInv'
  <1>1. ASSUME NEW c \in Callers, NEW op \in {"connect", "disconnect"}, NEW d \in Devs,
               CallBegin(c, op, d)
        PROVE  DevInv'
    BY <1>1, BeginKeepsDev
  <1>2. ASSUME NEW c \in Callers, CallWrite(c) \/ ConnectFinish(c) \/ DisconnectFinish(c)
        PROVE  DevInv'
    BY <1>2, WriteKeepsDev, ConnectKeepsDev, DisconnectKeepsDev
  <1>3. CASE NewSwitch
    BY <1>3, SwitchKeepsDev
  <1>4. ASSUME NEW d \in Devs, _pci_probe(d) \/ _pci_remove(d) PROVE DevInv'
    BY <1>4, ProbeKeepsDev, RemoveKeepsDev
  <1> QED
    BY <1>1, <1>2, <1>3, <1>4 DEF DevicesNext


-----------------------------------------------------------------------------
LEMMA ReprobedType ==
    ASSUME DevInv
    PROVE  /\ Reprobed \in [Devs -> UdevType]
           /\ \A d \in Devs : /\ udev[d].devid => Reprobed[d] = udev[d]
                              /\ Present(d) => Reprobed[d].devid
  <1>1. _devices_init \in UdevType /\ _devices_init.devid
    BY ConstantFacts DEF _devices_init, UdevType
  <1>2. udev \in [Devs -> UdevType]
    BY DEF DevInv, DevType
  <1>3. \A d \in Devs : Present(d) => d \in {e \in Probed : Present(e)}
    BY DEF Present
  <1> QED
    BY <1>1, <1>2, <1>3 DEF Reprobed, _device_reprobe

LEMMA FillKeepsDev ==
    ASSUME DevInv, TypeOK, NEW inst \in Instances, AttachFill(inst)
    PROVE  DevInv'
  <1> DEFINE I == [d \in Devs |-> IF d \in inst \cap Probed /\ kdev[d].inst_id = {}
                                  THEN inst ELSE kdev[d].inst_id]
  <1>1. \A d \in Devs : kdev[d] \in KdevType /\ udev[d] \in UdevType
    BY DEF DevInv, DevType
  <1>2. I \in [Devs -> SUBSET Devs]
    BY <1>1, ConstantFacts DEF KdevType
  <1>3. kdev' = [d \in Devs |-> [kdev[d] EXCEPT !.inst_id = I[d]]]
    <2>1. \A d \in Devs : kdev[d] = [kdev[d] EXCEPT !.inst_id = kdev[d].inst_id]
      BY <1>1 DEF KdevType
    <2> QED
      BY <2>1 DEF AttachFill, FillSlot
  <1>4. udev' \in [Devs -> UdevType]
    <2>1. app[inst].inst_idx \in Devs \cup {-1}
      BY DEF TypeOK, AppType
    <2>2. \A d \in Devs : [udev[d] EXCEPT !.inst = app[inst].inst_idx] \in UdevType
      BY <1>1, <2>1 DEF UdevType
    <2> QED
      BY <1>1, <2>2 DEF AttachFill
  <1>5. UNCHANGED <<use_msi, call, raced>> /\ ndevices' \in 1 .. LINUX_BDE_MAX_DEVICES
    BY DEF AttachFill, FillSlot, DevInv, DevType
  <1> HIDE DEF I
  <1> QED
    BY <1>2, <1>3, <1>4, <1>5, InstancesMove

LEMMA StepKeepsDev == DevInv /\ TypeOK /\ [Next]_vars => DevInv'
  <1> SUFFICES ASSUME DevInv, TypeOK, [Next]_vars PROVE DevInv'
    OBVIOUS
  <1>1. CASE DevicesNext
    BY <1>1, DevicesKeepDev
  <1>2. ASSUME NEW inst \in Instances, AttachFill(inst) PROVE DevInv'
    BY <1>2, FillKeepsDev
  <1>3. CASE UNCHANGED <<use_msi, ndevices, kdev, call, raced>> /\ udev' \in {udev, Reprobed}
    <2>1. ndevices' \in 1 .. LINUX_BDE_MAX_DEVICES /\ udev' \in [Devs -> UdevType]
      BY <1>3, ReprobedType DEF DevInv, DevType
    <2> QED
      BY <1>3, <2>1, HandlersStay
  <1>4. ASSUME NEW inst \in Instances,
               \/ AttachBegin(inst) \/ AttachAlloc(inst) \/ AttachTake(inst)
               \/ AttachPick(inst) \/ GetDmaInfo(inst) \/ AppExit(inst)
        PROVE  DevInv'
    BY <1>3, <1>4 DEF AttachBegin, AttachAlloc, AttachTake, AttachPick, GetDmaInfo, AppExit,
       devices
  <1>5. CASE Reprobe \/ UNCHANGED vars
    BY <1>3, <1>5 DEF Reprobe, vars, devices
  <1> QED
    BY <1>1, <1>2, <1>4, <1>5 DEF Next

(* A device no call is about has its main handler exactly once on each of  *)
(* its lines, with MSI switched on, while one of the handlers is connected,*)
(* and not at all otherwise, unless two calls about this very device have  *)
(* overlapped or it was unplugged or came back in one: for any number of   *)
(* devices and vectors, whichever vector is refused, whatever the calls    *)
(* about other devices do meanwhile, whatever is plugged in, unplugged and *)
(* attached (_interrupt_connect, _interrupt_disconnect, _pci_remove).      *)
THEOREM BdeHandlerInstalled == Spec => []HandlerInstalled
  <1>1. DevInv => HandlerInstalled
    <2> SUFFICES ASSUME DevInv, NEW d \in Devs \ raced, ~Busy(d)
                 PROVE  /\ \A v \in Lines : kdev[d].irqs[v] = (IF Active(d) THEN 1 ELSE 0)
                        /\ kdev[d].msi = (Active(d) /\ use_msi # "INTX")
      BY DEF HandlerInstalled
    <2>1. Clean(kdev[d])
      BY DEF DevInv, OthersClean
    <2>2. kdev[d].msi \in BOOLEAN
      BY DEF DevInv, DevType, KdevType
    <2>3. HasHandler(kdev[d]) <=> Active(d)
      BY DEF HasHandler, Active
    <2>4. \A v \in Lines : kdev[d].irqs[v] = (IF Active(d) THEN 1 ELSE 0)
      BY <2>1, <2>3 DEF Clean, OnLines, OffLines
    <2>5. kdev[d].msi <=> (Active(d) /\ use_msi # "INTX")
      BY <2>1, <2>3 DEF Clean, OnLines, OffLines
    <2> QED
      BY <2>2, <2>4, <2>5
  <1> QED
    BY <1>1, InitDevInv, InitType, StepKeepsDev, TypeStays, PTL DEF Spec

(* The slots and the devices once an instance is attached.                 *)
SlotServed(k) ==
    /\ slot[k].inst_id \in Instances /\ slot[k].inst_id \subseteq Probed
    /\ slot[k].dma_size = DmaSize[slot[k].inst_id]
    /\ \A d \in slot[k].inst_id : /\ udev[d].devid /\ udev[d].inst = k
                                  /\ kdev[d].inst_id = slot[k].inst_id

SlotsServed == multi_inst => \A k \in Devs : Filled(k) => k \in Probed /\ SlotServed(k)

AttachingNew ==
    \A i \in Instances : Attaching(i) =>
        /\ i \subseteq Probed /\ \A d \in i : udev[d].devid
        /\ multi_inst => \A k \in Devs : slot[k].inst_id # i

AttachedHasSlot ==
    \A i \in Instances : app[i].pc \in {"attached", "running"} =>
        multi_inst /\ \E k \in Devs : slot[k].inst_id = i

OwnerHasSlot ==
    \A d \in Devs : kdev[d].inst_id # {} =>
        multi_inst /\ d \in kdev[d].inst_id /\ \E k \in Devs : slot[k].inst_id = kdev[d].inst_id

(* Who is about to fill a slot is alone, and the slot is still free. *)
OneFills ==
    \A i, j \in Instances : app[i].pc = "filling" /\ app[j].pc = "filling" => i = j
PickedFree ==
    \A i \in Instances : app[i].pc = "filling" =>
        /\ app[i].inst_idx \in Probed
        /\ multi_inst => ~Filled(app[i].inst_idx)

ServedInv == /\ SlotsServed /\ AttachingNew /\ AttachedHasSlot /\ OwnerHasSlot
             /\ OneFills /\ PickedFree

-----------------------------------------------------------------------------
BInv == AInv /\ DevInv /\ DevicesApart

LEMMA Handy ==
    ASSUME BInv
    PROVE  /\ Probed \subseteq Devs /\ Devs \subseteq Nat /\ -1 \notin Devs
           /\ \A k \in Devs : slot[k].inst_id \subseteq Devs
           /\ \A i, j \in Instances : i # j => i \cap j = {}
           /\ \A i \in Instances : i # {} /\ i \subseteq Devs
  <1>1. Probed \subseteq Devs /\ Devs \subseteq Nat /\ -1 \notin Devs
    BY ConstantFacts DEF Probed, Devs, BInv, AInv, TypeOK
  <1>2. \A k \in Devs : slot[k].inst_id \subseteq Devs
    BY DEF BInv, AInv, TypeOK, SlotType
  <1>3. \A i, j \in Instances : i # j => i \cap j = {}
    BY DEF BInv, DevicesApart
  <1> QED
    BY <1>1, <1>2, <1>3, ConstantFacts

LEMMA InitServed == Init => ServedInv
  <1> SUFFICES ASSUME Init PROVE ServedInv
    OBVIOUS
  <1>1. ~multi_inst /\ (\A i \in Instances : app[i].pc = "idle")
        /\ \A d \in Devs : kdev[d].inst_id = {}
    BY DEF Init, DevicesInit, AppIdle, NewDev
  <1> QED
    BY <1>1 DEF ServedInv, SlotsServed, AttachingNew, AttachedHasSlot, OwnerHasSlot, Attaching,
       OneFills, PickedFree

(* What the devices keep: who owns them and where they are served.         *)
OwnersKept ==
    /\ Probed \subseteq Probed'
    /\ \A d \in Devs : /\ kdev'[d].inst_id = kdev[d].inst_id
                       /\ udev[d].devid => udev'[d].devid /\ udev'[d].inst = udev[d].inst

LEMMA OwnersKeepServed ==
    ASSUME BInv, ServedInv, OwnersKept, UNCHANGED <<slot, multi_inst>>,
           \A i \in Instances : Attaching(i)' =>
               \/ Attaching(i)
               \/ /\ i \subseteq Probed' /\ \A d \in i : udev'[d].devid
                  /\ multi_inst => \A k \in Devs : slot[k].inst_id # i,
           \A i \in Instances : app'[i].pc \in {"attached", "running"} =>
               \/ app[i].pc \in {"attached", "running"}
               \/ multi_inst /\ \E k \in Devs : slot[k].inst_id = i,
           \A i \in Instances : app'[i].pc = "filling" => app'[i] = app[i]
    PROVE  ServedInv'
  <1> USE Handy
  <1>1. \A k \in Devs : slot[k].inst_id \in Instances /\ SlotServed(k) => SlotServed(k)'
    <2> SUFFICES ASSUME NEW k \in Devs, SlotServed(k) PROVE SlotServed(k)'
      OBVIOUS
    <2>1. slot[k].inst_id \subseteq Devs
      OBVIOUS
    <2>2. \A d \in slot[k].inst_id : /\ udev'[d].devid /\ udev'[d].inst = k
                                     /\ kdev'[d].inst_id = slot[k].inst_id
      BY <2>1 DEF SlotServed, OwnersKept
    <2> QED
      BY <2>2 DEF SlotServed, OwnersKept
  <1>2. SlotsServed'
    BY <1>1 DEF ServedInv, SlotsServed, SlotServed, Filled, OwnersKept
  <1>3. AttachingNew'
    <2> SUFFICES ASSUME NEW i \in Instances, Attaching(i)'
                 PROVE  /\ i \subseteq Probed' /\ \A d \in i : udev'[d].devid
                        /\ multi_inst => \A k \in Devs : slot[k].inst_id # i
      BY DEF AttachingNew
    <2>1. CASE Attaching(i)
      BY <2>1 DEF ServedInv, AttachingNew, OwnersKept
    <2>2. CASE ~Attaching(i)
      BY <2>2
    <2> QED
      BY <2>1, <2>2
  <1>4. AttachedHasSlot'
    BY DEF ServedInv, AttachedHasSlot
  <1>5. OwnerHasSlot'
    BY DEF ServedInv, OwnerHasSlot, OwnersKept
  <1>6. OneFills'
    BY DEF ServedInv, OneFills
  <1>7. PickedFree'
    <2> SUFFICES ASSUME NEW i \in Instances, app'[i].pc = "filling"
                 PROVE  /\ app'[i].inst_idx \in Probed'
                        /\ multi_inst => slot[app'[i].inst_idx].inst_id = {}
      BY DEF PickedFree, Filled
    <2>1. app'[i] = app[i]
      OBVIOUS
    <2>2. /\ app[i].inst_idx \in Probed
          /\ multi_inst => slot[app[i].inst_idx].inst_id = {}
      BY <2>1 DEF ServedInv, PickedFree, Filled
    <2> QED
      BY <2>1, <2>2 DEF OwnersKept
  <1> QED
    BY <1>2, <1>3, <1>4, <1>5, <1>6, <1>7 DEF ServedInv

-----------------------------------------------------------------------------
(* Neither calls nor hot-plugging change who owns a device.                *)
LEMMA DevicesKeepOwners ==
    ASSUME DevInv, DevicesNext
    PROVE  OwnersKept
  <1> DEFINE Same(d) == /\ kdev'[d].inst_id = kdev[d].inst_id
                        /\ udev'[d].devid = udev[d].devid /\ udev'[d].inst = udev[d].inst
  <1>1. ndevices \in Nat /\ kdev \in [Devs -> KdevType] /\ udev \in [Devs -> UdevType]
    BY ConstantFacts DEF DevInv, DevType
  <1>2. ASSUME NEW c \in Callers, Return(c), NEW d \in Devs
        PROVE  udev'[d].devid = udev[d].devid /\ udev'[d].inst = udev[d].inst
    <2> DEFINE b == call[c].op = "connect"
    <2>1. udev' = udev \/ udev' = [udev EXCEPT ![call[c].dev].enabled = b]
      BY <1>2 DEF Return
    <2> HIDE DEF b
    <2>2. udev[d] \in UdevType /\ udev \in [Devs -> UdevType]
      BY <1>1
    <2> QED
      BY <2>1, <2>2 DEF UdevType
  <1>3. ASSUME NEW d \in Devs
        PROVE  /\ kdev[d] \in KdevType
               /\ NoHandlers(kdev[d]).inst_id = kdev[d].inst_id
               /\ \A q \in [Vectors -> Nat] : Unhooked(kdev[d], q).inst_id = kdev[d].inst_id
    BY <1>1 DEF KdevType, NoHandlers, Unhooked
  <1>4. ASSUME NEW c \in Callers, CallWrite(c), NEW d \in Devs PROVE Same(d)
    <2> DEFINE on == call[c].op = "connect"
    <2>1. \/ kdev' = [kdev EXCEPT ![call[c].dev].isr = on]
          \/ kdev' = [kdev EXCEPT ![call[c].dev].isr2 = on]
      BY <1>4 DEF CallWrite, SetHandler
    <2> HIDE DEF on
    <2> DEFINE e == call[c].dev
               n1 == [kdev[e] EXCEPT !.isr = on]
               n2 == [kdev[e] EXCEPT !.isr2 = on]
    <2>4. e \in Devs
      BY <1>1 DEF DevInv, DevType, CallType
    <2>5. kdev[e] \in KdevType
      BY <1>1, <2>4
    <2>6. n1.inst_id = kdev[e].inst_id /\ n2.inst_id = kdev[e].inst_id
      BY <2>5 DEF KdevType
    <2>7. kdev' = [kdev EXCEPT ![e] = n1] \/ kdev' = [kdev EXCEPT ![e] = n2]
      BY <1>1, <2>1, <2>4
    <2> HIDE DEF e, n1, n2
    <2>2. kdev'[d].inst_id = kdev[d].inst_id
      BY <1>1, <2>4, <2>6, <2>7
    <2>3. Return(c) \/ UNCHANGED udev
      BY <1>4 DEF CallWrite
    <2> QED
      BY <1>2, <2>2, <2>3
  <1>5. ASSUME NEW c \in Callers, ConnectFinish(c), NEW d \in Devs PROVE Same(d)
    <2> DEFINE e == call[c].dev
               m == use_msi # "INTX"
    <2>1. Return(c) /\ (Connected(e) \/ NoMsi(e) \/ Refused(e))
      BY <1>5 DEF ConnectFinish
    <2>2. e \in Devs /\ kdev[e] \in KdevType /\ kdev[e].irqs \in [Vectors -> Nat]
      BY <1>1 DEF DevInv, DevType, CallType, KdevType
    <2> HIDE DEF e
    <2>3. CASE Connected(e)
      <3>1. kdev' = [kdev EXCEPT ![e].irqs = Added(@, Lines), ![e].msi = m]
        BY <2>3 DEF Connected
      <3> HIDE DEF m
      <3>2. kdev'[d].inst_id = kdev[d].inst_id
        BY <1>1, <1>3, <2>2, <3>1 DEF KdevType
      <3> QED
        BY <1>2, <2>1, <3>2
    <2>4. CASE NoMsi(e)
      <3>1. kdev'[d] = kdev[d] \/ (d = e /\ kdev'[d] = NoHandlers(kdev[d]))
        BY <1>1, <2>4 DEF NoMsi
      <3> QED
        BY <1>2, <1>3, <2>1, <3>1
    <2>5. CASE Refused(e)
      <3>1. PICK v \in Lines : kdev' = [kdev EXCEPT ![e] =
                Unhooked(@, Freed(@.irqs, IF use_msi = "MSIX" THEN {v} ELSE {}))]
        BY <2>5 DEF Refused
      <3> DEFINE q == Freed(kdev[e].irqs, IF use_msi = "MSIX" THEN {v} ELSE {})
      <3>2. q \in [Vectors -> Nat]
        BY <2>2 DEF Freed
      <3>3. kdev'[d] = kdev[d] \/ (d = e /\ kdev'[d] = Unhooked(kdev[d], q))
        BY <1>1, <3>1
      <3> HIDE DEF q
      <3> QED
        BY <1>2, <1>3, <2>1, <3>2, <3>3
    <2> QED
      BY <2>1, <2>3, <2>4, <2>5
  <1>6. ASSUME NEW c \in Callers, DisconnectFinish(c), NEW d \in Devs PROVE Same(d)
    <2>1. /\ Return(c)
          /\ \/ kdev' = kdev
             \/ kdev' = [kdev EXCEPT ![call[c].dev].irqs = Freed(@, Lines),
                                     ![call[c].dev].msi = FALSE]
      BY <1>6 DEF DisconnectFinish
    <2> DEFINE e == call[c].dev
               q == Freed(kdev[e].irqs, Lines)
    <2>2. e \in Devs /\ kdev[e] \in KdevType
      BY <1>1 DEF DevInv, DevType, CallType
    <2> DEFINE n == [kdev[e] EXCEPT !.irqs = q, !.msi = FALSE]
    <2>3. kdev' = kdev \/ kdev' = [kdev EXCEPT ![e] = n]
      BY <1>1, <2>1, <2>2
    <2> HIDE DEF q
    <2>4. n.inst_id = kdev[e].inst_id
      BY <2>2 DEF KdevType
    <2> HIDE DEF e, n
    <2>5. kdev'[d].inst_id = kdev[d].inst_id
      BY <1>1, <2>2, <2>3, <2>4
    <2> QED
      BY <1>2, <2>1, <2>5
  <1>7. ASSUME NEW e \in Devs, _pci_probe(e) \/ _pci_remove(e), NEW d \in Devs PROVE Same(d)
    <2>1. UNCHANGED udev
      BY <1>7 DEF _pci_probe, _pci_remove
    <2>2. CASE _pci_probe(e)
      <3>1. kdev' = [kdev EXCEPT ![e].state = "normal", ![e].isr = FALSE]
        BY <2>2 DEF _pci_probe
      <3> QED
        BY <1>1, <1>3, <2>1, <3>1 DEF KdevType
    <2>3. CASE _pci_remove(e)
      <3> DEFINE q == Freed(kdev[e].irqs, IF Active(e) THEN Lines ELSE {})
                 u == Unhooked(kdev[e], q)
      <3>1. kdev' = [kdev EXCEPT ![e] = [u EXCEPT !.state = "removed"]]
        BY <1>1, <2>3 DEF _pci_remove
      <3>2. q \in [Vectors -> Nat]
        BY <1>1 DEF Freed, KdevType
      <3> HIDE DEF q
      <3>3. u.inst_id = kdev[e].inst_id /\ u \in KdevType
        BY <1>3, <3>2, UnhookedIs
      <3> DEFINE n == [u EXCEPT !.state = "removed"]
      <3> HIDE DEF u
      <3>4. n.inst_id = u.inst_id
        BY <3>3 DEF KdevType
      <3>5. kdev' = [kdev EXCEPT ![e] = n]
        BY <3>1
      <3> HIDE DEF n
      <3>6. kdev'[d].inst_id = kdev[d].inst_id
        BY <1>1, <3>3, <3>4, <3>5
      <3> QED
        BY <2>1, <3>6
    <2> QED
      BY <1>7, <2>2, <2>3
  <1>8. Probed \subseteq Probed' /\ \A d \in Devs : Same(d)
    <2>1. CASE NewSwitch
      BY <1>1, <2>1 DEF NewSwitch, Probed
    <2>2. CASE \E c \in Callers : CallWrite(c)
      BY <1>4, <2>2 DEF CallWrite, Probed
    <2>3. CASE \E c \in Callers : ConnectFinish(c)
      BY <1>5, <2>3 DEF ConnectFinish, Probed
    <2>4. CASE \E c \in Callers : DisconnectFinish(c)
      BY <1>6, <2>4 DEF DisconnectFinish, Probed
    <2>5. CASE \E d \in Devs : _pci_probe(d) \/ _pci_remove(d)
      BY <1>7, <2>5 DEF _pci_probe, _pci_remove, Probed
    <2>6. CASE \E c \in Callers, op \in {"connect", "disconnect"}, d \in Devs :
                   CallBegin(c, op, d)
      BY <2>6 DEF CallBegin, Probed
    <2> QED
      BY <2>1, <2>2, <2>3, <2>4, <2>5, <2>6 DEF DevicesNext
  <1> QED
    BY <1>8 DEF OwnersKept

LEMMA ReprobeKeepsOwners ==
    ASSUME DevInv, udev' \in {udev, Reprobed}, UNCHANGED <<kdev, ndevices>>
    PROVE  OwnersKept
  BY ReprobedType DEF OwnersKept, Probed

-----------------------------------------------------------------------------
LEMMA BeginKeepsServed ==
    ASSUME BInv, AInv', ServedInv, NEW inst \in Instances, AttachBegin(inst)
    PROVE  ServedInv'
  <1>1. /\ inst \subseteq Probed /\ \A d \in inst : Present(d)
        /\ udev' = Reprobed /\ UNCHANGED <<ndevices, kdev, slot, multi_inst>>
        /\ app' = [app EXCEPT ![inst].pc = _instance_validate(inst)]
    BY DEF AttachBegin, Present
  <1>2. OwnersKept
    BY <1>1, ReprobeKeepsOwners DEF BInv
  <1>3. /\ app'[inst].pc = _instance_validate(inst)
        /\ \A i \in Instances : i # inst => app'[i] = app[i]
    BY <1>1 DEF BInv, AInv, TypeOK
  <1>4. ASSUME _instance_validate(inst) = "validated", multi_inst, NEW k \in Devs,
               slot[k].inst_id = inst
        PROVE  FALSE
    <2> USE Handy
    <2>1. inst # {} /\ SlotServed(k) /\ k \in Probed
      BY <1>4 DEF ServedInv, SlotsServed, Filled
    <2>2. k \in Slots(inst)
      BY <1>4, <2>1 DEF Slots
    <2> DEFINE l == First(Slots(inst))
    <2>3. l \in Devs /\ slot[l].inst_id = inst
      BY <2>2, SlotFound DEF BInv, AInv
    <2>4. slot[l].dma_size = DmaSize[inst]
      BY <1>4, <2>1, <2>3 DEF ServedInv, SlotsServed, SlotServed, Filled
    <2> QED
      BY <1>4, <2>2, <2>4 DEF _instance_validate
  <1>5. ASSUME _instance_validate(inst) = "attached"
        PROVE  multi_inst /\ \E k \in Devs : slot[k].inst_id = inst
    <2>1. Slots(inst) # {}
      BY <1>5 DEF _instance_validate
    <2>2. \E k \in Devs : slot[k].inst_id = inst
      BY <2>1, SlotFound DEF BInv, AInv
    <2> QED
      BY <1>1, <1>3, <1>5, <2>2 DEF AInv, AttachedMulti
  <1>6. _instance_validate(inst) \notin {"running", "filling"}
    BY DEF _instance_validate
  <1>7. \A d \in inst : udev'[d].devid
    BY <1>1, ReprobedType, Handy DEF BInv
  <1>8. \A i \in Instances : Attaching(i)' =>
            \/ Attaching(i)
            \/ /\ i \subseteq Probed' /\ \A d \in i : udev'[d].devid
               /\ multi_inst => \A k \in Devs : slot[k].inst_id # i
    <2> SUFFICES ASSUME NEW i \in Instances, Attaching(i)', ~Attaching(i)
                 PROVE  /\ i \subseteq Probed' /\ \A d \in i : udev'[d].devid
                        /\ multi_inst => \A k \in Devs : slot[k].inst_id # i
      OBVIOUS
    <2>1. i = inst /\ _instance_validate(inst) = "validated"
      BY <1>3 DEF Attaching, _instance_validate
    <2>2. Probed' = Probed
      BY <1>1 DEF Probed
    <2> QED
      BY <1>1, <1>4, <1>7, <2>1, <2>2
  <1>9. \A i \in Instances : app'[i].pc \in {"attached", "running"} =>
            \/ app[i].pc \in {"attached", "running"}
            \/ multi_inst /\ \E k \in Devs : slot[k].inst_id = i
    BY <1>3, <1>5, <1>6
  <1>10. \A i \in Instances : app'[i].pc = "filling" => app'[i] = app[i]
    BY <1>3, <1>6
  <1> QED
    BY <1>1, <1>2, <1>8, <1>9, <1>10, OwnersKeepServed

(* A process that has already begun goes on.                               *)
LEMMA AppGoesOn ==
    ASSUME BInv, ServedInv, NEW inst \in Instances,
           AttachAlloc(inst) \/ AttachTake(inst) \/ GetDmaInfo(inst) \/ AppExit(inst)
    PROVE  ServedInv'
  <1>1. UNCHANGED <<ndevices, kdev, udev, slot, multi_inst>>
    BY DEF AttachAlloc, AttachTake, GetDmaInfo, AppExit, devices
  <1>2. OwnersKept
    BY <1>1, ReprobeKeepsOwners DEF BInv
  <1>3. \A i \in Instances : i # inst => app'[i] = app[i]
    BY DEF AttachAlloc, AttachTake, GetDmaInfo, AppExit, BInv, AInv, TypeOK
  <1>4. /\ Attaching(inst)' => Attaching(inst)
        /\ app'[inst].pc \in {"attached", "running"} =>
               app[inst].pc \in {"attached", "running"}
        /\ app'[inst].pc # "filling"
    <2>1. CASE AttachAlloc(inst)
      BY <2>1 DEF AttachAlloc, Attaching, AppIdle, BInv, AInv, TypeOK
    <2>2. CASE AttachTake(inst)
      BY <2>2 DEF AttachTake, Attaching, BInv, AInv, TypeOK
    <2>3. CASE GetDmaInfo(inst)
      BY <2>3 DEF GetDmaInfo, Attaching, BInv, AInv, TypeOK
    <2>4. CASE AppExit(inst)
      BY <2>4 DEF AppExit, Attaching, AppIdle, BInv, AInv, TypeOK
    <2> QED
      BY <2>1, <2>2, <2>3, <2>4
  <1>5. \A i \in Instances : Attaching(i)' => Attaching(i)
    BY <1>3, <1>4 DEF Attaching
  <1>6. \A i \in Instances : app'[i].pc \in {"attached", "running"} =>
            app[i].pc \in {"attached", "running"}
    BY <1>3, <1>4
  <1>7. \A i \in Instances : app'[i].pc = "filling" => app'[i] = app[i]
    BY <1>3, <1>4
  <1> QED
    BY <1>1, <1>2, <1>5, <1>6, <1>7, OwnersKeepServed

(* A device belongs to the instance of one slot at most.                   *)
LEMMA OneSlot ==
    ASSUME BInv, ServedInv, multi_inst, NEW k \in Devs, NEW l \in Devs,
           NEW d \in slot[k].inst_id, d \in slot[l].inst_id
    PROVE  k = l
  <1>1. SlotServed(k) /\ SlotServed(l)
    BY DEF ServedInv, SlotsServed, Filled
  <1> QED
    BY <1>1 DEF SlotServed

(* An instance that comes finds a slot: the instances in the slots have a  *)
(* device each, and there are as many slots as devices.                    *)
LEMMA SlotLeft ==
    ASSUME BInv, ServedInv, NEW inst \in Instances, Attaching(inst)
    PROVE  FreeSlots # {}
  <1> USE Handy
  <1> SUFFICES ASSUME FreeSlots = {} PROVE FALSE
    OBVIOUS
  <1>1. multi_inst
    BY SlotChosen DEF BInv, AInv
  <1>2. \A k \in Probed : slot[k].inst_id # {} /\ SlotServed(k) /\ slot[k].inst_id # inst
    BY <1>1 DEF FreeSlots, ServedInv, SlotsServed, Filled, AttachingNew
  <1>3. inst # {} /\ inst \subseteq Probed
    BY DEF ServedInv, AttachingNew
  <1> DEFINE dev == [k \in Probed |-> CHOOSE d \in slot[k].inst_id : TRUE]
  <1>4. PICK e \in inst : TRUE
    BY <1>3
  <1> DEFINE T == Probed \ {e}
  <1>5. ASSUME NEW k \in Probed
        PROVE  dev[k] \in slot[k].inst_id /\ dev[k] \in T
    <2>1. dev[k] \in slot[k].inst_id
      BY <1>2
    <2>2. slot[k].inst_id \cap inst = {} /\ slot[k].inst_id \subseteq Probed
      BY <1>2 DEF SlotServed
    <2> QED
      BY <2>1, <2>2
  <1>6. dev \in [Probed -> T]
    BY <1>5
  <1>7. IsFiniteSet(Probed) /\ IsFiniteSet(T) /\ Cardinality(T) < Cardinality(Probed)
    <2>1. ndevices \in Nat
      BY ConstantFacts DEF BInv, AInv, TypeOK
    <2>2. /\ IsFiniteSet(0 .. ndevices - 1)
          /\ Cardinality(0 .. ndevices - 1) \in Nat
      <3>1. 0 \in Int /\ ndevices - 1 \in Int
        BY <2>1
      <3>2. IsFiniteSet(0 .. ndevices - 1)
        BY <3>1, FS_Interval
      <3> QED
        BY <3>2, FS_CardinalityType
    <2>3. IsFiniteSet(Probed) /\ Cardinality(Probed) \in Nat
      BY <2>2 DEF Probed
    <2>4. e \in Probed
      BY <1>3, <1>4
    <2>5. IsFiniteSet(T) /\ Cardinality(T) = Cardinality(Probed) - 1
      BY <2>3, <2>4, FS_RemoveElement
    <2> QED
      BY <2>3, <2>5
  <1> HIDE DEF dev, T
  <1>8. PICK k, l \in Probed : k # l /\ dev[k] = dev[l]
    BY <1>6, <1>7, FS_PigeonHole
  <1>9. dev[k] \in slot[k].inst_id /\ dev[k] \in slot[l].inst_id
    BY <1>5, <1>8
  <1> QED
    BY <1>1, <1>8, <1>9, OneSlot

(* Nobody else is about to fill a slot: the one that is picked stays free. *)
LEMMA PickKeepsServed ==
    ASSUME BInv, ServedInv, NEW inst \in Instances, AttachPick(inst), ~doubled'
    PROVE  ServedInv'
  <1>1. /\ UNCHANGED <<ndevices, kdev, udev, slot, multi_inst>> /\ app[inst].pc = "placing"
        /\ \A i \in Instances : app[i].pc # "filling"
    BY DEF AttachPick, devices
  <1>2. /\ app'[inst].pc = "filling" /\ app'[inst].inst_idx = InstIdx
        /\ \A i \in Instances : i # inst => app'[i] = app[i]
    BY DEF AttachPick, BInv, AInv, TypeOK, AppType
  <1>3. FreeSlots # {}
    BY <1>1, SlotLeft DEF Attaching
  <1>4. InstIdx \in Probed /\ (multi_inst => ~Filled(InstIdx))
    BY <1>3, SlotChosen DEF BInv, AInv
  <1>5. OneFills'
    BY <1>1, <1>2 DEF OneFills
  <1>6. PickedFree'
    BY <1>1, <1>2, <1>4 DEF PickedFree, Probed, Filled
  <1>7. SlotsServed' /\ OwnerHasSlot'
    BY <1>1 DEF ServedInv, SlotsServed, SlotServed, OwnerHasSlot, Filled, Probed
  <1>8. AttachingNew'
    BY <1>1, <1>2 DEF ServedInv, AttachingNew, Attaching, Probed
  <1>9. AttachedHasSlot'
    BY <1>1, <1>2 DEF ServedInv, AttachedHasSlot
  <1> QED
    BY <1>5, <1>6, <1>7, <1>8, <1>9 DEF ServedInv

LEMMA FillKeepsServed ==
    ASSUME BInv, ServedInv, NEW inst \in Instances, AttachFill(inst)
    PROVE  ServedInv'
  <1> USE Handy
  <1> DEFINE k0 == app[inst].inst_idx
             new == [inst_id |-> inst, dma_offset |-> app[inst].dma_offset,
                     dma_size |-> DmaSize[inst]]
  <1>1. Attaching(inst) /\ app[inst].pc = "filling"
    BY DEF AttachFill, FillSlot, Attaching
  <1>2. k0 \in Devs /\ k0 \in Probed /\ (multi_inst => slot[k0].inst_id = {})
    BY <1>1 DEF ServedInv, PickedFree, Filled
  <1>3. /\ slot'[k0] = new /\ \A k \in Devs : k # k0 => slot'[k] = slot[k]
        /\ multi_inst' /\ ndevices' = ndevices
    BY <1>1, <1>2 DEF AttachFill, FillSlot
  <1>4. new.inst_id = inst /\ new.dma_size = DmaSize[inst]
    OBVIOUS
  <1>5. inst # {} /\ inst \subseteq Probed /\ \A d \in inst : udev[d].devid
    BY <1>1 DEF ServedInv, AttachingNew
  <1>6. Probed' = Probed
    BY <1>3 DEF Probed
  <1> HIDE DEF k0, new
  <1>7. ASSUME NEW d \in Devs, kdev[d].inst_id # {}
        PROVE  d \notin inst
    <2>1. PICK k \in Devs : multi_inst /\ d \in kdev[d].inst_id
                            /\ slot[k].inst_id = kdev[d].inst_id
      BY <1>7 DEF ServedInv, OwnerHasSlot
    <2>2. slot[k].inst_id \in Instances /\ slot[k].inst_id # inst
      BY <1>1, <2>1 DEF ServedInv, SlotsServed, SlotServed, Filled, AttachingNew
    <2> QED
      BY <2>1, <2>2
  <1>8. ASSUME NEW d \in Devs
        PROVE  /\ d \in inst => /\ kdev'[d].inst_id = inst
                                /\ udev'[d].devid /\ udev'[d].inst = k0
               /\ d \notin inst => kdev'[d] = kdev[d] /\ udev'[d] = udev[d]
    <2>1. kdev[d] \in KdevType
      BY DEF BInv, DevInv, DevType
    <2>2. udev[d] \in UdevType
      BY DEF BInv, DevInv, DevType
    <2>3. CASE d \in inst
      <3> DEFINE n == [kdev[d] EXCEPT !.inst_id = inst]
                 m == [udev[d] EXCEPT !.inst = k0]
      <3>1. kdev[d].inst_id = {} /\ d \in Probed
        BY <1>5, <1>7, <2>3
      <3>2. kdev'[d] = n /\ udev'[d] = m
        BY <2>3, <3>1 DEF AttachFill, FillSlot, k0
      <3>3. n.inst_id = inst
        BY <2>1 DEF KdevType
      <3>4. m.inst = k0 /\ m.devid = udev[d].devid
        BY <2>2 DEF UdevType
      <3> HIDE DEF n, m
      <3> QED
        BY <1>5, <2>3, <3>2, <3>3, <3>4
    <2>4. CASE d \notin inst
      BY <2>4 DEF AttachFill, FillSlot
    <2> QED
      BY <2>3, <2>4
  <1>9. ASSUME NEW k \in Devs, k # k0, slot[k].inst_id # {}
        PROVE  multi_inst /\ SlotServed(k) /\ k \in Probed /\ SlotServed(k)'
    <2>1. multi_inst
      <3>1. ~multi_inst => k0 = 0
        BY <1>1 DEF BInv, AInv, OnlyDefault, k0
      <3> QED
        BY <1>9, <3>1 DEF BInv, AInv, TypeOK, OnlyDefault, Filled
    <2>2. SlotServed(k) /\ k \in Probed
      BY <1>9, <2>1 DEF ServedInv, SlotsServed, Filled
    <2>3. slot[k].inst_id \in Instances /\ slot[k].inst_id # inst
      BY <1>1, <2>1, <2>2 DEF ServedInv, AttachingNew, SlotServed
    <2>4. \A d \in slot[k].inst_id : d \in Devs /\ d \notin inst
      BY <2>3
    <2>5. \A d \in slot[k].inst_id : kdev'[d] = kdev[d] /\ udev'[d] = udev[d]
      BY <1>8, <2>4
    <2>6. slot'[k] = slot[k]
      BY <1>3, <1>9
    <2> QED
      BY <1>6, <2>1, <2>2, <2>5, <2>6 DEF SlotServed
  <1>10. ASSUME NEW k \in Devs, k = k0 PROVE SlotServed(k)'
    <2>1. slot'[k] = new
      BY <1>3, <1>10
    <2>2. \A d \in inst : /\ udev'[d].devid /\ udev'[d].inst = k /\ kdev'[d].inst_id = inst
      BY <1>8, <1>10
    <2> QED
      BY <1>4, <1>5, <1>6, <2>1, <2>2 DEF SlotServed
  <1>11. SlotsServed'
    <2> SUFFICES ASSUME NEW k \in Devs, slot'[k].inst_id # {}
                 PROVE  k \in Probed' /\ SlotServed(k)'
      BY DEF SlotsServed, Filled
    <2>1. CASE k = k0
      BY <1>2, <1>6, <1>10, <2>1
    <2>2. CASE k # k0
      <3>1. slot[k].inst_id # {}
        BY <1>3, <2>2
      <3> QED
        BY <1>6, <1>9, <2>2, <3>1
    <2> QED
      BY <2>1, <2>2
  <1>12. /\ app'[inst].pc = "attached"
         /\ \A i \in Instances : i # inst => app'[i] = app[i] /\ app[i].pc # "filling"
    BY <1>1 DEF AttachFill, FillSlot, BInv, AInv, TypeOK, ServedInv, OneFills
  <1>13. AttachingNew'
    <2> SUFFICES ASSUME NEW i \in Instances, Attaching(i)'
                 PROVE  /\ i \subseteq Probed' /\ \A d \in i : udev'[d].devid
                        /\ \A k \in Devs : slot'[k].inst_id # i
      BY DEF AttachingNew
    <2>1. i # inst /\ Attaching(i)
      BY <1>12 DEF Attaching
    <2>2. /\ i \subseteq Probed /\ \A d \in i : udev[d].devid /\ d \in Devs /\ d \notin inst
          /\ multi_inst => \A k \in Devs : slot[k].inst_id # i
      BY <2>1 DEF ServedInv, AttachingNew
    <2>3. \A k \in Devs : slot'[k].inst_id # i
      <3> SUFFICES ASSUME NEW k \in Devs, k # k0, slot[k].inst_id = i PROVE FALSE
        BY <1>2, <1>3, <1>4, <2>1
      <3>1. multi_inst
        BY <1>9
      <3> QED
        BY <2>2, <3>1
    <2> QED
      BY <1>6, <1>8, <2>2, <2>3
  <1>14. AttachedHasSlot'
    <2> SUFFICES ASSUME NEW i \in Instances, app'[i].pc \in {"attached", "running"}
                 PROVE  \E k \in Devs : slot'[k].inst_id = i
      BY <1>3 DEF AttachedHasSlot
    <2>1. CASE i = inst
      BY <1>2, <1>3, <1>4, <2>1
    <2>2. CASE i # inst
      <3>1. PICK k \in Devs : multi_inst /\ slot[k].inst_id = i
        BY <1>12, <2>2 DEF ServedInv, AttachedHasSlot
      <3>2. k # k0
        BY <1>2, <3>1
      <3> QED
        BY <1>3, <3>1, <3>2
    <2> QED
      BY <2>1, <2>2
  <1>15. OwnerHasSlot'
    <2> SUFFICES ASSUME NEW d \in Devs, kdev'[d].inst_id # {}
                 PROVE  d \in kdev'[d].inst_id
                        /\ \E k \in Devs : slot'[k].inst_id = kdev'[d].inst_id
      BY <1>3 DEF OwnerHasSlot
    <2>1. CASE d \in inst
      BY <1>2, <1>3, <1>4, <1>8, <2>1
    <2>2. CASE d \notin inst
      <3>1. PICK k \in Devs : multi_inst /\ d \in kdev[d].inst_id
                              /\ slot[k].inst_id = kdev[d].inst_id
        BY <1>8, <2>2 DEF ServedInv, OwnerHasSlot
      <3>2. k # k0
        BY <1>2, <3>1
      <3> QED
        BY <1>3, <1>8, <2>2, <3>1, <3>2
    <2> QED
      BY <2>1, <2>2
  <1>16. OneFills' /\ PickedFree'
    BY <1>12 DEF OneFills, PickedFree
  <1> QED
    BY <1>11, <1>13, <1>14, <1>15, <1>16 DEF ServedInv

LEMMA StepKeepsServed ==
    ASSUME BInv, AInv', ServedInv, [Next]_vars, ~doubled'
    PROVE  ServedInv'
  <1>1. CASE DevicesNext /\ UNCHANGED <<slot, multi_inst, _dma_pool, app, torn, doubled>>
    BY <1>1, DevicesKeepOwners, OwnersKeepServed DEF BInv, Attaching
  <1>2. ASSUME NEW inst \in Instances, AttachBegin(inst) PROVE ServedInv'
    BY <1>2, BeginKeepsServed
  <1>3. ASSUME NEW inst \in Instances, AttachPick(inst) \/ AttachFill(inst)
        PROVE  ServedInv'
    BY <1>3, PickKeepsServed, FillKeepsServed
  <1>4. ASSUME NEW inst \in Instances,
               AttachAlloc(inst) \/ AttachTake(inst) \/ GetDmaInfo(inst) \/ AppExit(inst)
        PROVE  ServedInv'
    BY <1>4, AppGoesOn
  <1>5. CASE Reprobe \/ UNCHANGED vars
    <2>1. udev' \in {udev, Reprobed} /\ UNCHANGED <<kdev, ndevices, slot, multi_inst, app>>
      BY <1>5 DEF Reprobe, vars, devices
    <2>2. OwnersKept
      BY <2>1, ReprobeKeepsOwners DEF BInv
    <2> QED
      BY <2>1, <2>2, OwnersKeepServed DEF Attaching
  <1> QED
    BY <1>1, <1>2, <1>3, <1>4, <1>5 DEF Next

(* What was doubled stays doubled. *)
SettledServed ==
    /\ doubled \in BOOLEAN
    /\ ~doubled /\ DevicesApart /\ DefaultNotAsked => ServedInv

(* An attached instance that shares no device has a slot with the size it  *)
(* has asked for, its devices wake the threads of that slot, and the       *)
(* kernel BDE has it for their owner, as long as no process picks a slot   *)
(* while another is about to fill the one it has picked: for any devices,  *)
(* instances, sizes and pool, however else the processes that attach       *)
(* overlap (_instance_attach, _device_reprobe).                            *)
THEOREM BdeInstanceServed == Spec => []InstanceServed
  <1>1. Init => SettledServed
    <2> SUFFICES ASSUME Init PROVE SettledServed
      OBVIOUS
    <2>1. doubled \in BOOLEAN
      BY DEF Init
    <2> QED
      BY <2>1, InitServed DEF SettledServed
  <1>2. Settled /\ DevInv /\ SettledServed /\ [Next]_vars /\ Settled' => SettledServed'
    <2> SUFFICES ASSUME Settled, DevInv, SettledServed, [Next]_vars, Settled'
                 PROVE  SettledServed'
      OBVIOUS
    <2>1. DefaultNotAsked' <=> DefaultNotAsked
      BY SettledStays
    <2>2. doubled' \in BOOLEAN /\ (doubled => doubled')
      <3>1. \/ UNCHANGED doubled
            \/ \E inst \in Instances : AttachPick(inst)
        BY DEF Next, vars, AttachBegin, AttachAlloc, AttachTake, AttachFill, FillSlot,
               GetDmaInfo, AppExit, Reprobe
      <3> QED
        BY <3>1 DEF AttachPick, SettledServed
    <2>3. ASSUME ~doubled', DevicesApart, DefaultNotAsked' PROVE ServedInv'
      BY <2>1, <2>2, <2>3, StepKeepsServed DEF Settled, SettledServed, BInv
    <2> QED
      BY <2>2, <2>3 DEF SettledServed, DevicesApart
  <1>3. Settled /\ SettledServed => InstanceServed
    <2> SUFFICES ASSUME AInv, ServedInv, NEW inst \in Instances,
                        app[inst].pc \in {"attached", "running"}
                 PROVE  \E k \in Devs :
                            /\ slot[k].inst_id = inst /\ slot[k].dma_size = DmaSize[inst]
                            /\ \A d \in inst : udev[d].inst = k /\ kdev[d].inst_id = inst
      BY DEF Settled, SettledServed, InstanceServed
    <2>1. PICK k \in Devs : multi_inst /\ slot[k].inst_id = inst
      BY DEF ServedInv, AttachedHasSlot
    <2>2. SlotServed(k)
      BY <2>1, ConstantFacts DEF ServedInv, SlotsServed, Filled
    <2> QED
      BY <2>1, <2>2 DEF SlotServed
  <1> QED
    BY <1>1, <1>2, <1>3, SettledInit, SettledStep, InitDevInv, InitType, StepKeepsDev,
       TypeStays, PTL DEF Spec

=============================================================================
