----------------------------- MODULE MemoryPool -----------------------------
(***************************************************************************)
(* What a pool of DMA memory promises to those who allocate from it: a     *)
(* block lies in the pool and overlaps no other block, and stays as it is  *)
(* until it is freed.                                                      *)
(***************************************************************************)
EXTENDS Integers

VARIABLES range,        \* the pool: its first address and the one behind it
          blocks        \* the blocks allocated and not freed yet

vars == <<range, blocks>>

NoPool == [base |-> 0, limit |-> 0]

Disjoint(b, c) == b.addr + b.size <= c.addr \/ c.addr + c.size <= b.addr
InRange(b) == range.base <= b.addr /\ b.addr + b.size <= range.limit

Init == range = NoPool /\ blocks = {}

Create ==
    /\ range = NoPool
    /\ range' \in [base : Int, limit : Int]
    /\ blocks' = {}

Alloc ==
    /\ \E b \in blocks' :
          /\ b.size > 0 /\ InRange(b)
          /\ \A c \in blocks : Disjoint(b, c)
          /\ blocks' = blocks \cup {b}
    /\ UNCHANGED range

Free ==
    /\ \E b \in blocks : blocks' = blocks \ {b}
    /\ UNCHANGED range

Destroy == range' = NoPool /\ blocks' = {}

Next == Create \/ Alloc \/ Free \/ Destroy

Spec == Init /\ [][Next]_vars

=============================================================================
