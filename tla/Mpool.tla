------------------------------- MODULE Mpool -------------------------------
(***************************************************************************)
(* The allocator of the DMA memory pool (mpool.c).                         *)
(*                                                                         *)
(* The blocks are described outside the pool, by nodes that form a list in *)
(* the order of the addresses, from a head to a tail, both of size 0.  An  *)
(* allocation takes the first gap that is large enough; there is no list   *)
(* of gaps.  The nodes come in buffers of BUF_SIZE nodes, of which there   *)
(* are at most BUF_MAX; the first two nodes of the first buffer are the    *)
(* head and the tail, and the head is the handle of the pool.              *)
(*                                                                         *)
(* Every function runs under _mpool_lock, so each is one action.  The      *)
(* nodes that are not in use are a set here: in which order they are taken *)
(* is of no consequence.                                                   *)
(***************************************************************************)
EXTENDS Integers

CONSTANTS
    LINE,       \* BCM_CACHE_LINE_BYTES
    BUF_SIZE,   \* MPOOL_BUF_SIZE
    BUF_MAX,    \* MPOOL_BUF_ALLOC_COUNT_MAX
    NULL,       \* the NULL pointer
    Ranges,     \* the memory a pool may be created in: address and size
    Sizes       \* what may be asked for

Nodes == (0 .. BUF_MAX - 1) \X (1 .. BUF_SIZE)
head == <<0, 1>>
tail == <<0, 2>>

(* The sizes are C ints; one so large that rounding it up overflows is     *)
(* left out, as are ranges that hold no cache line.                        *)
ASSUME LineAssumption == LINE \in Nat /\ LINE >= 1
ASSUME NodeAssumption ==
    /\ BUF_MAX \in Nat /\ BUF_MAX >= 1
    /\ BUF_SIZE \in Nat /\ BUF_SIZE >= 2
    /\ NULL \notin Nodes
ASSUME SizeAssumption ==
    /\ Sizes \subseteq Int
    /\ Ranges \subseteq [addr : Nat, size : Nat]
    /\ \A r \in Ranges : r.size >= 2 * LINE

VARIABLES
    pool,       \* the handle, or NULL
    node,       \* mpool_mem_t
    free_list,  \* the nodes that are not in use
    bufs        \* _buf_alloc_count: buffers of nodes

vars == <<pool, node, free_list, bufs>>

Used == {n \in Nodes : n[1] < bufs} \ free_list
Blocks == Used \ {head, tail}
End(n) == node[n].address + node[n].size

(* Nobody reads what is in a node that is not in use.                      *)
Unused == [address |-> 0, size |-> 0, prev |-> NULL, next |-> NULL]

-----------------------------------------------------------------------------
Init ==
    /\ pool = NULL
    /\ node = [n \in Nodes |-> Unused]
    /\ free_list = {}
    /\ bufs = 0

Buffer(b) == {n \in Nodes : n[1] = b}

(* An address or a size as a multiple of the cache line. *)
Up(x) == x + ((LINE - (x % LINE)) % LINE)
Down(x) == x - (x % LINE)

(* There is one pool at a time (_dma_init, _dma_cleanup). *)
mpool_create(r) ==
    /\ pool = NULL
    /\ LET base == Up(r.addr)
           limit == base + Down(r.size - (base - r.addr))
       IN  node' = [node EXCEPT
               ![head] = [address |-> base, size |-> 0, prev |-> tail, next |-> tail],
               ![tail] = [address |-> limit, size |-> 0, prev |-> head, next |-> NULL]]
    /\ pool' = head
    /\ free_list' = Buffer(0) \ {head, tail}
    /\ bufs' = 1

(* What is really taken of the pool. *)
RoundUp(size) == Up(IF size < LINE THEN LINE ELSE size)

(* Mutant of Gap: the size of the block before the gap is forgotten. *)
GapFromStart(n) == node[node[n].next].address - node[n].address

Gap(n) == node[node[n].next].address - End(n)

(* Mutant of FitsAfter: a gap of exactly the size does not count. *)
FitsAfterStrictly(n, size) == n \in Used /\ node[n].next # NULL /\ Gap(n) > size

FitsAfter(n, size) == n \in Used /\ node[n].next # NULL /\ Gap(n) >= size

(* Where mpool_alloc's walk along the list stops: the first gap. *)
FirstFit(n, size) ==
    /\ FitsAfter(n, size)
    /\ \A m \in Used : FitsAfter(m, size) => End(n) <= End(m)

(* Mutant of Insert: the node keeps the size it had. *)
InsertOldSize(ptr, new, size) ==
    [node EXCEPT ![new] = [@ EXCEPT !.address = End(ptr), !.prev = ptr,
                                    !.next = node[ptr].next],
                 ![node[ptr].next].prev = new,
                 ![ptr].next = new]

(* Node new is linked in between ptr and the one after it. *)
Insert(ptr, new, size) ==
    [node EXCEPT ![new] = [address |-> End(ptr), size |-> size,
                           prev |-> ptr, next |-> node[ptr].next],
                 ![node[ptr].next].prev = new,
                 ![ptr].next = new]

(* When there is no node left, another buffer of them is allocated, unless *)
(* there are BUF_MAX already.  When MALLOC fails nothing changes.          *)
Spare == IF free_list # {} \/ bufs = BUF_MAX THEN free_list ELSE Buffer(bufs)

mpool_alloc(size) ==
    /\ pool # NULL
    /\ \E ptr \in Used, new \in Spare :
          /\ FirstFit(ptr, RoundUp(size))
          /\ node' = Insert(ptr, new, RoundUp(size))
          /\ free_list' = Spare \ {new}
    /\ bufs' = IF free_list = {} THEN bufs + 1 ELSE bufs
    /\ UNCHANGED pool

Unlink(n) ==
    [node EXCEPT ![node[n].prev].next = node[n].next,
                 ![node[n].next].prev = node[n].prev,
                 ![n] = Unused]

(* An address at which no block begins is ignored. *)
mpool_free(addr) ==
    /\ pool # NULL
    /\ \E n \in Blocks :
          /\ node[n].address = addr
          /\ node' = Unlink(n)
          /\ free_list' = free_list \cup {n}
    /\ UNCHANGED <<pool, bufs>>

(* The buffers are freed; free_list and the count are set again by the     *)
(* next mpool_create, before anybody reads them.                           *)
mpool_destroy ==
    /\ pool # NULL
    /\ pool' = NULL /\ bufs' = 0 /\ free_list' = {}
    /\ node' = [n \in Nodes |-> Unused]

Next ==
    \/ \E r \in Ranges : mpool_create(r)
    \/ \E size \in Sizes : mpool_alloc(size)
    \/ \E n \in Blocks : mpool_free(node[n].address)
    \/ mpool_destroy

Spec == Init /\ [][Next]_vars

-----------------------------------------------------------------------------
TypeOK ==
    /\ pool \in {head, NULL}
    /\ node \in [Nodes -> [address : Int, size : Int, prev : Nodes \cup {NULL},
                           next : Nodes \cup {NULL}]]
    /\ bufs \in 0 .. BUF_MAX
    /\ free_list \subseteq {n \in Nodes : n[1] < bufs} \ {head, tail}
    /\ pool = head <=> bufs > 0

(* Blocks lie in the pool and no two of them overlap, whatever was         *)
(* allocated and freed before and in whichever order (mpool_alloc,         *)
(* mpool_free).                                                            *)
BlocksDisjoint ==
    \A m, n \in Blocks :
        /\ node[n].size > 0
        /\ node[head].address <= node[n].address /\ End(n) <= node[tail].address
        /\ m # n => End(m) <= node[n].address \/ End(n) <= node[m].address

(* The list is linked in both directions through the nodes in use and no   *)
(* other, in the order of the addresses: a walk meets every block, so that *)
(* mpool_free finds it and mpool_alloc sees no gap where there is a block. *)
ListSound ==
    pool # NULL =>
        /\ {head, tail} \subseteq Used
        /\ node[tail].next = NULL /\ node[head].prev = tail
        /\ \A n \in Used \ {tail} :
              node[n].next \in Used \ {head} /\ node[node[n].next].prev = n
        /\ \A n \in Used \ {head} :
              node[n].prev \in Used \ {tail} /\ node[node[n].prev].next = n
        /\ \A n \in Used \ {tail} : LET next == node[n].next IN
              /\ End(n) <= node[next].address
              /\ \A m \in Used \ {n, next} :
                    End(m) <= node[n].address \/ End(next) <= node[m].address

(* mpool_alloc finds a gap if there is any: when no node fits, the size    *)
(* fits nowhere in the pool, at whatever address.                          *)
FindsGap ==
    pool # NULL => \A size \in Sizes :
        (\E n \in Used : FirstFit(n, RoundUp(size)))
        \/ \A a \in node[head].address .. node[tail].address - RoundUp(size) :
              \E n \in Blocks : a < End(n) /\ node[n].address < a + RoundUp(size)

(* The list implements a pool of memory, in which an allocation or a free  *)
(* changes no other block.                                                 *)
Abstract == INSTANCE MemoryPool WITH
    range <- IF pool = NULL THEN [base |-> 0, limit |-> 0]
             ELSE [base |-> node[head].address, limit |-> node[tail].address],
    blocks <- {[addr |-> node[n].address, size |-> node[n].size] : n \in Blocks}
ImplementsPool == Abstract!Spec

=============================================================================
