------------------------------ MODULE DmaPool ------------------------------
(***************************************************************************)
(* The DMA memory of the kernel BDE (linux_dma.c) and the pool in it       *)
(* (Mpool).  The kernel gives memory in blocks at most, so a segment of    *)
(* adjacent blocks is assembled: blocks are allocated until there is a run *)
(* of them that is long enough, and the others are given back.             *)
(*                                                                         *)
(* The memory of a pool is such a segment (dmaalloc = CHUNK) or a range    *)
(* outside the kernel's memory (himem).  With a pool _salloc allocates     *)
(* from it.  Without (dmasize = 0) each allocation that kmalloc refuses is *)
(* a segment of its own.                                                   *)
(***************************************************************************)
EXTENDS Mpool, Sequences

CONSTANTS
    DMA_BLOCK_SIZE,     \* size of a block
    Memory,             \* addresses of the blocks the kernel has
    blk_cnt_max,        \* blocks a segment may take while it is assembled
    MORE_BLKS,          \* blocks that are added at a time (8 in the driver)
    DmaSizes,           \* dmasize: 0, or the size of the pool
    SegSizes,           \* sizes of _salloc without a pool
    DMA_MEM_DEFAULT     \* the size of the pool of lkbde_get_dma_info

ASSUME BlockAssumption ==
    /\ DMA_BLOCK_SIZE \in Nat \ {0}
    /\ \A a \in Memory : a \in Nat /\ a % DMA_BLOCK_SIZE = 0 /\ a # 0
ASSUME CountAssumption == blk_cnt_max \in Nat /\ MORE_BLKS \in Nat \ {0}
(* A pool has megabytes, so it has a few cache lines. *)
ASSUME DmaSizeAssumption ==
    /\ DmaSizes \subseteq Nat /\ DMA_MEM_DEFAULT \in Nat
    /\ \A size \in (DmaSizes \ {0}) \cup {DMA_MEM_DEFAULT} : size >= 2 * LINE
    /\ SegSizes \subseteq Nat \ {0}

VARIABLES
    pages,      \* the blocks the kernel can give
    reserved,   \* the blocks with SetPageReserved
    work,       \* the segment that is being assembled (dma_segment_t)
    tag,        \* the tag in the address of each block
    run,        \* local variables of _find_largest_segment
    _dma_seg,   \* the segments in use
    _dma_vbase, \* address and size of the pool's memory, or NULL
    _dma_mem_size,
    _use_himem,
    loaded      \* _dma_init has run

memvars == <<pages, reserved, work, tag, run, _dma_seg, _dma_vbase, _dma_mem_size,
             _use_himem, loaded>>
others == <<pages, reserved, _dma_seg, _dma_vbase, _dma_mem_size, _use_himem, loaded, vars>>

NoWork == [pc |-> "idle", by |-> "none", req |-> 0, todo |-> 0,
           blks |-> <<>>, size |-> 0, begin |-> 0]
NoRun == [b |-> 0, e |-> 0, j |-> 0, found |-> 0]
Untag == [a \in Memory |-> 0]
Got == {work.blks[i] : i \in DOMAIN work.blks}

-----------------------------------------------------------------------------
DmaInit ==
    /\ Init
    /\ pages = Memory /\ reserved = {}
    /\ work = NoWork /\ tag = Untag /\ run = NoRun
    /\ _dma_seg = {}
    /\ _dma_vbase = NULL
    /\ _dma_mem_size \in DmaSizes
    /\ _use_himem \in BOOLEAN
    /\ loaded = FALSE

(* _dma_segment_alloc begins: it wants the blocks that the size needs. *)
SegmentAlloc(size, by) ==
    LET n == size \div DMA_BLOCK_SIZE
    IN  work' = [NoWork EXCEPT !.pc = "first", !.by = by, !.req = size,
                               !.todo = IF n > blk_cnt_max THEN 0 ELSE n]

(* _alloc_dma_blocks: the kernel (external) gives any block it has ...     *)
GetBlock ==
    /\ work.pc \in {"first", "more"} /\ work.todo > 0
    /\ \E a \in pages :
           /\ pages' = pages \ {a}
           /\ work' = [work EXCEPT !.blks = Append(@, a), !.todo = @ - 1]
    /\ UNCHANGED <<reserved, tag, run, _dma_seg, _dma_vbase, _dma_mem_size, _use_himem,
                   loaded, vars>>

(* ... or none: the first time what there is has to do, later it ends.     *)
NoBlock ==
    /\ work.todo > 0
    /\ work' = [work EXCEPT !.todo = 0, !.pc = IF @ = "first" THEN "first" ELSE "end"]
    /\ UNCHANGED <<tag, run, others>>

WantMore ==
    /\ work.pc = "found" /\ work.size < work.req
    /\ work' = IF Len(work.blks) + MORE_BLKS > blk_cnt_max THEN [work EXCEPT !.pc = "end"]
               ELSE [work EXCEPT !.pc = "more", !.todo = MORE_BLKS]
    /\ UNCHANGED <<tag, run, others>>

-----------------------------------------------------------------------------
(* _find_largest_segment.  A tag says what a block is: 0 untagged, 1       *)
(* discarded, 2 part of the largest run, 3 part of the current run, which  *)
(* is [b, e).  The loops over the blocks only stop at blocks that matter.  *)
Untagged == {i \in DOMAIN work.blks : tag[work.blks[i]] = 0}

FindRun ==
    /\ work.pc \in {"first", "more"} /\ work.todo = 0
    /\ work' = [work EXCEPT !.pc = "find"]
    /\ tag' = Untag
    /\ UNCHANGED <<run, others>>

(* A run begins with the first block that has no tag ... *)
FirstBlock ==
    /\ work.pc = "find" /\ work.size < work.req
    /\ \E i \in Untagged :
           LET a == work.blks[i]
           IN  /\ \A k \in Untagged : i <= k
               /\ tag' = [tag EXCEPT ![a] = 3]
               /\ run' = [b |-> a, e |-> a + DMA_BLOCK_SIZE, j |-> 0, found |-> 0]
    /\ work' = [work EXCEPT !.pc = "grow"]
    /\ UNCHANGED others

(* ... and grows in passes over the blocks without a tag (all of them come *)
(* later), until a pass finds no more or it is long enough.                *)
Adjacent ==
    {j \in Untagged : /\ j > run.j /\ run.e - run.b < work.req
                      /\ work.blks[j] = run.b - DMA_BLOCK_SIZE \/ work.blks[j] = run.e}

AdjacentBlock ==
    /\ work.pc = "grow"
    /\ \E j \in Adjacent :
           LET a == work.blks[j]
           IN  /\ \A k \in Adjacent : j <= k
               /\ tag' = [tag EXCEPT ![a] = 3]
               /\ run' = IF a = run.b - DMA_BLOCK_SIZE
                         THEN [run EXCEPT !.b = a, !.j = j, !.found = 1]
                         ELSE [run EXCEPT !.e = @ + DMA_BLOCK_SIZE, !.j = j, !.found = 1]
    /\ UNCHANGED <<work, others>>

(* Mutant of OneMorePass: one pass only. *)
OnePass == FALSE

OneMorePass == run.found = 1

NextPass ==
    /\ work.pc = "grow" /\ Adjacent = {} /\ OneMorePass
    /\ run' = [run EXCEPT !.j = 0, !.found = 0]
    /\ UNCHANGED <<work, tag, others>>

(* The current run becomes the largest one, or is discarded. *)
Retag(larger) ==
    [a \in Memory |-> CASE tag[a] = 3 -> IF larger THEN 2 ELSE 1
                        [] tag[a] = 2 -> IF larger THEN 1 ELSE 2
                        [] OTHER      -> tag[a]]

RunEnds ==
    /\ work.pc = "grow" /\ Adjacent = {} /\ ~OneMorePass
    /\ LET larger == run.e - run.b > work.size
       IN  /\ tag' = Retag(larger)
           /\ work' = IF larger THEN [work EXCEPT !.pc = "find", !.begin = run.b,
                                                  !.size = run.e - run.b]
                      ELSE [work EXCEPT !.pc = "find"]
    /\ run' = NoRun
    /\ UNCHANGED others

RunFound ==
    /\ work.pc = "find" /\ (work.size >= work.req \/ Untagged = {})
    /\ work' = [work EXCEPT !.pc = "found"]
    /\ UNCHANGED <<tag, run, others>>

-----------------------------------------------------------------------------
(* Mutant of Largest: a block that was allocated last is kept as well. *)
LargestAndLast == {a \in Got : tag[a] = 2 \/ a = work.blks[Len(work.blks)]}

(* The blocks with tag 2 are kept, the others given back. *)
Largest == {a \in Got : tag[a] = 2}

CreatePool(r) == IF work.by = "init" THEN mpool_create(r) ELSE UNCHANGED vars

(* The segment is long enough; _alloc_mpool still has to map it, and the   *)
(* address the devices get must be below 4 GB, or all is given back.       *)
SegmentFound ==
    /\ work.pc = "found" /\ work.size >= work.req
    /\ LET seg == [begin |-> work.begin, end |-> work.begin + work.size, blks |-> Largest]
           r == [addr |-> work.begin, size |-> work.req]
       IN  \/ /\ pages' = pages \cup (Got \ Largest)
              /\ reserved' = reserved \cup Largest
              /\ _dma_seg' = _dma_seg \cup {seg}
              /\ IF work.by = "salloc" THEN UNCHANGED <<_dma_vbase, vars>>
                 ELSE _dma_vbase' = r /\ CreatePool(r)
           \/ /\ work.by # "salloc"
              /\ pages' = pages \cup Got
              /\ UNCHANGED <<reserved, _dma_seg, _dma_vbase, vars>>
    /\ work' = NoWork /\ tag' = Untag
    /\ UNCHANGED <<run, _dma_mem_size, _use_himem, loaded>>

(* _pgalloc refuses a segment that is too short. *)
SegmentTooShort ==
    /\ work.pc = "end"
    /\ pages' = pages \cup Got
    /\ work' = NoWork /\ tag' = Untag
    /\ UNCHANGED <<run, reserved, _dma_seg, _dma_vbase, _dma_mem_size, _use_himem, loaded, vars>>

(* _alloc_mpool, up to the segment; himemaddr and dmasize may be any of    *)
(* Ranges, and an address of 4 GB or more is refused.                      *)
_alloc_mpool(size, by) ==
    \/ /\ ~_use_himem
       /\ SegmentAlloc(size, by)
       /\ _dma_mem_size' = size
       /\ UNCHANGED <<_dma_vbase, vars>>
    \/ /\ _use_himem
       /\ \E r \in Ranges :
              /\ _dma_vbase' = r /\ _dma_mem_size' = r.size
              /\ IF by = "init" THEN mpool_create(r) ELSE UNCHANGED vars
       /\ UNCHANGED work
    \/ /\ _use_himem
       /\ _dma_mem_size' = size
       /\ UNCHANGED <<work, _dma_vbase, vars>>

_dma_init ==
    /\ ~loaded /\ loaded' = TRUE
    /\ IF _dma_mem_size = 0 THEN UNCHANGED <<work, _dma_vbase, _dma_mem_size, vars>>
       ELSE _alloc_mpool(_dma_mem_size, "init")
    /\ UNCHANGED <<pages, reserved, tag, run, _dma_seg, _use_himem>>

(* The user BDE asks for the pool: it is allocated, without blocks to be   *)
(* handed out by the kernel.  A system has kernel or user clients: nothing *)
(* was allocated before.                                                   *)
lkbde_get_dma_info ==
    /\ loaded /\ work.pc = "idle" /\ _dma_vbase = NULL /\ _dma_seg = {}
    /\ _alloc_mpool(IF _dma_mem_size = 0 THEN DMA_MEM_DEFAULT ELSE _dma_mem_size, "info")
    /\ UNCHANGED <<pages, reserved, tag, run, _dma_seg, _use_himem, loaded>>

(* _salloc and _sfree: from the pool, or a segment where kmalloc failed. *)
_salloc(size) ==
    /\ loaded /\ work.pc = "idle"
    /\ \/ /\ _dma_mem_size # 0
          /\ mpool_alloc(size)
          /\ UNCHANGED work
       \/ /\ _dma_mem_size = 0 /\ size \in SegSizes
          /\ SegmentAlloc(size, "salloc")
          /\ UNCHANGED vars
    /\ UNCHANGED <<pages, reserved, tag, run, _dma_seg, _dma_vbase, _dma_mem_size, _use_himem,
                   loaded>>

_pgfree(seg) ==
    /\ pages' = pages \cup seg.blks
    /\ reserved' = reserved \ seg.blks
    /\ _dma_seg' = _dma_seg \ {seg}

_sfree ==
    /\ work.pc = "idle"
    /\ \/ /\ _dma_mem_size # 0
          /\ \E n \in Blocks : mpool_free(node[n].address)
          /\ UNCHANGED <<pages, reserved, _dma_seg>>
       \/ /\ _dma_mem_size = 0
          /\ \E seg \in _dma_seg : _pgfree(seg)
          /\ UNCHANGED vars
    /\ UNCHANGED <<work, tag, run, _dma_vbase, _dma_mem_size, _use_himem, loaded>>

(* The module is unloaded: the pool and all segments are freed.  Without a *)
(* pool it frees nothing; its clients have given their segments back.      *)
_dma_cleanup ==
    /\ loaded /\ work.pc = "idle"
    /\ IF _dma_vbase = NULL
       THEN _dma_seg = {} /\ UNCHANGED <<pages, reserved, _dma_seg, vars>>
       ELSE /\ IF pool = NULL THEN UNCHANGED vars ELSE mpool_destroy
            /\ pages' = Memory /\ reserved' = {} /\ _dma_seg' = {}
    /\ _dma_vbase' = NULL /\ loaded' = FALSE
    /\ UNCHANGED <<work, tag, run, _dma_mem_size, _use_himem>>

DmaNext ==
    \/ _dma_init \/ lkbde_get_dma_info
    \/ GetBlock \/ NoBlock \/ WantMore \/ SegmentFound \/ SegmentTooShort
    \/ FindRun \/ FirstBlock \/ AdjacentBlock \/ NextPass \/ RunEnds \/ RunFound
    \/ \E size \in Sizes \cup SegSizes : _salloc(size)
    \/ _sfree \/ _dma_cleanup

DmaSpec == DmaInit /\ [][DmaNext]_<<memvars, vars>>

-----------------------------------------------------------------------------
(* The blocks that cover the addresses from b to e. *)
Run(b, e) == {a \in b .. e - 1 : a % DMA_BLOCK_SIZE = 0}

(* The assembly finds the longest run there is among the blocks it got, up *)
(* to what it needs, in whatever order the kernel gave them; and when the  *)
(* run is long enough, exactly its blocks are kept (_find_largest_segment).*)
LargestFound ==
    work.pc = "found" =>
        LET end == work.begin + work.size
        IN  /\ Run(work.begin, end) \subseteq Got
            /\ work.size < work.req + DMA_BLOCK_SIZE
            /\ work.size < work.req =>
                  \A a \in Got : ~(Run(a, a + work.size + DMA_BLOCK_SIZE) \subseteq Got)
            /\ work.size >= work.req => Largest = Run(work.begin, end)

(* No memory is lost and none is used twice: each block belongs to the     *)
(* kernel, to one segment in use, which is what is reserved, or to the one *)
(* being assembled; segments are contiguous; and a pool lies in memory     *)
(* that the driver has (_dma_segment_alloc, _pgfree, _alloc_mpool).        *)
MemoryOwned ==
    /\ Memory \ pages = reserved \cup Got
    /\ reserved = UNION {s.blks : s \in _dma_seg}
    /\ \A s \in _dma_seg : /\ s.blks = Run(s.begin, s.end)
                           /\ \A t \in _dma_seg \ {s} : s.blks \cap t.blks = {}
    /\ pool # NULL /\ ~_use_himem =>
           \E s \in _dma_seg : s.begin <= node[head].address /\ node[tail].address <= s.end

=============================================================================
