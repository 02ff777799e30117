\* A pool of four to six cache lines in two or three blocks, or no pool.
CONSTANTS
    LINE = 2
    BUF_SIZE = 3
    BUF_MAX = 2
    NULL = NULL
    Ranges <- MCRanges
    Sizes = {0, 1, 2, 3, 4, 6, 7}
    DMA_BLOCK_SIZE = 4
    Memory <- MCMemory
    blk_cnt_max = 6
    MORE_BLKS = 2
    DmaSizes = {0, 8, 12}
    SegSizes = {6, 16}
    DMA_MEM_DEFAULT = 8
SPECIFICATION DmaSpec
INVARIANTS BlocksDisjoint FindsGap LargestFound MemoryOwned
PROPERTY ImplementsPool
