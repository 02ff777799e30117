\* Two switches with two MSI-X vectors, the SDK and KNET; two instances and a
\* pool for both of them or for one.
CONSTANTS
    LINUX_BDE_MAX_DEVICES = 2
    NDEVICES = 1
    Vectors = {1, 2}
    Callers = {"user", "knet"}
    Instances <- MCInstances
    DmaSize <- MCDmaSize
    PoolSizes = {2, 3}
SPECIFICATION MCSpec
INVARIANTS HandlerInstalled RangesDisjoint InstanceServed
