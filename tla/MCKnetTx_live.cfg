\* Liveness with traffic paused while the base device is down, PTP timestamps,
\* and a reset at any point, do_dma included.
CONSTANTS
    MAX_TX_DCBS = 3
    Skbs = {s1, s2}
    TsSkbs = {s1}
    NoSkb = NoSkb
    Netifs = {n1}
    basedev_suspend = TRUE
    ResetRaces = TRUE
    MAX_API_CHAINS = 1
    MAX_RESETS = 1
SPECIFICATION FairSpec
PROPERTIES RingDrains QueueRestarted ApiChainServed
