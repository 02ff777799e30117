\* One DMA channel, default module parameters; resets between polls.
CONSTANTS
    MAX_TX_DCBS = 4
    Skbs = {s1, s2, s3, s4}
    TsSkbs = {}
    NoSkb = NoSkb
    Netifs = {n1, n2}
    basedev_suspend = FALSE
    ResetRaces = FALSE
    MAX_API_CHAINS = 1
    MAX_RESETS = 1
SYMMETRY Symmetry
SPECIFICATION Spec
INVARIANTS SkbOwnership HwOnLiveDcb NoLostCompletion NoLostWakeup
PROPERTY SentInOrder
