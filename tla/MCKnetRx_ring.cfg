\* One channel; memory and token shortages, resets between DMA handlers.
CONSTANTS
    MAX_RX_DCBS = 3
    burst_max = 4
    TOKENS_PER_TICK = 2
    Budgets = {1, 3}
    rx_sync_retry = 1
    basedev_suspend = TRUE
    ResetRaces = FALSE
    QuietReset = TRUE
    MAX_RESETS = 2
    MAX_SHORTAGES = 1
SPECIFICATION FairSpec
INVARIANTS BufferOwned HwOnFilledDcb
PROPERTIES DeliveryUndisturbed ReceivedInOrder RxRestarted RxTaken
