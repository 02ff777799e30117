\* Two devices that post events, or one API channel with two chains.
CONSTANTS
    UNITS = 2
    Configs <- MCConfigs
    SetUpFirst = TRUE
    MAX_AHEAD = 1
    Chains = {c1, c2}
    DCB_CNT = 2
    RECORDS = 2
    rx_sync_retry = 1
    basedev_suspend = TRUE
    MAX_RESETS = 1
SPECIFICATION ApiFairSpec
INVARIANTS EventToOwner ChainsKept HwOnActiveChain NoDcbLost
PROPERTIES EventTaken DcbReturned
