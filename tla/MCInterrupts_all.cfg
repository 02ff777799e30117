\* Both interrupt modes of KNET, both kinds of CMIC, quiet base device stop.
CONSTANTS
    Budget = 2
    MAX_WORK = 3
    MAX_EVENTS = 3
    MAX_INITS = 1
    QuietStop = TRUE
SPECIFICATION FairSpec
INVARIANT MaskRestored
PROPERTIES PacketsTaken UserServed
