\* The user's mask on a CMIC.
CONSTANTS
    Budget = 2
    MAX_WORK = 3
    MAX_EVENTS = 3
    MAX_INITS = 1
    QuietStop = TRUE
SPECIFICATION FairSpec
PROPERTY UserServedAlways
