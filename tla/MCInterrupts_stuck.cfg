\* The base device is stopped while packets arrive.
CONSTANTS
    Budget = 2
    MAX_WORK = 3
    MAX_EVENTS = 3
    MAX_INITS = 1
    QuietStop = FALSE
SPECIFICATION Spec
INVARIANT PollModeHasPoll
