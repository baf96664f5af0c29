SPECIFICATION FairSpec
CONSTANTS
    MaxSockets = 3
    MaxEvents = 4
    MaxRunning = 2
INVARIANTS CommandLinkKept HaltReachesEMS DisplaySettles
PROPERTY LinkRestored
CHECK_DEADLOCK FALSE
