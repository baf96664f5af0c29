SPECIFICATION FairSpec
CONSTANTS
    Vendors = {polygon, alpaca}
    MaxCommands = 4
    MaxStale = 2
INVARIANT SignalOnItsWay
PROPERTY LoopFollows
CHECK_DEADLOCK FALSE
