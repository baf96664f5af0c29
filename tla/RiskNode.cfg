SPECIFICATION Spec
CONSTANTS
    Threshold = 2
    Requests = {r1, r2}
    Symbols = {s1}
    OrderValues = {2, 3, 5}
    MaxCap = 4
    Margin = 5
    MaxUpdates = 3
    MaxFlushes = 1
    NoSymbol = NoSymbol
INVARIANTS MarginConserved ReservedOnce ApprovedWasClear CacheFollows
CHECK_DEADLOCK FALSE
