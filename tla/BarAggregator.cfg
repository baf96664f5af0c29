SPECIFICATION Spec
CONSTANTS
    Symbols = {s1, s2}
    Times = {1, 2, 3, 4, 8}
    Prices = {1, 2}
    Sizes = {1}
    WindowSize = 4
    Watermark = 2
    Capacity = 1
    MaxTicks = 4
    MaxSendFailures = 1
    NoTick = NoTick
    NoBar = NoBar
INVARIANTS BarsOrdered BarsExact TicksKept
CHECK_DEADLOCK FALSE
