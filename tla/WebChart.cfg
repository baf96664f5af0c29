SPECIFICATION Spec
CONSTANTS
    Keys = {"A", "B"}
    NoKey = "_"
    Intervals = {"15m", "1d"}
    Versions = {0, 1, 2}
    Widths = {400, 1000}
    Height = 380
    ShieldX <- MCShieldX
    ShieldY <- MCShieldY
    MaxEvents = 5
INVARIANTS DrawnIsCurrent ChartFillsContainer CardInside
PROPERTIES  UserViewKept
CHECK_DEADLOCK FALSE
