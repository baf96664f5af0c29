SPECIFICATION FairSpec
CONSTANTS
    Threshold = 3
    Callers = {c1, c2, c3}
    MaxOutages = 2
    MaxFailures = 5
INVARIANT ClosedBelowThreshold
PROPERTY BreakerRecovers
