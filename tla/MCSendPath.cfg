CONSTANTS
    NumPaths = 2
    MaxDatagram = 3
    WindowFactor = 1
    CubicWindows = {1, 2}
    CCSpecs <- MCCCSpecs
    Shares <- MCShares
    DataLen = 2
    FrameLen = 3
    MaxLosses = 2
SPECIFICATION FairSpec
INVARIANTS
    InFlightBounded
    CountsAheadByAWindow
PROPERTIES
    ProgressGrows
    GetsThrough
CHECK_DEADLOCK FALSE
