CONSTANTS
    NumPaths = 2
    TotalSize = 3
    ChunkSize = 2
    NumBursts = 1
    Faults = {"signal"}
SPECIFICATION FairSpec
PROPERTIES
    BurstsDontLinger
    SweepEnds
    EveryArrivalReported
CHECK_DEADLOCK FALSE
