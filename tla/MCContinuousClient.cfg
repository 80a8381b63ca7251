CONSTANTS
    NumPaths = 2
    Window = 1
    Faults = {"loss", "drainTimeout"}
    Schedulers = {"roundrobin", "redundant"}
    QueueCap = 1
    MinSize = 2
    MaxSize = 3
    ChunkSize = 2
    Intervals = {0, 1}
    MaxBursts = 2
    MaxSamples = 1
SPECIFICATION FairSpec
INVARIANTS
    RowsExact
    CompleteIsExact
    InBurstOrder
    AckEndsTheSession
    RTTFileComplete
PROPERTIES
    StopsWhenTold
CHECK_DEADLOCK FALSE
