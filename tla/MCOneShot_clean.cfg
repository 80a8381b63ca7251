CONSTANTS
    NumPaths = 2
    Window = 1
    Faults = {}
    TotalSize = 7
    ChunkSize = 2
    MaxPerPath = 4
    Schedulers = {"roundrobin", "redundant", "rtt-aware"}
    QueueCap = 2
SPECIFICATION FairSpec
INVARIANTS
    CleanExit
PROPERTIES
    TransferSucceeds
