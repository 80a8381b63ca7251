CONSTANTS
    NumPaths = 2
    Window = 1
    Faults = {"loss", "readyTimeout"}
    TotalSize = 3
    ChunkSize = 2
    MaxPerPath = 4
    Schedulers = {"roundrobin"}
    QueueCap = 1
SPECIFICATION FairSpec
PROPERTIES
    BothSidesReport
