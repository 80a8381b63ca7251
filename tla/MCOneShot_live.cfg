CONSTANTS
    NumPaths = 2
    Window = 1
    Faults = {"loss", "dial", "readyTimeout", "drainTimeout"}
    TotalSize = 3
    ChunkSize = 1
    MaxPerPath = 3
    Schedulers = {"redundant"}
    QueueCap = 1
SPECIFICATION FairSpec
PROPERTIES
    ClientEnds
    JoinedSessionReports
