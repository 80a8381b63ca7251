CONSTANTS
    NumPaths = 2
    Window = 1
    Faults = {"loss", "corrupt", "dial", "readyTimeout", "drainTimeout"}
    TotalSize = 3
    ChunkSize = 2
    MaxPerPath = 4
    Schedulers = {"redundant", "rtt-aware"}
    QueueCap = 1
SPECIFICATION Spec
INVARIANTS
    AckProvesDelivery
    AllAckedMeansIntact
    OneGoodPathIsEnough
PROPERTY ClientIsAProperPeer
