CONSTANTS
    NumPaths = 3
    Schedulers = {"roundrobin", "redundant", "rtt-aware"}
    RTTs = {0, 1, 2}
    MaxChunks = 3
    TotalSize = 13
    ChunkSize = 2
SPECIFICATION PartsSpec
INVARIANTS
    Level
    ReassemblerTypeOK
    CountersExact
    CompleteMeansPayload
PROPERTY NeverOnASlowerPath
