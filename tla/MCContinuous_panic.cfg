CONSTANTS
    NumPaths = 2
    TotalSize = 3
    ChunkSize = 2
    NumBursts = 1
    Faults = {"signal"}
SPECIFICATION Spec
INVARIANTS
    ShutsDownGracefully
CHECK_DEADLOCK FALSE
