CONSTANTS
    NumPaths = 2
    TotalSize = 3
    ChunkSize = 2
    NumBursts = 1
    Faults = {"corrupt", "signal"}
SPECIFICATION Spec
INVARIANTS
    EveryArrivalAccounted
    BytesCreditedOnce
    NothingLeftBehind
CHECK_DEADLOCK FALSE
