CONSTANTS
    NumPaths = 2
    Window = 1
    Faults = {"loss", "corrupt", "readyTimeout"}
    TotalSize = 3
    ChunkSize = 2
    MaxPerPath = 2
SPECIFICATION ServerSpec
INVARIANTS
    ServerTypeOK
    WgCountsUnfinished
    OneRowPerPath
    ResultCoversEveryPath
    IntegrityOKIsSound
PROPERTIES
    FrozenAfterResult
    KeepsItsPromise
CHECK_DEADLOCK FALSE
