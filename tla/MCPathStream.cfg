CONSTANTS
    Base = 4
    W16 = 1
    W32 = 1
    W64 = 2
    W128 = 1
    Sizes = {0, 1, 2, 3, 4, 5, 6, 8}
    ChunkSizes = {0, 1, 2, 3, 4, 6}
    BurstSizes <- MCBurstSizes
    Transfers <- MCTransfers
    PathIndexes = {0, 1}
    MaxChunks = 9
    Buffer = 6
SPECIFICATION FairSpec
INVARIANTS
    FramesFaithful
    EOFMeansAll
    SidesAgree
PROPERTIES
    PayloadArrives
CHECK_DEADLOCK FALSE
