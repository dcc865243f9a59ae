SPECIFICATION FairSpec
CONSTANTS
    Kind <- MCKind
    ChunkLens <- MCChunkLens
    WinLen = 3
    ChunkDepth = 1
    FrameIds = 3
    FrameRing = 1
    TeleRing = 1
    MaxChanges = 1
CHECK_DEADLOCK FALSE
INVARIANTS
    OnlyLeadingSpill
    FramesLossless
    ChangesAnnounced
PROPERTY StoppedWorkerEnds
