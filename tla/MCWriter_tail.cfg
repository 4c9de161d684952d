CONSTANTS
    c1 = c1
    c2 = c2
    BlockSize = 2
    ChunkSize = 4
    Clients <- OneClient
    Chunks <- OneChunk
    WriterLimit = 1000
    EarlyFlush = 3
    Plans <- UnalignedOnce
SPECIFICATION Spec
INVARIANT FlushedIsReadable
CHECK_DEADLOCK FALSE
