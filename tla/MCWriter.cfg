CONSTANTS
    c1 = c1
    c2 = c2
    BlockSize = 2
    ChunkSize = 4
    Clients <- TwoClients
    Chunks <- TwoChunks
    WriterLimit = 1000
    EarlyFlush = 0
    Plans <- Both
SPECIFICATION FairSpec
INVARIANTS OneOwner FlushedIsReadable FsyncIsRemote
PROPERTY FinishReturns
CHECK_DEADLOCK FALSE
