CONSTANTS
    c1 = c1
    BlockSize = 2
    ChunkSize = 4
    Clients <- OneClient
    Chunks <- TwoChunks
    Extents <- AcrossExtents
    Reads <- SomeReads
    MaxCommits = 3
SPECIFICATION Spec
INVARIANTS ReadsLastWriter
