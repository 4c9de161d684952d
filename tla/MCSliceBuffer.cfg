CONSTANTS
    b1 = b1
    b2 = b2
    t1 = t1
    m1 = m1
    m2 = m2
    d1 = d1
    PageSize = 2
    BlockSize = 4
    ChunkSize = 8
    Buffers <- TwoBuffers
    MemPages <- TwoMem
    DiskPages <- OneDisk
    Takers <- OneTaker
    WriteSizes <- Sizes
    MaxWrites = 3
    Sinks <- BothSinks
    MaxGap = 0
SYMMETRY Swap
SPECIFICATION Spec
INVARIANTS PagesConserved CountCoversPages ReadsBack
