CONSTANTS
    h1 = h1
    Text <- TextOf
    Utf8 <- ValidUtf8
    Order <- ByteOrder
    NameLen <- Lengths
    MaxNameLength = 3
    Internal <- InternalNames
    Control = "control"
    Dot = "dot"
    Plans <- AllPlans
    Handles <- OneHandle
    MaxInodes = 3
    MaxRestarts = 1
    CounterValues = 8
    BlockUnits = 2
    Capacity = 3
SPECIFICATION NamesSpec
INVARIANTS ListingExact KernelViewHolds StatfsFigures
