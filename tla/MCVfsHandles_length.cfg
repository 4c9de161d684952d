CONSTANTS
    h1 = h1
    h2 = h2
    h3 = h3
    r1 = r1
    r2 = r2
    r3 = r3
    Handles <- ThreeHandles
    Number <- Numbers
    Modes <- TwoModes
    Opened <- TwoOpened
    Requests <- ThreeRequests
    Kinds <- AllKinds
    Ends <- SomeEnds
    Sizes <- ToZero
    Faults = FALSE
SPECIFICATION Spec
INVARIANTS ReadersKnowLength
CHECK_DEADLOCK FALSE
