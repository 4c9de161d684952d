CONSTANTS
    k1 = k1
    k2 = k2
    s1 = s1
    Keys <- MCKeys
    Slices <- MCSlices
    SliceOf <- MCSliceOf
    MaxStage = 1
SPECIFICATION FairSpec
INVARIANTS NoAckedBlockLost FlushedIsRemote ReaderNeverLoses SpaceAccounted
PROPERTIES ImplementsBlockDurability RecoveredBlocksMigrate PressureFlagReleased
