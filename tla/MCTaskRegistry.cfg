CONSTANTS
    s1 = s1
    s2 = s2
    s3 = s3
    Free = Free
    Spawns <- MCSpawns
SPECIFICATION RegistryFairSpec
INVARIANTS DrainMissesNoTask WaitMeansQuiet
PROPERTY DrainCompletes
CHECK_DEADLOCK FALSE
