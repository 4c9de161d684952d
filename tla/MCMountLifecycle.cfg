CONSTANTS
    o1 = o1
    o2 = o2
    t1 = t1
    Ops <- TwoOps
    MountTasks <- OneTask
    Backends = {"fbr", "fuser"}
    Policies = {"local", "remote"}
SPECIFICATION LifecycleFairSpec
INVARIANTS
    QuietAfterDrain
    WakeupPending
    CleanExitKeepsWrites
    ReadyIsTruthful
PROPERTY SignalEndsProcess
CHECK_DEADLOCK FALSE
