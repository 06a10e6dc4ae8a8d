CONSTANTS
    f1 = f1
    f2 = f2
    f3 = f3
    s1 = s1
    s2 = s2
    NoFiber = NoFiber
    Fibers <- MCFibers
    Scheds <- MCScheds
    Home <- MCHome
    Interruptible = {s1}
SPECIFICATION Spec
INVARIANTS
    MutualExclusion
    HandoffReachesOwner
PROPERTIES
    LockIsGranted
    ShutdownCompletes
    ImplementsFifoLock
CHECK_DEADLOCK FALSE
