CONSTANTS
    f1 = f1
    f2 = f2
    f3 = f3
    NoFiber = NoFiber
    Registered <- ThreeFibers
    Priority <- ByPriority
    Daemons = {f3}
    Sleepers = {f3}
    Parkers = {f1, f2}
    MayStop = TRUE
    lifo_cap = 2
SPECIFICATION Spec
INVARIANTS
    ScheduledOnce
    NoWakeIsLost
PROPERTIES
    ImplementsKernel
    InterruptEndsRun
CHECK_DEADLOCK FALSE
