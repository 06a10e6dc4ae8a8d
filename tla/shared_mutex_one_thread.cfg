CONSTANTS
    f1 = f1
    f2 = f2
    f3 = f3
    s1 = s1
    s2 = s2
    NoFiber = NoFiber
    Fibers <- MCFibers
    Scheds <- OneSched
    Home <- OnOneThread
    Interruptible = {}
    TryClients = {}
SPECIFICATION Spec
INVARIANTS
    WritersExclusive
    NobodyWaitsForAFreeMutex
PROPERTIES
    WaitersGetIn
