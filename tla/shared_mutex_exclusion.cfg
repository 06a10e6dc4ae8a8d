CONSTANTS
    f1 = f1
    f2 = f2
    f3 = f3
    s1 = s1
    s2 = s2
    NoFiber = NoFiber
    Fibers <- MCFibers
    Scheds <- TwoScheds
    Home <- OnTwoThreads
    Interruptible = {}
    TryClients <- MCFibers
SPECIFICATION Spec
INVARIANTS
    WritersExclusive
