CONSTANTS
    f1 = f1
    f2 = f2
    f3 = f3
    a = a
    b = b
    t1 = t1
    NoFiber = NoFiber
    NoStrand = NoStrand
    Fibers <- MCFibers
    Strands <- MCStrands
    Posted <- MCPosted
    Threads = {t1}
    Spawned <- MCSpawned
    Watched = a
    Pooled = {a}
SPECIFICATION Spec
INVARIANTS
    ActiveIsScheduledOnce
PROPERTIES
    FibersAreFifo
    EveryCallableFinishes
CHECK_DEADLOCK FALSE
