CONSTANTS
    f1 = f1
    f2 = f2
    f3 = f3
    s1 = s1
    s2 = s2
    m1 = m1
    m2 = m2
    NoFiber = NoFiber
    Fibers <- MCFibers
    Scheds <- MCScheds
    Home <- MCHome
    Interruptible = {s1}
    Mutexes <- MCMutexes
    Timestamp <- MCTimestamp
    Order <- SameOrder
SPECIFICATION Spec
INVARIANTS
    OwnerAndTimestampAgree
PROPERTIES
    EveryTransactionCommits
CHECK_DEADLOCK FALSE
