CONSTANTS
    f1 = f1
    f2 = f2
    f3 = f3
    s1 = s1
    s2 = s2
    p1 = p1
    p2 = p2
    p3 = p3
    NoFiber = NoFiber
    Fulfilled = Fulfilled
    Fibers <- MCFibers
    Scheds <- MCScheds
    Home <- MCHome
    Interruptible = {s2}
    Promises <- MCPromises
    PromiseOf <- OwnPromise
    Shared = {p2}
SPECIFICATION Spec
INVARIANTS
    GetSeesOutcome
    ProducerTouchesLivePromise
PROPERTIES
    EveryCallReturns
CHECK_DEADLOCK FALSE
