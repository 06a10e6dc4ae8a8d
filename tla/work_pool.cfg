CONSTANTS
    f1 = f1
    f2 = f2
    t1 = t1
    c1 = c1
    c2 = c2
    c3 = c3
    c4 = c4
    c5 = c5
    None = None
    Slots = {s1}
    HeapLimit = 1
    Spawned = {f1, f2}
    Threads = {t1}
    Callables <- MCCallables
    PostedBy <- MCPostedBy
    Policies = {"fail", "heap", "block"}
    MayStop = TRUE
SPECIFICATION Spec
INVARIANTS
    ItemsAccountedFor
    FreedSlotIsOffered
PROPERTIES
    EveryPostEnds
    PostedRuns
CHECK_DEADLOCK FALSE
