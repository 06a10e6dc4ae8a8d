CONSTANTS
    Capacity = 2
    Generations = 2
    Null = Null
    Names = {n1}
    k1 = k1
    k2 = k2
    Keys = {k1, k2}
    MaxDatabases = 1
    MaxTransactions = 2
    MaxTables = 2
    MaxCursors = 1
    NoTree = NoTree
    Unclear = Unclear
    MaxCalls = 10
SPECIFICATION Spec
SYMMETRY Symmetry
CHECK_DEADLOCK FALSE
INVARIANTS
    ChildrenBelongToLiveParents
    FreeListsIntact
    DroppedHandlesStayDead
    CommittedIsWhatWasWritten
