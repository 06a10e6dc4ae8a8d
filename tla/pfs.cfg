CONSTANTS
    small = small
    large = large
    r1 = r1
    r2 = r2
    None = None
    Contents = {small, large}
    Size <- MCSize
    chunk_size = 2
    Roots = {r1}
    RootForCid <- OneRoot
    RootForBlock <- BlocksInOneRoot
    MaxSeq = 6
    Tenants = {t1, t2}
    Paths = {p}
    Dirs = {d}
    Limits = {0, 3}
    Threads = {x1, x2}
    MaxCalls = 5
    MayRestart = TRUE
    t1 = t1
    t2 = t2
    x1 = x1
    x2 = x2
SYMMETRY Symmetry
SPECIFICATION Spec
INVARIANTS
    NoDanglingReference
    QuotaCoversFiles
    BlocksBelongToEntries
    ReadsAreFaithful
