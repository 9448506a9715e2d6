SPECIFICATION SyncSpec
CONSTANTS
    Client = {d1, d2}
    CommitId = {c1, c2, c3}
    m1 = m1
    Snapshot = {s1, s2}
    Manifest = {m1}
    Asset = {}
    Info = {}
    Entries <- MCEntries
    Roots <- NoRoots
    None = None
    Grace = 1
    MaxTime = 1
    MaxParents = 2
INVARIANT StashIsReachable
CHECK_DEADLOCK FALSE
SYMMETRY Machines
