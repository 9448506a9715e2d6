SPECIFICATION FairSync
CONSTANTS
    Client = {d1, d2}
    CommitId = {c1, c2, c3}
    m1 = m1
    Snapshot = {s1}
    Manifest = {m1}
    Asset = {a1}
    Info = {}
    Entries <- MCEntries
    Roots <- NoRoots
    None = None
    Grace = 1
    MaxTime = 0
    MaxParents = 2
PROPERTIES PushEnds
CHECK_DEADLOCK FALSE
