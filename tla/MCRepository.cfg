SPECIFICATION RepoSpec
CONSTANTS
    Client = {d1}
    CommitId = {c1, c2}
    m1 = m1
    Snapshot = {s1, s2}
    Manifest = {m1}
    Asset = {}
    Info = {}
    Entries <- MCEntries
    None = None
    Roots <- MCRoots
    Grace = 1
    MaxTime = 1
    MaxParents = 1
INVARIANTS TypeOK HeadWhole LinearHistoryWhole
PROPERTIES KeptVersionsStay KeepsPromise
CHECK_DEADLOCK FALSE
SYMMETRY Symmetry
