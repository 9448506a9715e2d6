SPECIFICATION ServerSpec
CONSTANTS
    Request = {r1, r2}
    Owner = {o1, o2}
    Handle = {h1}
    c1 = c1
    c2 = c2
    c3 = c3
    s1 = s1
    m1 = m1
    a1 = a1
    CommitId = {c1, c2, c3}
    Blob = {s1, m1, a1}
    Manifest = {m1}
    Entries <- MCEntries
    Content <- MCContent
    None = None
INVARIANTS LiveIsDurable CommitsAreServed OnlyOwnUploads
PROPERTIES ServedIsKept
SYMMETRY Symmetry
