SPECIFICATION CasSpec
CONSTANTS
    Writer = {w1, w2}
    Inode = {i1, i2, i3, i4}
    NoFile = NoFile
INVARIANT PutIsAtomic
