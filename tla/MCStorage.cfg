\* Three machines put one object; one control file of three values.
CONSTANTS
    Writer = {w1, w2, w3}
    Inode = {i1, i2, i3, i4, i5}
    NoFile = NoFile
    Value = {v1, v2, v3}
    None = None
SPECIFICATION StorageSpec
INVARIANTS
    TornIsBeingWritten
    ReadIsFresh
PROPERTIES
    TornHeals
    ReplaceIsAtomic
