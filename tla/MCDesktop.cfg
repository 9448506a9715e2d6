\* One project, two background tasks, two saves, two commits, one fault.
CONSTANTS
    Project = {p}
    Slot = {1, 2}
    MaxSave = 2
    MaxCommit = 2
    MaxFaults = 1
SPECIFICATION FairDesktopSpec
INVARIANTS
    SyncingHasTransfer
PROPERTIES
    PublishedOnce
    SyncingEnds
    SaveIsHandedOver
