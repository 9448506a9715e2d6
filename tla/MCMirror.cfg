\* The primary, a folder and a server as mirrors, three commits of which the
\* second names a project summary, two faults.
CONSTANTS
    Primary = primary
    Provider = {primary, folder, server}
    Server = {server}
    MaxCommit = 3
    WithInfo = {2}
    MaxFaults = 2
SPECIFICATION FairMirrorSpec
INVARIANTS
    Servable
    UndeliveredIsQueued
PROPERTIES
    FoldersCatchUp
CHECK_DEADLOCK FALSE
