\* Two restores of a version of two files, beside a folder of two files.
\* A project on this computer and one elsewhere, one label, two saves in
\* flight, five events.
CONSTANTS
    Task = {a, b}
    VersionFile = {"project", "sample"}
    MineFile = {"project", "notes"}
    ProjectFile = "project"
    MaxCopy = 2
    MaxFaults = 2
    Local = {p}
    Remote = {q}
    Label = {x}
    NoLabel = NoLabel
    Saver = {s1, s2}
    MaxEvents = 5
SPECIFICATION LibrarySpec
CHECK_DEADLOCK FALSE
SYMMETRY Exchangeable
INVARIANTS
    OldWorkSafe
    EnrolledIsWhole
    RestoringHasTask
    LabelsStay
