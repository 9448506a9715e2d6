CONSTANTS
    Machine = {a, b}
    Format = {"auru", "ableton"}
    TrackId = {"t", "u]"}
    Bracketed = {"u]"}
    Level = {soft, loud, mute}
    MaxEdits = 3
    MaxCommits = 4
    Byte = {0, 2, 64, 130, 196, 200, 216}
    MaxBody = 4
    XmlEvent <- MCXmlEvent
    MaxXml = 4
    Markup = {"<"}
    Path = {"project.xml", "metadata.xml", "a", "../a"}
    EntryXml <- MCEntryXml
    UnsafePath = {"../a"}
    Bytes = {"x", "y"}
    Name = {"k", "s"}
    Kind = {"ableton", "flstudio", "auru"}
    Refs = 2
    Aliased = TRUE
    Daw = {"auru", "ableton", "dawproject", "flstudio", "bitwig"}
    Label = {"x", "y"}
    MaxRows = 3
    MaxSaves = 3
SPECIFICATION KernelSpec
SYMMETRY Exchangeable
CHECK_DEADLOCK FALSE
INVARIANTS
    LandedIsCoherent
    ResolvedAsShown
    OneSidedChangesKept
    RestoredIsSaved
    CarriedOrReported
    DiffIsHonest
