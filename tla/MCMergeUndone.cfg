CONSTANTS
    Machine = {a, b}
    Format = {"auru", "ableton"}
    TrackId = {"t", "u]"}
    Bracketed = {"u]"}
    Level = {soft, loud, mute}
    MaxEdits = 3
    MaxCommits = 4
    Byte = {0, 2, 64, 130, 196, 200, 216}
    MaxBody = 1
    XmlEvent <- MCXmlEvent
    MaxXml = 1
    Markup = {"<"}
    Path = {"project.xml", "metadata.xml", "a", "../a"}
    EntryXml <- MCEntryXml
    UnsafePath = {"../a"}
    Bytes = {"x", "y"}
    Name = {"k", "s"}
    Kind = {"auru"}
    Refs = 2
    Aliased = TRUE
    Daw = {"auru", "ableton", "dawproject", "flstudio", "bitwig"}
    Label = {"x", "y"}
    MaxRows = 3
    MaxSaves = 1
SPECIFICATION KernelSpec
SYMMETRY Exchangeable
CHECK_DEADLOCK FALSE
INVARIANT
    UneditedPushKeepsHead
