----------------------------- MODULE MCKernel ------------------------------
\* Model-checking instance of the kernel.  Merging, reading and writing of
\* project files, assets and comparisons share no state: each behaviour is
\* about one of them, and the others rest.
EXTENDS Merge, Formats, Assets, Diff

VARIABLE subject

kernelVars == <<subject, mergeVars, formatVars, assetVars, diffVars>>

MergeRests ==
    /\ format = "none" /\ file = <<>> /\ edited = <<>> /\ base = <<>>
    /\ question = <<>> /\ history = <<>> /\ edits = 0

FormatsRest ==
    /\ project = NoFile /\ snap = NoSnapshot /\ held = <<>>
    /\ blobs = {} /\ restored = NoFile

AssetsRest ==
    /\ kind = "none" /\ refs = <<>> /\ disk = {} /\ skipped = {} /\ twins = FALSE
    /\ plan = NoPlan /\ manifest = NoManifest /\ unavailable = {} /\ lost = {}
    /\ opened = NotRestored

DiffRests ==
    /\ daw = "none" /\ before = <<>> /\ after = <<>> /\ saves = 0 /\ shown = NoDiff

KernelInit ==
    \/ subject = "merge" /\ MergeInit /\ FormatsRest /\ AssetsRest /\ DiffRests
    \/ subject = "formats" /\ MergeRests /\ FormatInit /\ AssetsRest /\ DiffRests
    \/ subject = "assets" /\ MergeRests /\ FormatsRest /\ AssetInit /\ DiffRests
    \/ subject = "diff" /\ MergeRests /\ FormatsRest /\ AssetsRest /\ DiffInit

KernelNext ==
    \/ subject = "merge" /\ MergeNext /\ UNCHANGED <<subject, formatVars, assetVars, diffVars>>
    \/ subject = "formats" /\ FormatNext /\ UNCHANGED <<subject, mergeVars, assetVars, diffVars>>
    \/ subject = "assets" /\ AssetNext /\ UNCHANGED <<subject, mergeVars, formatVars, diffVars>>
    \/ subject = "diff" /\ DiffNext /\ UNCHANGED <<subject, mergeVars, formatVars, assetVars>>

KernelSpec == KernelInit /\ [][KernelNext]_kernelVars

\* Events of an XML reader: tags, blank and other text, CDATA, comments with
\* and without markup characters, a declaration or instruction.
Opens == [ev |-> "start", tag |-> "t"]
Closes == [ev |-> "end", tag |-> "t"]
Text(words) == [ev |-> "text", words |-> words]
Comment(word) == [ev |-> "comment", word |-> word, escapes |-> 0]
Other == [ev |-> "other"]

MCXmlEvent ==
    {Opens, [ev |-> "empty", tag |-> "t"], Closes, Text(<<>>), Text(<<"w">>),
     [ev |-> "cdata", word |-> "w"], Comment("w"), Comment("<"), Other}

\* Contents of an archive's XML entries: two documents, and one that is refused.
MCEntryXml ==
    {<<Opens, Text(<<"w">>), Other, Text(<<"v">>), Closes>>,
     <<Other, Opens, Comment("<"), Closes>>, <<Opens>>}

Exchangeable == Permutations(Machine) \cup Permutations(Level)
=============================================================================
