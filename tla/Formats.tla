------------------------------ MODULE Formats ------------------------------
(***************************************************************************)
(* Project files and their canonical snapshots                             *)
(* (auru-pm-kernel/src/project_format.rs, flstudio/events.rs and tree.rs,  *)
(* dawproject/mod.rs): a file is read into a snapshot, pushed, fetched     *)
(* again, hydrated with the resources the provider still has, and written  *)
(* back as a file.                                                         *)
(*                                                                         *)
(* FL Studio files are bytes; XML is the sequence of events its reader     *)
(* yields, with text unescaped and comments as they stand; an archive is a *)
(* sequence of named entries.  Hashes, gzip, zip and base64 are one to one *)
(* and left out, and so is the escaping of text, which reading undoes.     *)
(***************************************************************************)
EXTENDS Integers, SequencesExt, FiniteSetsExt

CONSTANTS
    Byte,        \* bytes an FL Studio event stream is made of
    MaxBody,     \* bound on its length
    XmlEvent,    \* events an XML reader yields
    MaxXml,      \* bound on their number
    Markup,      \* words that hold one of the characters & < > ' "
    Path,        \* names of archive entries
    UnsafePath,  \* those that are not plain relative paths
    EntryXml,    \* contents of an archive's XML entries, as events
    Bytes        \* contents of its other entries and of opaque files

VARIABLES
    project,   \* the project file
    snap,      \* its canonical snapshot, NoSnapshot before it is taken
    held,      \* path -> content: detached resources in memory
    blobs,     \* contents the provider has
    restored   \* the file written back, NoFile before

formatVars == <<project, snap, held, blobs, restored>>

Refused == [refused |-> TRUE]
NoSnapshot == [none |-> TRUE]
NoFile == [none |-> TRUE]

(***************************************************************************)
(* FL Studio: the length of an event follows from its identifier.          *)
(***************************************************************************)
FixedLen(id) ==
    IF id < 64 THEN 1 ELSE IF id < 128 THEN 2 ELSE IF id < 192 THEN 4 ELSE -1

IsVariable(id) == id >= 192

\* The length prefix at the start of s: the value and the bytes it took.
\* More than five groups, or none that ends, is refused.
RECURSIVE ReadVarint(_, _)
ReadVarint(s, group) ==
    IF s = <<>> \/ group > 4 THEN Refused
    ELSE IF Head(s) < 128 THEN [value |-> Head(s), size |-> 1]
         ELSE LET rest == ReadVarint(Tail(s), group + 1)
              IN  IF rest = Refused THEN Refused
                  ELSE [value |-> (Head(s) - 128) + 128 * rest.value,
                        size |-> rest.size + 1]

RECURSIVE WriteVarint(_)
WriteVarint(n) ==
    IF n < 128 THEN <<n>> ELSE <<(n % 128) + 128>> \o WriteVarint(n \div 128)

\* The answer of decode_events to a stream it cannot read.
RefusedEvents == <<[id |-> -1, payload |-> <<>>]>>

RECURSIVE DecodeEvents(_)
DecodeEvents(body) ==
    IF body = <<>> THEN <<>>
    ELSE LET id   == Head(body)
             rest == Tail(body)
             size == IF IsVariable(id) THEN ReadVarint(rest, 0)
                     ELSE [value |-> FixedLen(id), size |-> 0]
         IN  IF size = Refused THEN RefusedEvents
             ELSE IF Len(rest) < size.size + size.value THEN RefusedEvents
             ELSE LET from  == size.size + 1
                      to    == size.size + size.value
                      after == DecodeEvents(SubSeq(rest, to + 1, Len(rest)))
                  IN  IF after = RefusedEvents THEN RefusedEvents
                      ELSE <<[id |-> id, payload |-> SubSeq(rest, from, to)]>> \o after

EncodeEvent(e) ==
    <<e.id>> \o (IF IsVariable(e.id) THEN WriteVarint(Len(e.payload)) ELSE <<>>)
             \o e.payload

EncodeEvents(events) == FlattenSeq([i \in DOMAIN events |-> EncodeEvent(events[i])])

\* The payload of a fixed-width event as a number, lowest byte first, and
\* back.
AsNumber(payload) ==
    FoldRight(LAMBDA b, n : b + 256 * n, payload, 0)

NumberBytes(n, width) == [i \in 1..width |-> (n \div (256 ^ (i - 1))) % 256]

\* Text up to the first terminator, as a sequence of code units.
UntilZero(units) ==
    LET zeros == {i \in DOMAIN units : units[i] = 0}
    IN  IF zeros = {} THEN units ELSE SubSeq(units, 1, Min(zeros) - 1)

DecodeAscii(payload) == UntilZero(payload)

Units(payload) ==
    [i \in 1..(Len(payload) \div 2) |-> payload[2 * i - 1] + 256 * payload[2 * i]]

High(u) == u \in 55296..56319
Low(u) == u \in 56320..57343

\* from_utf16_lossy: a surrogate without its partner becomes U+FFFD.
DecodeUtf16(payload) ==
    LET u == UntilZero(Units(payload))
        paired(i) == \/ High(u[i]) /\ i < Len(u) /\ Low(u[i + 1])
                     \/ Low(u[i]) /\ i > 1 /\ High(u[i - 1])
    IN  [i \in DOMAIN u |->
            IF (High(u[i]) \/ Low(u[i])) /\ ~paired(i) THEN 65533 ELSE u[i]]

EncodeText(text, enc) ==
    IF enc = "ascii" THEN Append(text, 0)
    ELSE FlattenSeq([i \in DOMAIN text |-> NumberBytes(text[i], 2)]) \o <<0, 0>>

TextEvents == {193, 194, 195, 196, 197, 199, 200, 201, 202, 203, 204, 205, 206, 207}
VersionEvent == 199
RegName == 200
NewChannel == 64
NewPattern == 65

Encoding(id, utf16) == IF id = VersionEvent \/ ~utf16 THEN "ascii" ELSE "utf16"

TextOf(e, utf16) ==
    IF Encoding(e.id, utf16) = "ascii" THEN DecodeAscii(e.payload)
                                       ELSE DecodeUtf16(e.payload)

\* Wrong variant: text is shown as text whether or not it can be written
\* back.
ReadableTextAlways(e, utf16) == e.id \in TextEvents

\* Text is kept as text only where writing it back gives the same bytes.
ReadableText(e, utf16) ==
    /\ e.id \in TextEvents
    /\ EncodeText(TextOf(e, utf16), Encoding(e.id, utf16)) = e.payload

\* An event as an element of the tree.
EventElement(e, utf16) ==
    IF ~IsVariable(e.id) THEN [t |-> e.id, v |-> AsNumber(e.payload)]
    ELSE IF ReadableText(e, utf16)
         THEN [t |-> e.id, text |-> TextOf(e, utf16), enc |-> Encoding(e.id, utf16)]
         ELSE IF e.payload # <<>> THEN [t |-> e.id, b |-> e.payload] ELSE [t |-> e.id]

ElementEvent(x) ==
    [id |-> x.t,
     payload |-> CASE ~IsVariable(x.t)      -> NumberBytes(x.v, FixedLen(x.t))
                   [] "enc" \in DOMAIN x    -> EncodeText(x.text, x.enc)
                   [] "b" \in DOMAIN x      -> x.b
                   [] OTHER                 -> <<>>]

\* A cursor event opens a group whose identity is its value.
Group(tag, id) == [tag |-> tag, id |-> id, events |-> <<>>]

ToDocument(events, utf16) ==
    LET open(groups, e) ==
            IF e.id = NewChannel THEN Append(groups, Group("Channel", AsNumber(e.payload)))
            ELSE IF e.id = NewPattern THEN Append(groups, Group("Pattern", AsNumber(e.payload)))
            ELSE groups
        add(groups, e) ==
            LET g == open(groups, e)
            IN  [g EXCEPT ![Len(g)].events = Append(@, EventElement(e, utf16))]
    IN  FoldLeft(add, <<Group("Preamble", -1)>>, events)

FromDocument(groups) ==
    LET elements == FlattenSeq([i \in DOMAIN groups |-> groups[i].events])
    IN  [i \in DOMAIN elements |-> ElementEvent(elements[i])]

\* The registration name is emptied, its terminator kept.
Redact(events, utf16) ==
    LET terminator == IF utf16 THEN <<0, 0>> ELSE <<0>>
    IN  [i \in DOMAIN events |->
            IF events[i].id = RegName /\ Len(events[i].payload) > Len(terminator)
            THEN [events[i] EXCEPT !.payload = terminator] ELSE events[i]]

\* Stream::decode; the chunk length says where the events end.
DecodeStream(f) ==
    IF ~f.magic \/ f.length > Len(f.body) THEN RefusedEvents
    ELSE DecodeEvents(SubSeq(f.body, 1, f.length))

EncodeFl(f) ==
    LET events == DecodeStream(f)
    IN  IF events = RefusedEvents THEN Refused
        ELSE [kind |-> "flstudio", utf16 |-> f.utf16,
              tree |-> ToDocument(Redact(events, f.utf16), f.utf16)]

DecodeFl(s) ==
    LET body == EncodeEvents(FromDocument(s.tree))
    IN  [kind |-> "flstudio", magic |-> TRUE, length |-> Len(body),
         body |-> body, utf16 |-> s.utf16]

(***************************************************************************)
(* XML documents (DAWproject, Ableton): a tree of tags, text, CDATA and    *)
(* comments; blank text, declarations and instructions are dropped.        *)
(***************************************************************************)
Element(tag) == [tag |-> tag, children |-> <<>>]

NoElement == [no |-> TRUE]

AppendChild(stack, c) ==
    [stack EXCEPT ![Len(stack)].children = Append(@, c)]

AppendElement(s, e) ==
    IF s.stack # <<>> THEN [s EXCEPT !.stack = AppendChild(@, e)]
    ELSE IF s.root = NoElement THEN [s EXCEPT !.root = e] ELSE Refused

AppendContent(s, c) ==
    IF s.stack = <<>> THEN Refused ELSE [s EXCEPT !.stack = AppendChild(@, c)]

\* One event of the reader: start, empty, end, text, cdata, comment, other.
\* Text is a sequence of words, empty where it is blank; a comment counts how
\* often its characters have been escaped.
ParseEvent(s, e) ==
    IF s = Refused THEN Refused
    ELSE CASE e.ev = "start"   -> [s EXCEPT !.stack = Append(@, Element(e.tag))]
           [] e.ev = "empty"   -> AppendElement(s, Element(e.tag))
           [] e.ev = "end"     ->
                IF s.stack = <<>> \/ Last(s.stack).tag # e.tag THEN Refused
                ELSE AppendElement([s EXCEPT !.stack = Front(@)], Last(s.stack))
           [] e.ev = "text"    ->
                IF e.words = <<>> THEN s ELSE AppendContent(s, [text |-> e.words])
           [] e.ev = "cdata"   -> AppendContent(s, [cdata |-> e.word])
           [] e.ev = "comment" ->
                IF s.stack = <<>> THEN s
                ELSE AppendContent(s, [comment |-> e.word, escapes |-> e.escapes])
           [] OTHER            -> s

ParseXml(events) ==
    LET s == FoldLeft(ParseEvent, [stack |-> <<>>, root |-> NoElement], events)
    IN  IF s = Refused THEN Refused
        ELSE IF s.stack # <<>> \/ s.root = NoElement THEN Refused ELSE s.root

\* Text is escaped and so are comments, although no reader unescapes them.
RECURSIVE WriteXml(_)
WriteXml(e) ==
    IF "text" \in DOMAIN e THEN <<[ev |-> "text", words |-> e.text]>>
    ELSE IF "cdata" \in DOMAIN e THEN <<[ev |-> "cdata", word |-> e.cdata]>>
    ELSE IF "comment" \in DOMAIN e
         THEN <<[ev |-> "comment", word |-> e.comment,
                 escapes |-> IF e.comment \in Markup THEN e.escapes + 1 ELSE e.escapes]>>
    ELSE IF e.children = <<>> THEN <<[ev |-> "empty", tag |-> e.tag]>>
    ELSE <<[ev |-> "start", tag |-> e.tag]>>
         \o FlattenSeq([i \in DOMAIN e.children |-> WriteXml(e.children[i])])
         \o <<[ev |-> "end", tag |-> e.tag]>>

\* Two texts side by side, as where an instruction stood between them, are read
\* as one.
AsRead(events) ==
    LET read(out, e) ==
            IF e.ev = "text" /\ out # <<>> /\ Last(out).ev = "text"
            THEN Append(Front(out), [e EXCEPT !.words = Last(out).words \o @])
            ELSE Append(out, e)
    IN  FoldLeft(read, <<>>, events)

\* What the document says: texts side by side are one, and a comment is the
\* same however often it has been escaped.
RECURSIVE Meaning(_)
Meaning(e) ==
    IF "comment" \in DOMAIN e THEN [comment |-> e.comment]
    ELSE IF "children" \notin DOMAIN e THEN e
    ELSE LET join(out, c) ==
                IF "text" \in DOMAIN c /\ out # <<>> /\ "text" \in DOMAIN Last(out)
                THEN Append(Front(out), [text |-> Last(out).text \o c.text])
                ELSE Append(out, Meaning(c))
         IN  [e EXCEPT !.children = FoldLeft(join, <<>>, e.children)]

EncodeAbleton(f) ==
    LET root == ParseXml(f.xml)
    IN  IF root = Refused THEN Refused ELSE [kind |-> "ableton", root |-> root]

DecodeAbleton(s) == [kind |-> "ableton", xml |-> AsRead(WriteXml(s.root))]

(***************************************************************************)
(* Bitwig: opaque bytes behind a magic number.                             *)
(***************************************************************************)
EncodeBitwig(f) ==
    IF f.magic THEN [kind |-> "bitwig", data |-> f.data] ELSE Refused
DecodeBitwig(s) == [kind |-> "bitwig", magic |-> TRUE, data |-> s.data]

(***************************************************************************)
(* DAWproject: an archive of project.xml, perhaps metadata.xml, and opaque *)
(* resources.  Schema 1 has the resources inline, schema 2 their hashes    *)
(* (here their contents, under hash).                                      *)
(***************************************************************************)
ProjectXml == "project.xml"
MetadataXml == "metadata.xml"
XmlEntry == {ProjectXml, MetadataXml}

EntryPaths(f) == {f.entries[i].path : i \in DOMAIN f.entries}

\* The content of an archive's entry.
EntryAt(f, p) == f.entries[CHOOSE i \in DOMAIN f.entries : f.entries[i].path = p].bytes

EncodeDaw(f) ==
    LET documents == [p \in EntryPaths(f) \cap XmlEntry |-> ParseXml(EntryAt(f, p))]
    IN  IF \/ EntryPaths(f) \cap UnsafePath # {}
           \/ Cardinality(EntryPaths(f)) # Len(f.entries)
           \/ ProjectXml \notin EntryPaths(f)
           \/ \E p \in DOMAIN documents : documents[p] = Refused
        THEN Refused
        ELSE [kind |-> "dawproject", schema |-> 2, documents |-> documents,
              resources |-> [p \in EntryPaths(f) \ XmlEntry |-> [hash |-> EntryAt(f, p)]]]

\* Detached resources a fresh snapshot holds.
Detached(s) ==
    IF s.kind # "dawproject" THEN <<>>
    ELSE [p \in DOMAIN s.resources |-> s.resources[p].hash]

\* PortableSnapshot::validate
ValidResources(s) ==
    \A p \in DOMAIN s.resources :
        /\ p \notin UnsafePath
        /\ s.schema = 1 => "data" \in DOMAIN s.resources[p]
        /\ s.schema = 2 => "hash" \in DOMAIN s.resources[p] /\ "data" \notin DOMAIN s.resources[p]

\* The bytes decode_dawproject may write for a resource: fetched, else
\* inline; their hash must match where one is recorded.
ResourceBytes(s, hydrated, p) ==
    LET r == s.resources[p]
        found == IF p \in DOMAIN hydrated THEN {hydrated[p]}
                 ELSE IF "data" \in DOMAIN r THEN {r.data} ELSE {}
    IN  {b \in found : "hash" \in DOMAIN r => b = r.hash}

RECURSIVE EntriesOf(_, _, _)
EntriesOf(s, hydrated, paths) ==
    IF paths = {} THEN {<<>>}
    ELSE LET p == CHOOSE p \in paths : TRUE
         IN  {<<[path |-> p, bytes |-> b]>> \o rest :
                b \in ResourceBytes(s, hydrated, p),
                rest \in EntriesOf(s, hydrated, paths \ {p})}

DecodeDaw(s, hydrated) ==
    LET document(p) == <<[path |-> p, bytes |-> AsRead(WriteXml(s.documents[p]))]>>
        documents == IF MetadataXml \in DOMAIN s.documents
                     THEN document(ProjectXml) \o document(MetadataXml) ELSE document(ProjectXml)
    IN  {[kind |-> "dawproject", entries |-> documents \o entries] :
            entries \in EntriesOf(s, hydrated, DOMAIN s.resources)}

(***************************************************************************)
(* The way of a file into the store and back.                              *)
(***************************************************************************)
FromSourceBytes(f) ==
    CASE f.kind = "flstudio"   -> EncodeFl(f)
      [] f.kind = "ableton"    -> EncodeAbleton(f)
      [] f.kind = "bitwig"     -> EncodeBitwig(f)
      [] f.kind = "dawproject" -> EncodeDaw(f)

\* The files ProjectSnapshot::restore_bytes may write.
RestoreBytes(s, hydrated) ==
    CASE s.kind = "flstudio"   -> {DecodeFl(s)}
      [] s.kind = "ableton"    -> {DecodeAbleton(s)}
      [] s.kind = "bitwig"     -> {DecodeBitwig(s)}
      [] s.kind = "dawproject" -> DecodeDaw(s, hydrated)

Files ==
    {[kind |-> "flstudio", magic |-> m, length |-> Len(b) + n, body |-> b, utf16 |-> u] :
        m \in {TRUE}, n \in {0, 1}, b \in SeqOf(Byte, MaxBody), u \in BOOLEAN}
    \cup {[kind |-> "ableton", xml |-> x] : x \in {y \in SeqOf(XmlEvent, MaxXml) : AsRead(y) = y}}
    \cup {[kind |-> "bitwig", magic |-> m, data |-> d] : m \in BOOLEAN, d \in Bytes}
    \cup {[kind |-> "dawproject", entries |-> e] :
            e \in SeqOf([path : Path \cap XmlEntry, bytes : EntryXml]
                        \cup [path : Path \ XmlEntry, bytes : Bytes], 3)}

FormatInit ==
    /\ project \in Files
    /\ snap = NoSnapshot
    /\ held = <<>>
    /\ blobs = {}
    /\ restored = NoFile

\* snapshot_project; a file that is refused leaves nothing.
TakeSnapshot ==
    /\ snap = NoSnapshot
    /\ FromSourceBytes(project) # Refused
    /\ snap' = FromSourceBytes(project)
    /\ held' = Detached(snap')
    /\ UNCHANGED <<project, blobs, restored>>

\* The same project as an earlier release snapshotted it: schema 1.
TakeLegacySnapshot ==
    /\ snap = NoSnapshot
    /\ project.kind = "dawproject"
    /\ FromSourceBytes(project) # Refused
    /\ LET s == FromSourceBytes(project)
       IN  snap' = [s EXCEPT !.schema = 1,
                             !.resources = [p \in DOMAIN @ |-> [data |-> @[p].hash]]]
    /\ UNCHANGED <<project, held, blobs, restored>>

\* normalize_dawproject_for_merge: inline bytes become blobs and hashes.
Normalize ==
    /\ snap # NoSnapshot /\ snap.kind = "dawproject" /\ snap.schema = 1
    /\ snap' = [snap EXCEPT !.schema = 2,
                            !.resources = [p \in DOMAIN @ |-> [hash |-> @[p].data]]]
    /\ ValidResources(snap')
    /\ blobs' = blobs \cup {snap.resources[p].data : p \in DOMAIN snap.resources}
    /\ UNCHANGED <<project, held, restored>>

\* build_sample_manifest: each resource is stored from memory or from its
\* inline data, or the provider must have it.  The snapshot then comes back
\* from the provider without the bytes that were held.
Push ==
    /\ snap # NoSnapshot
    /\ snap.kind = "dawproject" =>
        /\ ValidResources(snap)
        /\ \A p \in DOMAIN snap.resources :
            LET r == snap.resources[p]
            IN  "hash" \in DOMAIN r =>
                    \/ p \in DOMAIN held /\ held[p] = r.hash
                    \/ r.hash \in blobs
    /\ blobs' = IF snap.kind # "dawproject" THEN blobs
                ELSE blobs \cup {snap.resources[p].hash :
                                    p \in {q \in DOMAIN snap.resources :
                                            "hash" \in DOMAIN snap.resources[q]}}
                           \cup {snap.resources[p].data :
                                    p \in {q \in DOMAIN snap.resources :
                                            "data" \in DOMAIN snap.resources[q]}}
    /\ held' = <<>>
    /\ UNCHANGED <<project, snap, restored>>

\* The provider loses a blob.
LoseBlob ==
    /\ \E b \in blobs : blobs' = blobs \ {b}
    /\ UNCHANGED <<project, snap, held, restored>>

\* restore_dawproject fetches what the provider has, hydrates and decodes;
\* a resource without bytes refuses the restore.
RestoreFile ==
    /\ snap # NoSnapshot /\ restored = NoFile
    /\ LET all == IF snap.kind = "dawproject" THEN DOMAIN snap.resources ELSE {}
           stored(p) == IF "hash" \in DOMAIN snap.resources[p]
                        THEN snap.resources[p].hash ELSE snap.resources[p].data
           hydrated == [p \in {q \in all : stored(q) \in blobs} |-> stored(p)]
       IN  restored' \in RestoreBytes(snap, hydrated)
    /\ UNCHANGED <<project, snap, held, blobs>>

FormatNext ==
    TakeSnapshot \/ TakeLegacySnapshot \/ Normalize \/ Push \/ LoseBlob \/ RestoreFile

FormatSpec == FormatInit /\ [][FormatNext]_formatVars

(***************************************************************************)
(* Properties.                                                             *)
(***************************************************************************)

\* The same project file: FL Studio event by event up to the registration
\* name, and byte for byte where no length prefix is longer than it has to
\* be; Bitwig byte for byte, XML in what it says, an archive entry by entry,
\* its XML in what it says.
SameProject(f, g) ==
    CASE f.kind = "flstudio" ->
            LET events == DecodeStream(f)
            IN  /\ DecodeStream(g) = Redact(events, f.utf16)
                /\ Redact(events, f.utf16) = events /\ EncodeEvents(events) = f.body =>
                        g.body = f.body
      [] f.kind = "ableton" -> Meaning(ParseXml(g.xml)) = Meaning(ParseXml(f.xml))
      [] f.kind = "bitwig" -> g = f
      [] f.kind = "dawproject" ->
            /\ EntryPaths(g) = EntryPaths(f) /\ Len(g.entries) = Len(f.entries)
            /\ \A p \in EntryPaths(f) :
                  IF p \in XmlEntry
                  THEN Meaning(ParseXml(EntryAt(g, p))) = Meaning(ParseXml(EntryAt(f, p)))
                  ELSE EntryAt(g, p) = EntryAt(f, p)

\* What a restore writes is the project that was backed up, whatever the
\* provider lost in between and whichever schema the snapshot has been
\* through: no restore quietly writes a file with a part missing or changed
\* (decode_dawproject, XmlElement::write, from_document, encode_event).  Only
\* the escapes inside XML comments grow, by one level each time.
RestoredIsSaved == restored # NoFile => SameProject(project, restored)
=============================================================================
