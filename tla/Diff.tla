-------------------------------- MODULE Diff -------------------------------
(***************************************************************************)
(* Comparing two versions of a project (auru-pm-kernel/src/diff.rs and the *)
(* diff and meta modules of ableton, dawproject and flstudio): a card for  *)
(* each track that was added, removed or changed, with counts of clips.    *)
(*                                                                         *)
(* A project is saved again and again, and any save is compared with an    *)
(* earlier one.  Rows are reduced to their tags, values to what can differ.*)
(***************************************************************************)
EXTENDS Integers, SequencesExt, FiniteSetsExt

CONSTANTS
    Daw,         \* "auru", "ableton", "dawproject", "flstudio", "bitwig"
    Label,       \* names and values
    MaxRows,     \* rows shown on a card, 24 in the code
    MaxSaves     \* bound on the saves between the two versions

VARIABLES
    daw,        \* the program the project belongs to
    before,     \* the version compared with
    after,      \* the version compared
    saves,      \* saves made between them
    shown       \* the comparison on the screen, NoDiff at first

diffVars == <<daw, before, after, saves, shown>>

NoDiff == [no |-> "diff"]

(***************************************************************************)
(* Versions: project values, markers and tracks.  FL Studio projects are   *)
(* event streams, Bitwig projects opaque bytes.                            *)
(***************************************************************************)
SavedClip(id, start, body) == [id |-> id, start |-> start, body |-> body]
SavedDevice(name, state) == [name |-> name, state |-> state]

SavedTrack(id, name, clips, devices) ==
    [id |-> id, name |-> name, mix |-> 0, clips |-> clips, devices |-> devices]

First == CHOOSE x \in Label : TRUE

StartOf(d) ==
    CASE d = "flstudio" -> <<[ev |-> "pattern", name |-> First]>>
      [] d = "bitwig"   -> [data |-> First]
      [] OTHER -> [tempo |-> 0, markers |-> 0, tracks |->
                    <<SavedTrack(1, First, <<SavedClip(1, 0, 0)>>, <<SavedDevice(First, 0)>>)>>]

(***************************************************************************)
(* What a save may change.                                                 *)
(***************************************************************************)
Ids == 1..3

Renumbered(tracks) ==
    [i \in DOMAIN tracks |->
        [tracks[i] EXCEPT !.id = i,
                          !.clips = [j \in DOMAIN @ |-> [@[j] EXCEPT !.id = i + j - 1]]]]

ClipEdits(clips) ==
    {Append(clips, SavedClip(id, s, 0)) :
        id \in {x \in Ids : \/ daw \in {"ableton", "dawproject"}
                            \/ \A j \in DOMAIN clips : clips[j].id # x}, s \in {0, 1}}
    \cup {RemoveAt(clips, j) : j \in DOMAIN clips}
    \cup {[clips EXCEPT ![j].start = 1 - @] : j \in DOMAIN clips}
    \cup {[clips EXCEPT ![j].body = 1 - @] : j \in DOMAIN clips}
    \* Live gives an edited clip another id.
    \cup (IF daw # "ableton" THEN {}
          ELSE {[clips EXCEPT ![j].body = 1 - @, ![j].id = x] : j \in DOMAIN clips, x \in Ids})

DeviceEdits(devices) ==
    {Append(devices, SavedDevice(n, 0)) : n \in Label}
    \cup {RemoveAt(devices, j) : j \in DOMAIN devices}
    \cup {[devices EXCEPT ![j].state = 1 - @] : j \in DOMAIN devices}
    \cup {Reverse(devices)}

TrackEdits(t) ==
    {[t EXCEPT !.name = n] : n \in Label}
    \cup {[t EXCEPT !.mix = 1 - @]}
    \cup {[t EXCEPT !.clips = c] : c \in ClipEdits(t.clips)}
    \cup {[t EXCEPT !.devices = d] : d \in DeviceEdits(t.devices)}

\* A track is inserted in front or at the end; Bitwig's DAWproject export
\* then numbers everything anew.
TracksEdits(tracks) ==
    UNION {{[tracks EXCEPT ![i] = t] : t \in TrackEdits(tracks[i])} : i \in DOMAIN tracks}
    \cup {RemoveAt(tracks, i) : i \in DOMAIN tracks}
    \cup LET fresh == {id \in Ids : \A i \in DOMAIN tracks : tracks[i].id # id}
             grown == {<<SavedTrack(id, n, <<SavedClip(1, 0, 0)>>, <<>>)>> \o tracks :
                            id \in fresh, n \in Label}
         IN  IF daw = "dawproject" THEN {Renumbered(ts) : ts \in grown} ELSE grown

EventEdits(events) ==
    {Append(events, [ev |-> e, name |-> n]) : e \in {"pattern", "insert", "marker"}, n \in Label}
    \cup {events \o <<[ev |-> "internal", name |-> n], [ev |-> "new", name |-> n]>> : n \in Label}
    \cup {RemoveAt(events, i) : i \in DOMAIN events}

SavesOf(v) ==
    CASE daw = "flstudio" -> EventEdits(v)
      [] daw = "bitwig"   -> {[data |-> x] : x \in Label}
      [] OTHER -> {[v EXCEPT !.tempo = 1 - @], [v EXCEPT !.markers = @ + 1]}
                  \cup {[v EXCEPT !.tracks = ts] : ts \in TracksEdits(v.tracks)}

(***************************************************************************)
(* Cards.                                                                  *)
(***************************************************************************)
Card(status, added, removed, modified, rows) ==
    [status |-> status, added |-> added, removed |-> removed,
     modified |-> modified, rows |-> rows]

TrackAt(tracks, id) == {i \in DOMAIN tracks : tracks[i].id = id}
Has(tracks, id) == TrackAt(tracks, id) # {}
The(tracks, id) == tracks[CHOOSE i \in TrackAt(tracks, id) : TRUE]

RowIf(condition, tag) == IF condition THEN <<tag>> ELSE <<>>

\* A track that is new or gone: all of its clips count.  The rows of such a
\* card only name those clips.
WholeCard(status, t) ==
    IF status = "add" THEN Card("add", Len(t.clips), 0, 0, <<>>)
                      ELSE Card("remove", 0, Len(t.clips), 0, <<>>)

\* The entries of s under "key#occurrence", the key being a field of theirs.
Keyed(s, field) ==
    [k \in {<<s[i][field], Cardinality({j \in 1..(i - 1) : s[j][field] = s[i][field]})>> :
                i \in DOMAIN s} |->
        s[CHOOSE i \in DOMAIN s :
            /\ s[i][field] = k[1]
            /\ Cardinality({j \in 1..(i - 1) : s[j][field] = k[1]}) = k[2]]]

\* Clips by id; the last one of an id wins.
Collected(s) ==
    [k \in {s[i].id : i \in DOMAIN s} |-> s[Max({i \in DOMAIN s : s[i].id = k})]]

(***************************************************************************)
(* Native projects.                                                        *)
(***************************************************************************)
\* Tags push_clip_rows and diff_clips find for one clip; its notes have none.
ClipTags(a, b) == RowIf(a.start # b.start, "moved")

SharedKeys(a, b) == SetToSeq(DOMAIN a \cap DOMAIN b)

PushClipRows(a, b) ==
    LET x == Collected(a.clips)
        y == Collected(b.clips)
        new == DOMAIN y \ DOMAIN x
        gone == DOMAIN x \ DOMAIN y
        same == SharedKeys(x, y)
    IN  Card("modify", Cardinality(new), Cardinality(gone),
             Cardinality({k \in DOMAIN x \cap DOMAIN y : x[k] # y[k]}),
             [i \in 1..Cardinality(new) |-> "added"]
             \o [i \in 1..Cardinality(gone) |-> "removed"]
             \o FlattenSeq([i \in DOMAIN same |-> ClipTags(x[same[i]], y[same[i]])]))

PushMixRows(a, b) == RowIf(a.mix # b.mix, "volume")

Names(devices) == [i \in DOMAIN devices |-> devices[i].name]
SameBag(s, t) ==
    \A n \in ToSet(s) \cup ToSet(t) :
        Cardinality({i \in DOMAIN s : s[i] = n}) = Cardinality({i \in DOMAIN t : t[i] = n})

\* A second instance of a plug-in that was there is no addition.
PushFxRows(a, b) ==
    LET x == Names(a.devices)
        y == Names(b.devices)
    IN  SelectSeq([i \in DOMAIN y |-> IF y[i] \in ToSet(x) THEN "" ELSE "fx added"],
                  LAMBDA r : r # "")
        \o SelectSeq([i \in DOMAIN x |-> IF x[i] \in ToSet(y) THEN "" ELSE "fx removed"],
                     LAMBDA r : r # "")
        \o RowIf(SameBag(x, y) /\ x # y, "fx order")

ChannelCard(a, b) ==
    LET clips == PushClipRows(a, b)
    IN  [clips EXCEPT !.rows = RowIf(a.name # b.name, "renamed") \o @
                               \o PushMixRows(a, b) \o PushFxRows(a, b)]

ProjectDiff(changes, channels) == [changes |-> changes, channels |-> channels]

\* A card for every track of one version that the other lacks.
Missing(status, from, in) ==
    LET lone == SelectSeq(from, LAMBDA t : ~Has(in, t.id))
    IN  [i \in DOMAIN lone |-> WholeCard(status, lone[i])]

\* Tracks of both versions, matched by id.
Both(a, b) == SelectSeq(b, LAMBDA t : Has(a, t.id))

\* structured_diff: a changed track with no row at all has no card.
NativeDiff(a, b) ==
    LET both  == Both(a.tracks, b.tracks)
        cards == [i \in DOMAIN both |-> ChannelCard(The(a.tracks, both[i].id), both[i])]
    IN  ProjectDiff(RowIf(a.tempo # b.tempo, "tempo"),
                    Missing("add", b.tracks, a.tracks) \o Missing("remove", a.tracks, b.tracks)
                    \o SelectSeq(cards, LAMBDA c : c.rows # <<>>))

\* diff_channel_mix, diff_channel_fx and diff_channel_instrument say in text
\* what the rows say.
StripItems(a, b) == PushMixRows(a, b) \o PushFxRows(a, b)

\* diff_clips and the rest of a channel.
ChannelItems(a, b) == PushClipRows(a, b).rows \o StripItems(a, b)

\* diff_channels: the text lists additions and removals once each.
DiffChannels(a, b) ==
    LET both == Both(a, b)
        pair(i) == <<The(a, both[i].id), both[i]>>
        renamed == SelectSeq([i \in DOMAIN both |-> pair(i)], LAMBDA p : p[1].name # p[2].name)
    IN  FlattenSeq([i \in DOMAIN both |-> ChannelItems(pair(i)[1], pair(i)[2])])
        \o RowIf(Missing("add", b, a) # <<>>, "channels added")
        \o RowIf(Missing("remove", a, b) # <<>>, "channels removed")
        \o [i \in 1..Min({3, Len(renamed)}) |-> "channel renamed"]

\* summarize_diff, before "No structural changes" is put in place of nothing.
SummarizeDiff(a, b) ==
    RowIf(a.tempo # b.tempo, "tempo") \o DiffChannels(a.tracks, b.tracks)
    \o RowIf(a.markers # b.markers, "markers")

(***************************************************************************)
(* Ableton Live.                                                           *)
(***************************************************************************)

\* Wrong variant: a new clip may stand for several that are gone.
PairedTwice(new, gone) ==
    FoldLeft(LAMBDA s, c : IF \E i \in DOMAIN s.new : s.new[i].start = c.start
                           THEN s ELSE [s EXCEPT !.gone = Append(@, c)],
             [new |-> new, gone |-> <<>>], gone)

\* What is left of new and gone after each gone clip has taken the first new
\* one with its start and length.
Paired(new, gone) ==
    LET step(s, c) ==
            LET at == {i \in DOMAIN s.new : s.new[i].start = c.start}
            IN  IF at # {} THEN [s EXCEPT !.new = RemoveAt(@, Min(at))]
                ELSE [s EXCEPT !.gone = Append(@, c)]
    IN  FoldLeft(step, [new |-> new, gone |-> <<>>], gone)

\* diff_clips of ableton/diff.rs
LiveClips(a, b) ==
    LET x    == Keyed(a.clips, "id")
        y    == Keyed(b.clips, "id")
        same == DOMAIN x \cap DOMAIN y
        new  == LET k == SetToSeq(DOMAIN y \ DOMAIN x) IN [i \in DOMAIN k |-> y[k[i]]]
        gone == LET k == SetToSeq(DOMAIN x \ DOMAIN y) IN [i \in DOMAIN k |-> x[k[i]]]
        left == Paired(new, gone)
    IN  Card("modify", Len(left.new), Len(left.gone),
             Cardinality({k \in same : x[k] # y[k]}) + Len(gone) - Len(left.gone),
             [i \in 1..Cardinality({k \in same : x[k].start # y[k].start}) |-> "moved"]
             \o [i \in DOMAIN left.new |-> "added"] \o [i \in DOMAIN left.gone |-> "removed"])

\* diff_devices: chain order counts, and so does the state of a device.
LiveDevices(a, b) ==
    LET x == Keyed(a, "name")
        y == Keyed(b, "name")
    IN  [i \in 1..Cardinality(DOMAIN y \ DOMAIN x) |-> "fx added"]
        \o [i \in 1..Cardinality(DOMAIN x \ DOMAIN y) |-> "fx removed"]
        \o RowIf(DOMAIN x = DOMAIN y /\ Names(a) # Names(b), "fx order")
        \o RowIf(a # <<>> /\ b # <<>> /\ Head(a).name # Head(b).name, "instrument")
        \o [i \in 1..Cardinality({k \in DOMAIN x \cap DOMAIN y : x[k] # y[k]}) |-> "preset"]

\* truncate_rows says how much it left out.
Truncated(rows) ==
    IF Len(rows) <= MaxRows THEN rows ELSE Append(SubSeq(rows, 1, MaxRows), "and more")

\* modified_track of ableton/diff.rs
LiveCard(a, b) ==
    LET clips == LiveClips(a, b)
    IN  [clips EXCEPT !.rows = Truncated(RowIf(a.name # b.name, "renamed") \o @
                                \o PushMixRows(a, b) \o LiveDevices(a.devices, b.devices))]

Changed(card) == card.added + card.removed + card.modified > 0 \/ card.rows # <<>>

LiveDiff(a, b) ==
    LET both  == Both(a.tracks, b.tracks)
        cards == [i \in DOMAIN both |-> LiveCard(The(a.tracks, both[i].id), both[i])]
    IN  ProjectDiff(RowIf(a.tempo # b.tempo, "tempo") \o RowIf(a.markers # b.markers, "locators"),
                    SelectSeq(cards, Changed) \o Missing("add", b.tracks, a.tracks)
                    \o Missing("remove", a.tracks, b.tracks))

(***************************************************************************)
(* DAWproject: ids may be numbered anew between two saves, so tracks are   *)
(* matched by what they are first.                                         *)
(***************************************************************************)
DeviceIdentity(t) == DOMAIN Keyed(t.devices, "name")

HighConfidenceTrackMatch(a, b) ==
    \/ a.name = b.name
    \/ a.devices # <<>> /\ DeviceIdentity(a) = DeviceIdentity(b)

\* Pass one: the only unmatched candidate.  Pass two: the same id.
TrackMatches(a, b) ==
    LET order == SetToSortSeq(DOMAIN b, LAMBDA i, j : b[i].id < b[j].id)
        free(m) == DOMAIN a \ {m[i] : i \in DOMAIN m}
        alike(m, i) == {k \in free(m) : HighConfidenceTrackMatch(a[k], b[i])}
        first(m, i) == IF Cardinality(alike(m, i)) = 1
                       THEN [k \in DOMAIN m \cup {i} |->
                                IF k = i THEN CHOOSE x \in alike(m, i) : TRUE ELSE m[k]]
                       ELSE m
        sameId(m, i) == IF i \in DOMAIN m THEN {} ELSE {k \in free(m) : a[k].id = b[i].id}
        second(m, i) == IF sameId(m, i) = {} THEN m
                        ELSE [k \in DOMAIN m \cup {i} |->
                                IF k = i THEN CHOOSE x \in sameId(m, i) : TRUE ELSE m[k]]
    IN  FoldLeft(second, FoldLeft(first, [k \in {} |-> 0], order), order)

SameButId(c, d) == c.start = d.start /\ c.body = d.body

\* clip_rows; clips under one reference are one clip here.
DawClips(a, b) ==
    LET x == Collected(a.clips)
        y == Collected(b.clips)
        changed == {k \in DOMAIN x \cap DOMAIN y : ~SameButId(x[k], y[k])}
    IN  Card("modify", Cardinality(DOMAIN y \ DOMAIN x), Cardinality(DOMAIN x \ DOMAIN y),
             Cardinality(changed),
             [i \in 1..Cardinality(DOMAIN y \ DOMAIN x) |-> "added"]
             \o [i \in 1..Cardinality({k \in changed : x[k].start # y[k].start}) |-> "moved"]
             \o [i \in 1..Cardinality({k \in changed : x[k].body # y[k].body}) |-> "content"]
             \o [i \in 1..Cardinality(DOMAIN x \ DOMAIN y) |-> "removed"])

\* device_rows: the order of the chain does not count.
DawDevices(a, b) ==
    LET x == Keyed(a, "name")
        y == Keyed(b, "name")
    IN  [i \in 1..Cardinality(DOMAIN y \ DOMAIN x) |-> "fx added"]
        \o [i \in 1..Cardinality({k \in DOMAIN x \cap DOMAIN y : x[k] # y[k]}) |-> "preset"]
        \o [i \in 1..Cardinality(DOMAIN x \ DOMAIN y) |-> "fx removed"]

DawCard(a, b) ==
    LET clips == DawClips(a, b)
        rows  == RowIf(a.name # b.name, "renamed") \o PushMixRows(a, b)
                 \o DawDevices(a.devices, b.devices) \o clips.rows
    IN  [clips EXCEPT !.rows = SubSeq(rows, 1, Min({MaxRows, Len(rows)}))]

\* Instances of each plug-in of the whole project.
Plugins(tracks) ==
    LET all == FlattenSeq([i \in DOMAIN tracks |-> Names(tracks[i].devices)])
    IN  [n \in ToSet(all) |-> Cardinality({i \in DOMAIN all : all[i] = n})]

PluginCard(x, y) ==
    LET rows == [i \in 1..Cardinality(DOMAIN y \ DOMAIN x) |-> "fx added"]
                \o [i \in 1..Cardinality({n \in DOMAIN x \cap DOMAIN y : x[n] # y[n]}) |-> "instances"]
                \o [i \in 1..Cardinality(DOMAIN x \ DOMAIN y) |-> "fx removed"]
    IN  IF rows = <<>> THEN <<>>
        ELSE <<Card("modify", 0, 0, 0, SubSeq(rows, 1, Min({MaxRows, Len(rows)})))>>

\* structured_diff of dawproject/diff.rs: whatever differs in the document,
\* one row says so.
DawDiff(a, b) ==
    LET m     == TrackMatches(a.tracks, b.tracks)
        gone  == DOMAIN a.tracks \ {m[i] : i \in DOMAIN m}
        lost  == SetToSeq(gone)
        card(i) == IF i \in DOMAIN m THEN DawCard(a.tracks[m[i]], b.tracks[i])
                   ELSE WholeCard("add", b.tracks[i])
    IN  ProjectDiff(RowIf(a.tempo # b.tempo, "tempo") \o RowIf(a.markers # b.markers, "markers")
                    \o RowIf(a # b, "project XML changed"),
                    SelectSeq([i \in DOMAIN b.tracks |-> card(i)],
                              LAMBDA c : c.status # "modify" \/ Changed(c))
                    \o [i \in DOMAIN lost |-> WholeCard("remove", a.tracks[lost[i]])]
                    \o PluginCard(Plugins(a.tracks), Plugins(b.tracks)))

(***************************************************************************)
(* FL Studio: names and plug-ins read from the event stream.               *)
(***************************************************************************)
Named(events, ev) ==
    LET found == SelectSeq(events, LAMBDA e : e.ev = ev)
    IN  [i \in DOMAIN found |-> found[i].name]

\* plugins::collect: an instance counts if an identity came before it, after
\* the instance before.
FlPlugins(events) ==
    LET lone(i) == LET prior == {j \in 1..(i - 1) : events[j].ev \in {"internal", "new"}}
                   IN  prior # {} /\ events[Max(prior)].ev = "internal"
        at == {i \in DOMAIN events : events[i].ev = "new" /\ lone(i)}
        identity(i) == events[Max({j \in 1..(i - 1) : events[j].ev = "internal"})].name
    IN  [n \in {identity(i) : i \in at} |-> Cardinality({i \in at : identity(i) = n})]

Count(s, n) == Cardinality({i \in DOMAIN s : s[i] = n})

\* named_rows: one row for each name, however often it came or went.
NamedRows(a, b) ==
    LET up   == {n \in ToSet(a) \cup ToSet(b) : Count(b, n) > Count(a, n)}
        down == {n \in ToSet(a) \cup ToSet(b) : Count(b, n) < Count(a, n)}
    IN  Card("modify", Cardinality(up), Cardinality(down), 0,
             [i \in 1..Cardinality(up) |-> "added"] \o [i \in 1..Cardinality(down) |-> "removed"])

\* The card of the patterns counts rows; mixer and plug-ins count no clips.
FlDiff(a, b) ==
    LET patterns == NamedRows(Named(a, "pattern"), Named(b, "pattern"))
        mixer    == NamedRows(Named(a, "insert"), Named(b, "insert"))
    IN  ProjectDiff(RowIf(ToSet(Named(a, "marker")) # ToSet(Named(b, "marker")), "section"),
                    SelectSeq(<<[mixer EXCEPT !.added = 0, !.removed = 0]>>, LAMBDA c : c.rows # <<>>)
                    \o PluginCard(FlPlugins(a), FlPlugins(b))
                    \o SelectSeq(<<patterns>>, LAMBDA c : c.rows # <<>>))

(***************************************************************************)
(* The comparison.                                                         *)
(***************************************************************************)
\* summarize_external_diff looks at "project", "metadata" and "resources",
\* none of which an opaque snapshot has.
ExternalDiff(a, b) == ProjectDiff(<<>>, <<>>)

StructuredDiff(a, b) ==
    CASE daw = "auru"       -> NativeDiff(a, b)
      [] daw = "ableton"    -> LiveDiff(a, b)
      [] daw = "dawproject" -> DawDiff(a, b)
      [] daw = "flstudio"   -> FlDiff(a, b)
      [] OTHER              -> ExternalDiff(a, b)

DiffInit ==
    /\ daw \in Daw
    /\ before = StartOf(daw)
    /\ after = before
    /\ saves = 0
    /\ shown = NoDiff

\* The program saves the project.
SaveVersion ==
    /\ saves < MaxSaves
    /\ shown = NoDiff
    /\ after' \in SavesOf(after) \ {after}
    /\ saves' = saves + 1
    /\ UNCHANGED <<daw, before, shown>>

\* The two versions are compared, the older one first or last.
Compare ==
    /\ shown = NoDiff
    /\ \/ UNCHANGED <<before, after>>
       \/ before' = after /\ after' = before
    /\ shown' = StructuredDiff(before', after')
    /\ UNCHANGED <<daw, saves>>

DiffNext == SaveVersion \/ Compare

DiffSpec == DiffInit /\ [][DiffNext]_diffVars

(***************************************************************************)
(* Properties.                                                             *)
(***************************************************************************)
TotalAdded == FoldLeft(LAMBDA n, c : n + c.added, 0, shown.channels)
TotalRemoved == FoldLeft(LAMBDA n, c : n + c.removed, 0, shown.channels)
ClipCount(v) == FoldLeft(LAMBDA n, t : n + Len(t.clips), 0, v.tracks)

DistinctClips(v) ==
    \A i \in DOMAIN v.tracks : \A j, k \in DOMAIN v.tracks[i].clips :
        j # k => v.tracks[i].clips[j].id # v.tracks[i].clips[k].id

\* The clips said to be added and removed account for every clip that there
\* is more or less of; in a DAWproject, where no two share a reference.
Balanced ==
    \/ daw \in {"flstudio", "bitwig"}
    \/ daw = "dawproject" /\ ~(DistinctClips(before) /\ DistinctClips(after))
    \/ TotalAdded - TotalRemoved = ClipCount(after) - ClipCount(before)

IsEmpty == shown.changes = <<>> /\ shown.channels = <<>>

\* What a comparison undertakes to show of a version: all of a DAWproject,
\* the tracks of a Live Set in any order, of a native project everything but
\* notes, device settings and markers, of an FL Studio project its names.
Visible(v) ==
    CASE daw = "dawproject" -> <<v>>
      [] daw = "ableton" -> <<v.tempo, v.markers, ToSet(v.tracks)>>
      [] daw = "auru" ->
            <<v.tempo, {<<t.id, t.name, t.mix, {<<c.id, c.start>> : c \in ToSet(t.clips)},
                          ToSet(Names(t.devices))>> : t \in ToSet(v.tracks)}>>
      [] daw = "flstudio" ->
            <<ToSet(Named(v, "marker")), FlPlugins(v),
              [n \in Label |-> <<Count(Named(v, "pattern"), n), Count(Named(v, "insert"), n)>>]>>
      [] OTHER -> <<>>

\* A comparison is never empty for versions that differ in what it covers.
NotSilent == Visible(before) # Visible(after) => ~IsEmpty

\* The text of a version and its cards agree on whether anything changed.
SummaryAgrees ==
    daw = "auru" /\ before.markers = after.markers =>
        (SummarizeDiff(before, after) = <<>> <=> IsEmpty)

\* A comparison tells the truth: its counts add up, however clips and tracks
\* changed their ids, it does not claim that different versions are identical
\* and the two forms of a native comparison agree (structured_diff).
DiffIsHonest == shown # NoDiff => Balanced /\ NotSilent /\ SummaryAgrees
=============================================================================
