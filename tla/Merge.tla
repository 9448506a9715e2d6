------------------------------- MODULE Merge -------------------------------
(***************************************************************************)
(* The three-way merge of project snapshots (auru-pm-kernel/src/merge.rs), *)
(* the checks made on its result, and the pushes that use it               *)
(* (auru-pm/src/sync.rs): machines edit their own file of one project and  *)
(* push; a push that finds a newer HEAD merges, or shows the conflicting   *)
(* fields and is confirmed later with one choice for each.                 *)
(*                                                                         *)
(* A push is one step here; Sync takes it apart into provider calls.  The  *)
(* project file of a machine is never written by a push.                   *)
(***************************************************************************)
EXTENDS Integers, SequencesExt, FiniteSetsExt

CONSTANTS
    Machine,
    Format,      \* formats checked: "auru", whose JSON is free, and "ableton"
    TrackId,     \* identities of tracks
    Bracketed,   \* those with a ']' in them, which a conflict path cuts short
    Level,       \* values of a scalar
    MaxEdits,    \* bound on the edits of all machines together
    MaxCommits   \* bound on the length of the history

ASSUME BracketedAssumption == Bracketed \subseteq TrackId

VARIABLES
    format,     \* the format of the project
    file,       \* per machine, the content of its project file
    edited,     \* per machine, whether the file changed since its last push
    base,       \* per machine, local_head of its sidecar, an index of history
    question,   \* per machine, the snapshot and conflicts of its dialog
    history,    \* the commits, in the order HEAD took them
    edits       \* edits made so far

mergeVars == <<format, file, edited, base, question, history, edits>>

(***************************************************************************)
(* JSON values.  Each kind has a field of its own; Nothing is an absent    *)
(* field or element.                                                       *)
(***************************************************************************)
Nothing == [nothing |-> TRUE]
Null == [null |-> TRUE]
Scalar(x) == [is |-> x]
Number(n) == [num |-> n]
Object(f) == [obj |-> f]
Array(s) == [arr |-> s]

IsObject(v) == "obj" \in DOMAIN v
IsArray(v) == "arr" \in DOMAIN v

Field(v, k) == IF IsObject(v) /\ k \in DOMAIN v.obj THEN v.obj[k] ELSE Nothing

\* The keys of the documents below in the order a BTreeSet yields them.
InKeyOrder(at(_)) ==
    at("id") \o at("lanes") \o at("level") \o at("next") \o at("target")
    \o at("tempo") \o at("tracks")

\* A merged value and the conflicts met on the way, in order.
Merged(v) == [value |-> v, conflicts |-> <<>>]
Conflict(path, a, l, r) ==
    [value |-> l,
     conflicts |-> <<[path |-> path, ancestor |-> a, local |-> l, remote |-> r]>>]

Conflicts(results) == FlattenSeq([i \in DOMAIN results |-> results[i].conflicts])

MergeScalar(a, l, r, path) ==
    CASE l = a -> Merged(r)
      [] r = a -> Merged(l)
      [] l = r -> Merged(l)
      [] OTHER -> Conflict(path, a, l, r)

IdOf(v) == Field(v, "id")

AllHaveId(s) == \A i \in DOMAIN s : IdOf(s[i]) # Nothing

\* The element a BTreeMap collected from s keeps under id: the last one.
ById(s, id) ==
    LET found == {i \in DOMAIN s : IdOf(s[i]) = id}
    IN  IF found = {} THEN Nothing ELSE s[Max(found)]

(***************************************************************************)
(* merge_values calls itself for what is inside an object or an array.     *)
(* Inner is that call, and `inside' below is what it gives for one field   *)
(* or element.                                                             *)
(***************************************************************************)

\* One key of three objects: a change of one side wins, a change wins over a
\* removal, two changes are merged inside, two additions must be equal.
MergeField(a, l, r, path, inside) ==
    IF l = a THEN Merged(r)
    ELSE IF r = a THEN Merged(l)
    ELSE IF l = Nothing THEN Merged(r)
    ELSE IF r = Nothing THEN Merged(l)
    ELSE IF a # Nothing THEN inside
    ELSE IF l = r THEN Merged(l) ELSE Conflict(path, a, l, r)

MergeKey(Inner(_, _, _, _), a, l, r, path) ==
    MergeField(a, l, r, path, Inner(a, l, r, path))

MergeObjects(Inner(_, _, _, _), a, l, r, path) ==
    LET keys == DOMAIN a.obj \cup DOMAIN l.obj \cup DOMAIN r.obj
        out  == [k \in keys |-> MergeKey(Inner, Field(a, k), Field(l, k), Field(r, k),
                                         Append(path, [key |-> k]))]
        kept == {k \in keys : out[k].value # Nothing}
        at(k) == IF k \in keys THEN out[k].conflicts ELSE <<>>
    IN  [value     |-> Object([k \in kept |-> out[k].value]),
         conflicts |-> InKeyOrder(at)]

\* Wrong variant: an element removed on one side stays although the other
\* side left it alone.
MergeElementKept(av, lv, rv, inside) ==
    CASE lv = Nothing /\ rv = Nothing -> <<>>
      [] lv # Nothing /\ rv = Nothing -> <<Merged(lv)>>
      [] lv = Nothing /\ rv # Nothing -> <<Merged(rv)>>
      [] OTHER -> <<inside>>

\* An element of the ancestor, with what each side has under its identity:
\* dropped where one side removed it and the other left it alone, kept where
\* the other changed it.
MergeElement(av, lv, rv, inside) ==
    CASE lv = Nothing /\ rv = Nothing -> <<>>
      [] lv # Nothing /\ rv = Nothing -> IF lv # av THEN <<Merged(lv)>> ELSE <<>>
      [] lv = Nothing /\ rv # Nothing -> IF rv # av THEN <<Merged(rv)>> ELSE <<>>
      [] OTHER -> <<inside>>

MergeShared(Inner(_, _, _, _), av, l, r, path) ==
    LET lv == ById(l, IdOf(av))
        rv == ById(r, IdOf(av))
    IN  MergeElement(av, lv, rv, Inner(av, lv, rv, Append(path, [id |-> IdOf(av).is])))

\* The elements of s whose identity none of the others has.
New(s, others) ==
    FlattenSeq([i \in DOMAIN s |->
        IF \A v \in others : ById(v, IdOf(s[i])) = Nothing THEN <<s[i]>> ELSE <<>>])

\* Ancestor order, then additions of local, then additions of remote.  Of an
\* identity both sides added only the local element survives.
MergeArraysById(Inner(_, _, _, _), a, l, r, path) ==
    LET shared == FlattenSeq([i \in DOMAIN a |-> MergeShared(Inner, a[i], l, r, path)])
    IN  [value     |-> Array([i \in DOMAIN shared |-> shared[i].value]
                             \o New(l, {a}) \o New(r, {a, l})),
         conflicts |-> Conflicts(shared)]

\* Position by position; the shorter arrays are padded with null.
Padded(s, i) == IF i <= Len(s) THEN s[i] ELSE Null

MergeArraysByIndex(Inner(_, _, _, _), a, l, r, path) ==
    LET len == Max({Len(a), Len(l), Len(r)})
        out == [i \in 1..len |-> Inner(Padded(a, i), Padded(l, i), Padded(r, i),
                                       Append(path, [index |-> i]))]
    IN  [value     |-> Array([i \in 1..len |-> out[i].value]),
         conflicts |-> Conflicts(out)]

MergeArrays(Inner(_, _, _, _), a, l, r, path) ==
    IF AllHaveId(a) /\ AllHaveId(l) /\ AllHaveId(r)
    THEN MergeArraysById(Inner, a, l, r, path)
    ELSE MergeArraysByIndex(Inner, a, l, r, path)

MergeValues(Inner(_, _, _, _), a, l, r, path) ==
    IF IsObject(a) /\ IsObject(l) /\ IsObject(r)
    THEN MergeObjects(Inner, a, l, r, path)
    ELSE IF IsArray(a) /\ IsArray(l) /\ IsArray(r)
         THEN MergeArrays(Inner, a.arr, l.arr, r.arr, path)
         ELSE MergeScalar(a, l, r, path)

\* The documents below are three levels deep: a project has lists, a list has
\* lanes or tracks, a track has scalars, which nothing is inside of.
MergeInList(a, l, r, path) == MergeValues(MergeScalar, a, l, r, path)
MergeInProject(a, l, r, path) == MergeValues(MergeInList, a, l, r, path)

Merge3(a, l, r) == MergeValues(MergeInProject, a, l, r, <<>>)

(***************************************************************************)
(* The choices of a person are applied along the path of each conflict,    *)
(* which is read back from its text.                                       *)
(***************************************************************************)
Failed == [failed |-> TRUE]

\* A path is text: "[id=a]b]" is read back as the identity "a".
PathSegments(path) ==
    [i \in DOMAIN path |->
        IF "id" \in DOMAIN path[i] /\ path[i].id \in Bracketed
        THEN [cut |-> path[i].id] ELSE path[i]]

\* The index or key that a segment leads to in v.
Positions(v, seg) ==
    CASE "key" \in DOMAIN seg /\ IsObject(v) -> DOMAIN v.obj \cap {seg.key}
      [] "index" \in DOMAIN seg /\ IsArray(v) -> DOMAIN v.arr \cap {seg.index}
      [] "id" \in DOMAIN seg /\ IsArray(v) ->
            {i \in DOMAIN v.arr :
                /\ IdOf(v.arr[i]) = Scalar(seg.id)
                /\ \A j \in 1..(i - 1) : IdOf(v.arr[j]) # Scalar(seg.id)}
      [] OTHER -> {}

Below(v, p) == IF IsObject(v) THEN v.obj[p] ELSE v.arr[p]

Replaced(v, p, new) ==
    IF IsObject(v) THEN Object([v.obj EXCEPT ![p] = new])
                   ELSE Array([v.arr EXCEPT ![p] = new])

\* The value one segment below v.
Step(v, seg) ==
    LET under == Positions(v, seg)
    IN  IF under = {} THEN Nothing ELSE Below(v, CHOOSE p \in under : TRUE)

\* The values met on the way from root along a path, Nothing where it ends.
Along(root, path) ==
    LET at[d \in 0..Len(path)] ==
            IF d = 0 THEN root
            ELSE Step(at[d - 1], path[d])
    IN  at

\* set_conflicted_value; the replacement of a conflict is never absent and
\* what it replaces is in the merge base already.
SetConflictedValue(root, path, new) ==
    LET at == Along(root, path)
        under(d) == Positions(at[d - 1], path[d])
        \* The new value of what is d segments above the end of the path.
        up[d \in 0..Len(path)] ==
            IF d = 0 THEN new
            ELSE LET e == Len(path) - d + 1
                 IN  Replaced(at[e - 1], CHOOSE p \in under(e) : TRUE, up[d - 1])
    IN  IF path = <<>> \/ \E d \in DOMAIN path : under(d) = {}
        THEN Failed ELSE up[Len(path)]

\* A local choice is in the base already.
ResolveOne(v, conflict, choice) ==
    IF v = Failed \/ choice = "local" THEN v
    ELSE SetConflictedValue(v, PathSegments(conflict.path), conflict.remote)

\* One conflict after the other.
ResolveConflicts(merge, choices) ==
    LET resolved[i \in 0..Len(merge.conflicts)] ==
            IF i = 0 THEN merge.value
            ELSE ResolveOne(resolved[i - 1], merge.conflicts[i], choices[i])
    IN  resolved[Len(merge.conflicts)]

(***************************************************************************)
(* What is checked of a merged snapshot before it is committed.            *)
(***************************************************************************)
Tracks(v) == Field(v, "tracks").arr

\* Two elements draw the same identity from the NextPointeeId counter.
SharedTargets(v) ==
    {i \in DOMAIN Tracks(v) : \E j \in DOMAIN Tracks(v) :
        i # j /\ Field(Tracks(v)[i], "target") = Field(Tracks(v)[j], "target")}

\* The counter would hand out an identity that is in use.
CounterTooLow(v) ==
    \E i \in DOMAIN Tracks(v) : Field(Tracks(v)[i], "target").num >= Field(v, "next").num

\* Two siblings share the identity merges match on.
SharedSiblingIds(v) ==
    {i \in DOMAIN Tracks(v) : \E j \in DOMAIN Tracks(v) :
        i # j /\ IdOf(Tracks(v)[i]) = IdOf(Tracks(v)[j])}

Coherent(v) == SharedTargets(v) = {} /\ ~CounterTooLow(v) /\ SharedSiblingIds(v) = {}

\* Every element of an external snapshot reads as XML content: none is null.
ReadsAsXml(v) == \A i \in DOMAIN Field(v, "lanes").arr : Field(v, "lanes").arr[i] # Null

\* ProjectSnapshot::from_canonical_bytes: native JSON is taken as it is.
ValidSnapshot(v) == format = "auru" \/ ReadsAsXml(v)

\* Wrong variant: a merge without conflicts is taken for a coherent set.
IntegrityProblemsNone(v) == FALSE

\* Only Live Sets are checked, and only those that can be read.
IntegrityProblems(v) == format = "ableton" /\ ReadsAsXml(v) /\ ~Coherent(v)

(***************************************************************************)
(* Machines.                                                               *)
(***************************************************************************)
Track(id, level, target) ==
    Object([id |-> Scalar(id), level |-> Scalar(level), target |-> Number(target)])

\* The project two machines start from: one track, no lanes.
Start(id, level) ==
    Object([tempo |-> Scalar(level), next |-> Number(1), lanes |-> Array(<<>>),
            tracks |-> Array(<<Track(id, level, 0)>>)])

\* A dialog that asks nothing.
NoQuestion == [prepared |-> Nothing, conflicts |-> <<>>]

Commit(snapshot, parents, unedited, answers, sides) ==
    [snapshot |-> snapshot, parents |-> parents, unedited |-> unedited,
     answers |-> answers, sides |-> sides]

MergeInit ==
    \E id \in TrackId, level \in Level :
        /\ format \in Format
        /\ file = [m \in Machine |-> Start(id, level)]
        /\ edited = [m \in Machine |-> FALSE]
        /\ base = [m \in Machine |-> 1]
        /\ question = [m \in Machine |-> NoQuestion]
        /\ history = <<Commit(Start(id, level), <<>>, FALSE, <<>>, <<>>)>>
        /\ edits = 0

\* Everything one edit in the workstation may leave in the file.
With(v, k, new) == Object([v.obj EXCEPT ![k] = new])

EditsOf(v) ==
    LET tracks == Tracks(v)
        lanes == Field(v, "lanes").arr
        next == Field(v, "next").num
        ids == {IdOf(tracks[i]).is : i \in DOMAIN tracks}
    IN  {With(v, "tempo", Scalar(x)) : x \in Level}
        \cup {With(v, "tracks", Array([tracks EXCEPT ![i] = With(tracks[i], "level", Scalar(x))])) :
                i \in DOMAIN tracks, x \in Level}
        \cup {With(v, "tracks", Array(RemoveAt(tracks, i))) : i \in DOMAIN tracks}
        \cup {With(With(v, "tracks", Array(Append(tracks, Track(id, x, next)))),
                   "next", Number(next + 1)) : id \in TrackId \ ids, x \in Level}
        \cup {With(v, "lanes", Array(Append(lanes, Scalar(x)))) : x \in Level}
        \cup {With(v, "lanes", Array([lanes EXCEPT ![i] = Scalar(x)])) : i \in DOMAIN lanes, x \in Level}
        \cup {With(v, "lanes", Array(RemoveAt(lanes, i))) : i \in DOMAIN lanes}

Edit(m) ==
    /\ edits < MaxEdits
    /\ \E v \in EditsOf(file[m]) \ {file[m]} :
        /\ file' = [file EXCEPT ![m] = v]
        /\ edited' = [edited EXCEPT ![m] = TRUE]
    /\ edits' = edits + 1
    /\ UNCHANGED <<format, base, question, history>>

HeadOf == Len(history)
HeadSnapshot == history[HeadOf].snapshot
Ancestor(m) == history[base[m]].snapshot

\* The snapshot `pushed' of m lands in c: HEAD and local_head advance, the
\* file stays as it is.
Land(m, pushed, c) ==
    /\ ValidSnapshot(c.snapshot)
    /\ Len(history) < MaxCommits
    /\ history' = Append(history, c)
    /\ base' = [base EXCEPT ![m] = HeadOf + 1]
    /\ edited' = [edited EXCEPT ![m] = file[m] # pushed]
    /\ question' = [question EXCEPT ![m] = NoQuestion]
    /\ UNCHANGED <<format, file, edits>>

\* A backup starts; a project that waits for a decision is not backed up.
CanPush(m) == question[m] = NoQuestion

\* HEAD is where the machine left it: no merge.
PushForward(m) ==
    /\ CanPush(m)
    /\ base[m] = HeadOf
    /\ Land(m, file[m], Commit(file[m], <<base[m]>>, ~edited[m], <<>>, <<>>))

MergeOf(m, pushed) == Merge3(Ancestor(m), pushed, HeadSnapshot)

\* A merge commit and, for the properties, what it merged.
MergeCommit(m, pushed, snapshot, answers) ==
    Commit(snapshot, <<base[m], HeadOf>>, ~edited[m], answers,
           <<Ancestor(m), pushed, HeadSnapshot>>)

\* The merge is clean and coherent.
LandMerged(m, pushed, merge) ==
    /\ merge.conflicts = <<>>
    /\ ~IntegrityProblems(merge.value)
    /\ Land(m, pushed, MergeCommit(m, pushed, merge.value, <<>>))

\* Fields are in conflict: the dialog shows them, and keeps the snapshot it
\* is about.
Ask(m, pushed, merge) ==
    /\ merge.conflicts # <<>>
    /\ question' = [question EXCEPT ![m] = [prepared |-> pushed, conflicts |-> merge.conflicts]]
    /\ UNCHANGED <<format, file, edited, base, history, edits>>

\* HEAD moved.
PushBehind(m) ==
    /\ CanPush(m)
    /\ base[m] # HeadOf
    /\ LET merge == MergeOf(m, file[m])
       IN  LandMerged(m, file[m], merge) \/ Ask(m, file[m], merge)

\* Wrong variant: only the number of conflicts is compared.
SameConflictsByCount(shown, current) == Len(shown) = Len(current)

\* conflict_resolutions_match
SameConflicts(shown, current) == shown = current

\* The choices are applied to the conflicts they were made for.  A path that
\* leads nowhere commits nothing.
LandResolved(m, pushed, merge) ==
    /\ merge.conflicts # <<>>
    /\ SameConflicts(question[m].conflicts, merge.conflicts)
    /\ \E choices \in [DOMAIN question[m].conflicts -> {"local", "remote"}] :
        LET resolved == ResolveConflicts(merge, choices)
            answers == [i \in DOMAIN choices |->
                            [shown |-> question[m].conflicts[i], choice |-> choices[i]]]
        IN  /\ resolved # Failed
            /\ ~IntegrityProblems(resolved)
            /\ Land(m, pushed, MergeCommit(m, pushed, resolved, answers))

\* The dialog is confirmed: head and conflicts are computed again for the
\* snapshot it is about.  The conflicts may be the ones it showed, or gone,
\* or others, which it shows then.
Confirm(m) ==
    /\ question[m] # NoQuestion
    /\ LET pushed == question[m].prepared
           merge == MergeOf(m, pushed)
       IN  \/ LandResolved(m, pushed, merge)
           \/ LandMerged(m, pushed, merge)
           \/ ~SameConflicts(question[m].conflicts, merge.conflicts) /\ Ask(m, pushed, merge)

\* The choices lead to a set with problems, or the library is read from disk
\* again: the question is put aside.
PutAside(m) ==
    /\ question[m] # NoQuestion
    /\ question' = [question EXCEPT ![m] = NoQuestion]
    /\ UNCHANGED <<format, file, edited, base, history, edits>>

\* The newest version is restored over the project of the machine.
TakeHead(m) ==
    /\ base[m] # HeadOf
    /\ file' = [file EXCEPT ![m] = HeadSnapshot]
    /\ base' = [base EXCEPT ![m] = HeadOf]
    /\ edited' = [edited EXCEPT ![m] = FALSE]
    /\ question' = [question EXCEPT ![m] = NoQuestion]
    /\ UNCHANGED <<format, history, edits>>

MergeNext ==
    \E m \in Machine :
        \/ Edit(m) \/ PushForward(m) \/ PushBehind(m)
        \/ Confirm(m) \/ PutAside(m) \/ TakeHead(m)

MergeSpec == MergeInit /\ [][MergeNext]_mergeVars

(***************************************************************************)
(* Properties.                                                             *)
(***************************************************************************)

\* No version of a Live Set that reached the history has two elements with
\* one modulation identity, a counter that would hand one out again, or two
\* siblings with one Id, although each side of a merge may have allocated the
\* same identities (integrity_problems in sync.rs).
LandedIsCoherent ==
    format = "ableton" => \A i \in DOMAIN history : Coherent(history[i].snapshot)

\* The value at a path of a snapshot.
ValueAt(v, path) == Along(v, path)[Len(path)]

\* Every choice a person made holds in the commit it led to: the field has
\* the value that was shown for the chosen side, whatever was pushed between
\* showing and confirming (conflict_resolutions_match, resolve_conflicts).
ResolvedAsShown ==
    \A i \in DOMAIN history : \A k \in DOMAIN history[i].answers :
        LET a == history[i].answers[k]
            want == IF a.choice = "local" THEN a.shown.local ELSE a.shown.remote
        IN  ValueAt(history[i].snapshot, a.shown.path) = want

TrackOf(v, id) == ById(Tracks(v), Scalar(id))

\* What one side only changed is in the merge as that side left it.
Follows(a, l, r, out) == (r = a => out = l) /\ (l = a => out = r)

\* The fields a change can be followed through: the tempo, the list merged by
\* position, a track as a whole, and the level of a track that nobody removed.
OneSidedKept(a, l, r, out) ==
    /\ Follows(Field(a, "tempo"), Field(l, "tempo"), Field(r, "tempo"), Field(out, "tempo"))
    /\ Follows(Field(a, "lanes"), Field(l, "lanes"), Field(r, "lanes"), Field(out, "lanes"))
    /\ \A id \in TrackId :
        LET at == TrackOf(a, id)
            lt == TrackOf(l, id)
            rt == TrackOf(r, id)
            ot == TrackOf(out, id)
        IN  /\ Follows(at, lt, rt, ot)
            /\ Nothing \notin {at, lt, rt} =>
                Follows(Field(at, "level"), Field(lt, "level"), Field(rt, "level"), Field(ot, "level"))

\* A merge commit without answers has every change that only one side made:
\* tempo, tracks added, removed or changed, the level of a track that both
\* sides kept, and the list merged by position (merge3).
OneSidedChangesKept ==
    \A i \in DOMAIN history : history[i].sides # <<>> /\ history[i].answers = <<>> =>
        OneSidedKept(history[i].sides[1], history[i].sides[2], history[i].sides[3],
                     history[i].snapshot)

\* local_head is "the commit id the local working state was last synced to"
\* (sidecar.rs): backing up a file nobody edited since changes nothing.
UneditedPushKeepsHead ==
    \A i \in DOMAIN history :
        history[i].unedited /\ Len(history[i].parents) = 1 =>
            history[i].snapshot = history[history[i].parents[1]].snapshot
=============================================================================
