------------------------------- MODULE Assets ------------------------------
(***************************************************************************)
(* The files a project refers to: which of them a backup stores            *)
(* (auru-pm/src/ableton/assets.rs and bundle.rs, flstudio/assets.rs,       *)
(* asset_plan.rs, build_sample_manifest in sync.rs) and where a restore on *)
(* a machine without any of them points the project instead                *)
(* (ableton/restore.rs, kernel ableton/rewrite.rs, flstudio/restore.rs,    *)
(* restore_auru in backend.rs).                                            *)
(*                                                                         *)
(* A file is a directory and a name, which stand for its bytes too.        *)
(***************************************************************************)
EXTENDS Integers, SequencesExt, FiniteSetsExt

CONSTANTS
    Name,        \* file names
    Kind,        \* project kinds checked: "ableton", "flstudio", "auru"
    Refs,        \* number of references of a project
    Aliased      \* whether a path alias maps the drive of another machine

ASSUME AssetsAssumption ==
    /\ Kind \subseteq {"ableton", "flstudio", "auru"}
    /\ Refs \in Nat

VARIABLES
    kind,       \* the kind of the project
    refs,       \* its references, in document order
    disk,       \* files that exist on the machine that backs up
    skipped,    \* those in the project folder that a walk leaves out
    twins,      \* whether files of one name have the same bytes
    plan,       \* the plan of the backup, NoPlan before
    manifest,   \* entries committed, NoManifest before
    unavailable,\* references the backup reported
    lost,       \* manifest paths the provider lost
    opened      \* per reference, where the restored project points

assetVars == <<kind, refs, disk, skipped, twins, plan, manifest, unavailable, lost, opened>>

NoPath == [no |-> "path"]
NoPlan == [no |-> "plan"]
NoManifest == {[no |-> "manifest"]}
NotRestored == <<>>

At(dir, name) == [dir |-> dir, name |-> name]

(***************************************************************************)
(* Ableton references: RelativePathType, RelativePath (which may leave the *)
(* project folder), Path, LivePackName, and the flat encoding of Live 11   *)
(* or the nested one of Live 9 and 10.                                     *)
(***************************************************************************)
Rel(up, name) == [up |-> up, name |-> name]

LiveRef(type, rel, abs, pack, flat) ==
    [type |-> type, rel |-> rel, abs |-> abs, pack |-> pack, flat |-> flat]

LiveRefs ==
    {LiveRef(3, Rel(FALSE, n), At("project", n), FALSE, TRUE) : n \in Name}
    \cup {LiveRef(1, Rel(TRUE, n), At("outside", n), p, f) : n \in Name, p \in BOOLEAN, f \in BOOLEAN}
    \cup {LiveRef(1, Rel(FALSE, n), At("project", n), FALSE, TRUE) : n \in Name}
    \cup {LiveRef(5, Rel(FALSE, n), At("install", n), FALSE, TRUE) : n \in Name}
    \cup {LiveRef(6, Rel(FALSE, n), At("library", n), FALSE, f) : n \in Name, f \in BOOLEAN}
    \cup {LiveRef(0, NoPath, At(d, n), FALSE, TRUE) : d \in {"outside", "drive"}, n \in Name}
    \cup {LiveRef(0, NoPath, NoPath, FALSE, TRUE)}

\* classify in kernel ableton/refs.rs
Class(r) ==
    CASE r.rel = NoPath /\ r.abs = NoPath -> "unresolvable"
      [] r.type = 5 -> "library"
      [] r.type = 6 -> "userlibrary"
      [] r.type = 3 -> "infolder"
      [] r.type = 1 -> IF r.rel.up THEN "external" ELSE "infolder"
      [] OTHER -> IF r.pack \/ r.abs.dir = "install" THEN "library"
                  ELSE IF r.rel = NoPath \/ r.rel.up THEN "external" ELSE "infolder"

\* dedup_key
Key(r) == IF r.rel = NoPath THEN r.abs ELSE r.rel

ShouldGather(class) == class \in {"external", "userlibrary"}

\* PathAlias::apply
ApplyAlias(abs) ==
    IF Aliased /\ abs.dir = "drive" THEN {At("outside", abs.name)} ELSE {}

\* AbletonBundle::resolve: the relative path against the project folder, the
\* absolute path if it is one of this system, then the aliases.
Resolve(r) ==
    LET near  == IF r.rel = NoPath THEN {}
                 ELSE {At(IF r.rel.up THEN "outside" ELSE "project", r.rel.name)}
        far   == IF r.abs = NoPath \/ r.abs.dir = "drive" THEN {} ELSE {r.abs}
        alias == IF r.abs = NoPath THEN {} ELSE ApplyAlias(r.abs)
    IN  IF near \cap disk # {} THEN near
        ELSE IF far \cap disk # {} THEN far ELSE alias \cap disk

\* AbletonBundle::enumerate: no symbolic links, oversized files or backups.
Enumerated == {f \in disk : f.dir = "project"} \ skipped

\* A place under Samples/Imported that is still free.
Wanted(r) == IF r.rel = NoPath THEN r.abs.name ELSE r.rel.name

AllocatePath(name, taken) ==
    LET free == {n \in 1..(Cardinality(taken) + 1) : [imported |-> name, n |-> n] \notin taken}
    IN  [imported |-> name, n |-> Min(free)]

Entry(path, source, origin) == [path |-> path, source |-> source, origin |-> origin]

\* The references to gather, one for each key, the first in the document.
Gathered ==
    LET first(i) == \A j \in 1..(i - 1) :
                        ShouldGather(Class(refs[j])) => Key(refs[j]) # Key(refs[i])
    IN  {i \in DOMAIN refs : ShouldGather(Class(refs[i])) /\ first(i)}

\* One gathered reference: reported, already in the folder, or placed.
PlanOne(p, r) ==
    LET found == Resolve(r)
        taken == {e.path : e \in p.entries}
    IN  IF found = {} THEN [p EXCEPT !.missing = @ \cup {Key(r)}]
        ELSE LET f == CHOOSE f \in found : TRUE
             IN  IF f.dir = "project"
                 THEN IF f \in Enumerated THEN p
                      ELSE [p EXCEPT !.missing = @ \cup {Key(r)}]
                 ELSE [p EXCEPT !.entries = @ \cup
                        {Entry(AllocatePath(Wanted(r), taken), f, Key(r))}]

\* rewrite_one: it reads the flat encoding only.
RewriteOne(r, placed) ==
    LET rel == IF r.flat THEN r.rel ELSE NoPath
        abs == IF r.flat THEN r.abs ELSE NoPath
        key == IF rel = NoPath THEN abs ELSE rel
        to  == {e \in placed : e.origin = key}
    IN  IF rel = NoPath /\ abs = NoPath THEN [left |-> "empty"]
        ELSE IF r.type = 5 \/ r.pack THEN [left |-> "live"]
        ELSE IF to # {} THEN [to |-> (CHOOSE e \in to : TRUE).path]
        ELSE IF r.type = 3 /\ rel # NoPath THEN [left |-> "infolder"]
        ELSE [left |-> "unresolved"]

(***************************************************************************)
(* FL Studio references: a recorded path, absolute, under the user's data  *)
(* folder (a variable), scratch space of a zip import, relative or empty.  *)
(***************************************************************************)
FlRef(class, name) == [class |-> class, name |-> name]

FlRefs == {FlRef(c, n) : c \in {"external", "userdata", "fragile", "relative"}, n \in Name}
          \cup {FlRef("missing", CHOOSE n \in Name : TRUE)}

ShouldVendor(class) == class \in {"external", "userdata", "fragile"}

\* Where the path leads on this machine.
LocalPath(r) == At(CASE r.class = "external" -> "outside"
                     [] r.class = "userdata" -> "library"
                     [] r.class = "fragile"  -> "scratch"
                     [] OTHER                -> "project", r.name)

\* refs::distinct
DistinctFl == {i \in DOMAIN refs : \A j \in 1..(i - 1) : refs[j] # refs[i]}

\* The recorded file, else a file of that name beside the project if only
\* one reference has that name.
FlSource(r) ==
    LET same == {i \in DistinctFl : refs[i].name = r.name}
    IN  IF LocalPath(r) \in disk THEN {LocalPath(r)}
        ELSE IF Cardinality(same) = 1 THEN {At("project", r.name)} \cap disk ELSE {}

PlanFlOne(p, r) ==
    LET taken == {e.path : e \in p.entries}
    IN  IF ~ShouldVendor(r.class)
        THEN IF r.class = "missing" THEN [p EXCEPT !.missing = @ \cup {r}] ELSE p
        ELSE IF FlSource(r) = {} THEN [p EXCEPT !.missing = @ \cup {r}]
        ELSE [p EXCEPT !.entries = @ \cup
                {Entry(AllocatePath(r.name, taken), CHOOSE f \in FlSource(r) : TRUE, r)}]

\* One reference of the order in which they are planned.
PlanNext(p, i) ==
    IF kind = "ableton" THEN PlanOne(p, refs[i])
    ELSE IF i \in DistinctFl THEN PlanFlOne(p, refs[i]) ELSE p

\* All of them, one after the other.
Planned(first, order) ==
    LET p[k \in 0..Len(order)] ==
            IF k = 0 THEN first ELSE PlanNext(p[k - 1], order[k])
    IN  p[Len(order)]

\* ableton::assets::plan; the keys are taken in one order or another.
PlanLive ==
    LET folder == [entries |-> {Entry(f, f, NoPath) : f \in Enumerated}, missing |-> {}]
    IN  {Planned(folder, order) : order \in SetToSeqs(Gathered)}

\* flstudio::assets::plan_from_directory, in document order.
PlanFl == {Planned([entries |-> {}, missing |-> {}], [i \in DOMAIN refs |-> i])}

\* flstudio::restore::repoint
Repoint(r, captured) ==
    LET to == {e \in captured : e.origin = r}
    IN  IF to # {} THEN [to |-> (CHOOSE e \in to : TRUE).path]
        ELSE IF r.class \in {"missing", "relative"} THEN [left |-> "infolder"]
        ELSE [left |-> "unresolved"]

(***************************************************************************)
(* Native projects: audio clips name a path; a restore names each file     *)
(* after its content and its old name.                                     *)
(***************************************************************************)
AuruRefs == {At(d, n) : d \in {"project", "outside"}, n \in Name}

PlanAuru == {[entries |-> {Entry(refs[i], refs[i], NoPath) : i \in DOMAIN refs},
              missing |-> {}]}

\* safe_native_asset_file_name
NativeName(path) ==
    [imported |-> path.name, hash |-> IF twins THEN path.name ELSE path.dir]

\* rewrite_native_sample_paths
RewriteNative(r, fetched) ==
    IF \E e \in fetched : e.path = r THEN [to |-> NativeName(r)] ELSE [left |-> "unresolved"]

\* restore_auru writes each file once and refuses to write over one.
NativeRefuses(fetched) ==
    \E d, e \in fetched : d # e /\ NativeName(d.path) = NativeName(e.path)

(***************************************************************************)
(* Backup and restore.                                                     *)
(***************************************************************************)

\* The files one reference may lead to on some machine.
Candidates(r) ==
    CASE kind = "ableton" ->
            (IF r.rel = NoPath THEN {} ELSE {At(IF r.rel.up THEN "outside" ELSE "project", r.rel.name)})
            \cup (IF r.abs = NoPath THEN {} ELSE {r.abs} \cup ApplyAlias(r.abs))
      [] kind = "flstudio" -> {LocalPath(r), At("project", r.name)}
      [] OTHER -> {r}

Disks == SUBSET {f \in UNION {Candidates(refs[i]) : i \in DOMAIN refs} : f.dir # "drive"}

AssetInit ==
    /\ kind \in Kind
    /\ refs \in [1..Refs -> CASE kind = "ableton"  -> LiveRefs
                              [] kind = "flstudio" -> FlRefs
                              [] kind = "auru"     -> AuruRefs]
    /\ disk \in Disks
    /\ skipped \in {{}} \cup {{f} : f \in {g \in disk : g.dir = "project"}}
    /\ twins \in {FALSE, kind = "auru"}
    /\ plan = NoPlan
    /\ manifest = NoManifest
    /\ unavailable = {}
    /\ lost = {}
    /\ opened = NotRestored

\* plan_assets_with_report
PlanAssets ==
    /\ plan = NoPlan
    /\ plan' \in CASE kind = "ableton" -> PlanLive
                   [] kind = "flstudio" -> PlanFl
                   [] OTHER -> PlanAuru
    /\ unavailable' = plan'.missing
    /\ UNCHANGED <<kind, refs, disk, skipped, twins, manifest, lost, opened>>

\* A file is moved or deleted while the backup runs.
FileGoes ==
    /\ plan # NoPlan /\ manifest = NoManifest
    /\ \E e \in plan.entries : e.source \in disk /\ disk' = disk \ {e.source}
    /\ UNCHANGED <<kind, refs, skipped, twins, plan, manifest, unavailable, lost, opened>>

\* Wrong variant: what cannot be read any more is left out without a word.
UnreadableSilent(entries) == {}

\* build_sample_manifest reports what it cannot read under its path.
Unreadable(entries) == {e.path : e \in {x \in entries : x.source \notin disk}}

\* Every planned file is read and stored; then the manifest is committed.
StoreAssets ==
    /\ plan # NoPlan /\ manifest = NoManifest
    /\ manifest' = {e \in plan.entries : e.source \in disk}
    /\ unavailable' = unavailable \cup Unreadable(plan.entries)
    /\ UNCHANGED <<kind, refs, disk, skipped, twins, plan, lost, opened>>

\* The provider loses the content of one entry.
LoseAsset ==
    /\ manifest # NoManifest /\ opened = NotRestored /\ lost = {}
    /\ \E e \in manifest : lost' = {e.path}
    /\ UNCHANGED <<kind, refs, disk, skipped, twins, plan, manifest, unavailable, opened>>

\* Entries that arrive on the machine that restores.
Fetched == {e \in manifest : e.path \notin lost}

\* restore_bundle rewrites by the whole manifest, restore_fl and restore_auru
\* by what was fetched.
Rewritten(r) ==
    CASE kind = "ableton"  -> RewriteOne(r, {e \in manifest : e.origin # NoPath})
      [] kind = "flstudio" -> Repoint(r, Fetched)
      [] OTHER             -> RewriteNative(r, Fetched)

RestoreAssets ==
    /\ manifest # NoManifest /\ opened = NotRestored
    /\ kind = "auru" => ~NativeRefuses(Fetched)
    /\ opened' = [i \in DOMAIN refs |-> Rewritten(refs[i])]
    /\ UNCHANGED <<kind, refs, disk, skipped, twins, plan, manifest, unavailable, lost>>

AssetNext == PlanAssets \/ FileGoes \/ StoreAssets \/ LoseAsset \/ RestoreAssets

AssetSpec == AssetInit /\ [][AssetNext]_assetVars

(***************************************************************************)
(* Properties.                                                             *)
(***************************************************************************)

\* The file the workstation opened for a reference on the original machine.
Meant(r) ==
    CASE kind = "ableton" ->
            (CASE r.type \in {1, 3} -> At(IF r.rel.up THEN "outside" ELSE "project", r.rel.name)
               [] OTHER -> IF ApplyAlias(r.abs) # {} THEN At("outside", r.abs.name) ELSE r.abs)
      [] kind = "flstudio" -> LocalPath(r)
      [] OTHER -> r

\* The references the code undertakes to carry: Live 9 and 10 encodings and
\* references with a pack name are gathered but not rewritten, files the walk
\* skips and FL Studio paths relative to the project are left to the user,
\* and content of Live's own library is never stored.
Carried(r) ==
    CASE kind = "ableton" -> /\ Class(r) \notin {"unresolvable", "library"}
                             /\ r.flat /\ ~r.pack
                             /\ Meant(r) \notin skipped
      [] kind = "flstudio" -> ShouldVendor(r.class)
      [] OTHER -> TRUE

\* What the restored project finds where the reference points now.
Finds(i) ==
    LET o == opened[i]
        at(e) == IF kind = "auru" THEN NativeName(e.path) ELSE e.path
    IN  IF "to" \in DOMAIN o THEN {e.source : e \in {x \in Fetched : at(x) = o.to}}
        ELSE IF o.left = "infolder"
             THEN {e.source : e \in {x \in Fetched : x.path = Meant(refs[i])}}
             ELSE {}

\* What the reports call a reference.
Origin(r) == IF kind = "ableton" THEN Key(r) ELSE r

\* A problem with this reference was reported: by the backup under its own
\* path or under the path planned for its file, by the restore as a file that
\* could not be fetched or as a reference that could not be rewritten.
Reported(i) ==
    LET about == {e.path : e \in {x \in plan.entries :
                    x.origin = Origin(refs[i]) \/ x.source = Meant(refs[i])}}
    IN  \/ Origin(refs[i]) \in unavailable
        \/ about \cap (unavailable \cup lost) # {}
        \/ opened[i] = [left |-> "unresolved"]

\* The files there were when the backup began.
AtFirst == disk \cup {e.source : e \in plan.entries}

\* A restored project opens the file each reference meant, and no other file
\* of that name, or the person was told about that reference: by the
\* backup or by the restore (plan, rewrite_one, repoint).
CarriedOrReported ==
    opened # NotRestored => \A i \in DOMAIN refs :
        Carried(refs[i]) /\ Meant(refs[i]) \in AtFirst =>
            Finds(i) = {Meant(refs[i])} \/ Reported(i)
=============================================================================
