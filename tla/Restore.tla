------------------------------ MODULE Restore ------------------------------
(***************************************************************************)
(* Restoring one version of a project into a library folder: the collision *)
(* choice, the staged and verified tree, its publication by renames with   *)
(* the existing folder set aside, the enrolment of a recovered project,    *)
(* and the library rows that reloads, refreshes and late results change    *)
(* meanwhile (apps/auru-pm-ui/src: backend.rs, main.rs, model.rs;          *)
(* crates/auru-pm/src: ableton/restore.rs, flstudio/restore.rs,            *)
(* verified_io.rs).                                                        *)
(*                                                                         *)
(* Every restore is of the same version into the same library root, so     *)
(* that all of them ask for the same folder: the case where they can hurt  *)
(* each other or work that is already there.  A folder is the files it     *)
(* holds, each being the user's own, the version's, or damaged.            *)
(***************************************************************************)
EXTENDS Integers

CONSTANTS
    Task,        \* restores, each started once
    VersionFile, \* files of the version
    MineFile,    \* files of the folder that may be there already
    ProjectFile, \* the project file itself, in both
    MaxCopy,     \* numbered duplicates of the folder: one per restore
    MaxFaults    \* bounds crashes and failed steps

ASSUME RestoreAssumption ==
    /\ ProjectFile \in VersionFile \cap MineFile
    /\ MaxCopy \in Nat /\ MaxFaults \in Nat

File == VersionFile \cup MineFile

VARIABLES
    folder,      \* per place, the files there and the sidecar among them
    task,        \* per restore, its progress
    remoteRow,   \* status of the provider-only row of the project
    rows,        \* rows of restored folders in the library
    watched,     \* whether the library root is watched
    refresh,     \* the catalogue refresh: idle, running, running with another due
    faults,      \* crashes and failed steps so far
    given,       \* history: files that are not there to protect, or no longer
    overlapped   \* history: a restore set out to replace a folder while
                 \* another one was publishing

vars == <<folder, task, remoteRow, rows, watched, refresh, faults, given,
          overlapped>>

\* Folders of the library root: the requested one and its duplicates.
Root == {"library"} \X (1..(1 + MaxCopy))
Numbered(n) == <<"library", n>>
Requested == Numbered(1)
Staging(t) == <<"restoring", t>>
Previous(t) == <<"previous", t>>
Hidden == {"restoring", "previous"} \X Task
Place == Root \cup Hidden

Content == {"absent", "mine", "version", "damaged"}
Sidecar == {"none", "mine", "enrolled"}
NoFolder == [there |-> FALSE, files |-> [f \in File |-> "absent"], sidecar |-> "none"]
Empty == [NoFolder EXCEPT !.there = TRUE]
Folders == [there : BOOLEAN, files : [File -> Content], sidecar : Sidecar]

Choices == {"AbortIfExists", "Duplicate", "Overwrite", "DeleteAndReplace"}
Replacing == {"Overwrite", "DeleteAndReplace"}

Idle == [at |-> "idle", choice |-> "AbortIfExists", remote |-> FALSE,
         to |-> Requested, files |-> {}, error |-> FALSE]

Tasks == [at : {"idle", "over", "resolve", "stage", "install", "check",
                "protect", "replace", "merge", "confirm", "clean", "enrol", "done"},
          choice : Choices, remote : BOOLEAN, to : Root, files : SUBSET VersionFile,
          error : BOOLEAN]

\* The user's folder: none, or one with files of its own and maybe a sidecar.
Mine(sidecar) ==
    [there |-> TRUE, sidecar |-> sidecar,
     files |-> [f \in File |-> IF f \in MineFile THEN "mine" ELSE "absent"]]

RestoreInit ==
    /\ \E existing \in {NoFolder, Mine("none"), Mine("mine")} :
          /\ folder = [pl \in Place |-> IF pl = Requested THEN existing ELSE NoFolder]
          /\ given = IF existing.there THEN {} ELSE MineFile
    /\ task = [t \in Task |-> Idle]
    /\ remoteRow \in {"none", "NotDownloaded"}
    /\ rows = {}
    /\ watched \in BOOLEAN
    /\ refresh = "running"
    /\ faults = 0
    /\ overlapped = FALSE

Exists(pl) == folder[pl].there

Fault == faults < MaxFaults /\ faults' = faults + 1

library == <<remoteRow, rows, watched, refresh>>

At(t, at) == task' = [task EXCEPT ![t].at = at]

\* The restore returns an error, after it has tried to remove its staging
\* folder from the folders fs.
Fails(t, fs) ==
    /\ folder' = [fs EXCEPT ![Staging(t)] = NoFolder]
    /\ task' = [task EXCEPT ![t].at = "done", ![t].error = TRUE]

\* fs::rename of a folder that is there onto a path where nothing is.
Moved(fs, from, to) == [fs EXCEPT ![to] = fs[from], ![from] = NoFolder]

\* restore_version: the user picks the folder and answers for a collision.  A
\* provider-only row shows Syncing from here on.
StartRestore(t, remote) ==
    /\ task[t].at = "idle"
    /\ remote = (remoteRow # "none")
    /\ \E choice \in IF Exists(Requested) THEN Choices \ {"AbortIfExists"}
                     ELSE {"AbortIfExists"} :
          task' = [task EXCEPT ![t] = [Idle EXCEPT !.at = "resolve", !.choice = choice,
                                                   !.remote = remote]]
    /\ remoteRow' = IF remote THEN "Syncing" ELSE remoteRow
    /\ UNCHANGED <<folder, rows, watched, refresh, faults, given, overlapped>>

\* unique_duplicate_root: the first path where nothing is.
Unused ==
    {n \in 1..(1 + MaxCopy) : /\ ~Exists(Numbered(n))
                              /\ \A k \in 1..(n - 1) : Exists(Numbered(k))}

\* restore_from_provider up to the staging folder: the version is fetched and
\* resolve_restore_collision chooses the folder to publish.
ResolveCollision(t) ==
    /\ task[t].at = "resolve"
    /\ IF Exists(Requested) /\ task[t].choice = "AbortIfExists" THEN Fails(t, folder)
       ELSE /\ \E n \in IF task[t].choice = "Duplicate" THEN Unused ELSE {1} :
                  task' = [task EXCEPT ![t].at = "stage", ![t].to = Numbered(n)]
            /\ folder' = [folder EXCEPT ![Staging(t)] = Empty]
    /\ UNCHANGED <<library, faults, given, overlapped>>

ResolveFails(t) ==
    /\ task[t].at = "resolve"
    /\ Fault
    /\ Fails(t, folder)
    /\ UNCHANGED <<library, given, overlapped>>

\* Restores between looking for the folder and being done with it.
Publishing == {t \in Task : task[t].at \in {"install", "check", "protect", "replace",
                                           "merge", "confirm", "clean", "enrol"}}

\* What a provider yields of the version: the project itself, or nothing is
\* restored, and whichever samples are still there.
Fetchable == {got \in SUBSET VersionFile : ProjectFile \in got}

\* The tree that restore_bundle, restore_fl, restore_auru or restore_dawproject
\* write of it; a sample that is missing is only counted.
Written(got) == [f \in File |-> IF f \in got THEN "version" ELSE "absent"]

\* restore_into_staging wrote and verified the files it could fetch, got, and
\* publish_verified_restore looks whether the folder is there now.  A tree with
\* files missing never replaces a folder, and no folder is replaced unasked.
Stage(t, got) ==
    LET there == Exists(task[t].to)
        replacing == task[t].choice \in Replacing
    IN  /\ task[t].at = "stage"
        /\ IF got = VersionFile THEN UNCHANGED faults ELSE Fault
        /\ IF (replacing /\ got # VersionFile) \/ (~replacing /\ there)
           THEN Fails(t, folder) /\ UNCHANGED overlapped
           ELSE /\ folder' = [folder EXCEPT ![Staging(t)].files = Written(got)]
                /\ task' = [task EXCEPT ![t].at = IF there THEN "protect" ELSE "install",
                                        ![t].files = got]
                /\ overlapped' = (overlapped \/ (there /\ Publishing # {}))
        /\ UNCHANGED <<library, given>>

StageFails(t) ==
    /\ task[t].at = "stage"
    /\ Fault
    /\ Fails(t, folder)
    /\ UNCHANGED <<library, given, overlapped>>

\* What a rename leaves of a folder: its files, or one of them damaged.
Landed(fs, pl, damaged) ==
    IF damaged THEN [fs EXCEPT ![pl].files[ProjectFile] = "damaged"] ELSE fs

Verifies(t) ==
    LET there == folder[task[t].to]
    IN  there.there /\ \A f \in task[t].files : there.files[f] = "version"

\* Nothing was there: the staged tree takes its place, unless another restore
\* was faster.
Install(t, damaged) ==
    /\ task[t].at = "install"
    /\ damaged => ~Exists(task[t].to)
    /\ IF damaged THEN Fault ELSE UNCHANGED faults
    /\ IF Exists(task[t].to) THEN Fails(t, folder)
       ELSE /\ folder' = Landed(Moved(folder, Staging(t), task[t].to), task[t].to, damaged)
            /\ At(t, "check")
    /\ UNCHANGED <<library, given, overlapped>>

\* Wrong variant: the version is enrolled wherever the project file is.
PlacedAnyhow(t) ==
    task' = [task EXCEPT ![t].at = IF task[t].remote THEN "enrol" ELSE "done"]

\* After verification: enrolment for a complete recovery of a provider-only
\* project, require_complete_recovery's error for a partial one.
Placed(t) ==
    task' = [task EXCEPT ![t].at = IF task[t].remote /\ task[t].files = VersionFile
                                   THEN "enrol" ELSE "done",
                         ![t].error = task[t].remote /\ task[t].files # VersionFile]

\* verify_restore_tree of a new folder; one that fails is moved back and removed.
Check(t) ==
    /\ task[t].at = "check"
    /\ IF Verifies(t) THEN Placed(t) /\ UNCHANGED <<folder, faults>>
       ELSE \/ Fails(t, [folder EXCEPT ![task[t].to] = NoFolder]) /\ UNCHANGED faults
            \/ Fails(t, folder) /\ Fault
    /\ UNCHANGED <<library, given, overlapped>>

\* Wrong variant: the existing folder is deleted before the tree is in place.
ProtectDeletes(t) ==
    /\ task[t].at = "protect"
    /\ IF Exists(task[t].to)
       THEN folder' = [folder EXCEPT ![task[t].to] = NoFolder] /\ At(t, "replace")
       ELSE Fails(t, folder)
    /\ UNCHANGED <<library, faults, given, overlapped>>

\* The existing folder is set aside under a name of its own.
Protect(t) ==
    /\ task[t].at = "protect"
    /\ IF Exists(task[t].to)
       THEN folder' = Moved(folder, task[t].to, Previous(t)) /\ At(t, "replace")
       ELSE Fails(t, folder)
    /\ UNCHANGED <<library, faults, given, overlapped>>

ProtectFails(t) ==
    /\ task[t].at = "protect"
    /\ Fault
    /\ Fails(t, folder)
    /\ UNCHANGED <<library, given, overlapped>>

\* The folders with what t set aside put back, if nothing is in its place.
PutBack(fs, t) ==
    IF fs[task[t].to].there \/ ~fs[Previous(t)].there THEN fs
    ELSE Moved(fs, Previous(t), task[t].to)

\* The staged tree takes its place; if that fails, whatever was set aside is
\* put back.
Replace(t, damaged) ==
    /\ task[t].at = "replace"
    /\ damaged => ~Exists(task[t].to)
    /\ IF damaged THEN Fault ELSE UNCHANGED faults
    /\ IF Exists(task[t].to) THEN Fails(t, folder)
       ELSE /\ folder' = Landed(Moved(folder, Staging(t), task[t].to), task[t].to, damaged)
            /\ At(t, IF task[t].choice = "Overwrite" THEN "merge" ELSE "confirm")
    /\ UNCHANGED <<library, given, overlapped>>

ReplaceFails(t) ==
    /\ task[t].at = "replace"
    /\ Fault
    /\ \E back \in {folder, PutBack(folder, t)} : Fails(t, back)
    /\ UNCHANGED <<library, given, overlapped>>

\* rollback_replacement: the failed tree is moved aside and what was there
\* before is put back, unless either cannot be found any more.
RolledBack(t) ==
    IF Exists(task[t].to)
    THEN PutBack(Moved(folder, task[t].to, Staging(t)), t)
    ELSE folder

\* copy_missing_entries: what the set-aside folder has and the new one has not.
\* The sidecar next to the project file is one of the entries.
Merged(new, old) ==
    [new EXCEPT !.files = [f \in File |-> IF new.files[f] = "absent" THEN old.files[f]
                                          ELSE new.files[f]],
                !.sidecar = IF @ = "none" THEN old.sidecar ELSE @]

Merge(t) ==
    /\ task[t].at = "merge"
    /\ IF Exists(task[t].to)
       THEN /\ folder' = [folder EXCEPT ![task[t].to] = Merged(@, folder[Previous(t)])]
            /\ At(t, "confirm")
       ELSE Fails(t, RolledBack(t))
    /\ UNCHANGED <<library, faults, given, overlapped>>

\* A symbolic link, an unreadable or a badly copied entry stops the merge.
MergeFails(t) ==
    /\ task[t].at = "merge"
    /\ Fault
    /\ \E fs \in {folder, RolledBack(t)} : Fails(t, fs)
    /\ UNCHANGED <<library, given, overlapped>>

\* verify_restore_tree of a folder that replaced another.
Confirm(t) ==
    /\ task[t].at = "confirm"
    /\ IF Verifies(t) THEN At(t, "clean") /\ UNCHANGED folder
       ELSE Fails(t, RolledBack(t))
    /\ given' = IF ~Verifies(t) THEN given
                ELSE given \cup IF task[t].choice = "Overwrite"
                                THEN MineFile \cap VersionFile ELSE MineFile
    /\ UNCHANGED <<library, faults, overlapped>>

\* remove_path of the set-aside folder; what cannot be removed is reported.
Clean(t) ==
    /\ task[t].at = "clean"
    /\ folder' = [folder EXCEPT ![Previous(t)] = NoFolder]
    /\ Placed(t)
    /\ UNCHANGED <<library, faults, given, overlapped>>

CleanFails(t) ==
    /\ task[t].at = "clean"
    /\ Fault
    /\ Placed(t)
    /\ UNCHANGED <<folder, library, given, overlapped>>

\* restore_remote_with_collision saves a sidecar that calls the version
\* verified; the save creates the folder if it is gone.
Enrol(t) ==
    /\ task[t].at = "enrol"
    /\ folder' = [folder EXCEPT ![task[t].to].there = TRUE,
                                ![task[t].to].sidecar = "enrolled"]
    /\ At(t, "done")
    /\ UNCHANGED <<library, faults, given, overlapped>>

EnrolFails(t) ==
    /\ task[t].at = "enrol"
    /\ Fault
    /\ task' = [task EXCEPT ![t].at = "done", ![t].error = TRUE]
    /\ UNCHANGED <<folder, library, given, overlapped>>

-----------------------------------------------------------------------------

\* Project::read_from_disk of a folder, if a project is there.
Listing(n) ==
    IF folder[n].files[ProjectFile] = "absent" THEN {}
    ELSE {[at |-> n, linked |-> folder[n].sidecar = "enrolled"]}

Scanned == IF watched' THEN UNION {Listing(n) : n \in Root} ELSE {}

\* Wrong variant: an error leaves the row as it is.
RestoreDoneQuietly(t) ==
    LET ok == task[t].remote /\ ~task[t].error
        found == Listing(task[t].to)
    IN  /\ task[t].at = "done"
        /\ task' = [task EXCEPT ![t] = [Idle EXCEPT !.at = "over"]]
        /\ watched' = (watched \/ ok)
        /\ rows' = IF ok /\ remoteRow # "none" THEN rows \cup found ELSE rows
        /\ remoteRow' = IF ~ok \/ remoteRow = "none" THEN remoteRow
                        ELSE IF found # {} THEN "none"
                        ELSE "NotDownloaded"
        /\ UNCHANGED <<folder, refresh, faults, given, overlapped>>

\* The result comes back to restore_version's task.  A recovered project is
\* watched and takes the place of its provider-only row, if that is there.
RestoreDone(t) ==
    LET ok == task[t].remote /\ ~task[t].error
        found == Listing(task[t].to)
    IN  /\ task[t].at = "done"
        /\ task' = [task EXCEPT ![t] = [Idle EXCEPT !.at = "over"]]
        /\ watched' = (watched \/ ok)
        /\ rows' = IF ok /\ remoteRow # "none" THEN rows \cup found ELSE rows
        /\ remoteRow' = IF ~task[t].remote \/ remoteRow = "none" THEN remoteRow
                        ELSE IF ok /\ found # {} THEN "none"
                        ELSE "NotDownloaded"
        /\ UNCHANGED <<folder, refresh, faults, given, overlapped>>

\* refresh_remote_projects while one is running only notes that another is due.
StartRefresh == refresh' = IF refresh = "idle" THEN "running" ELSE "due"

\* replace_provider_projects: the provider's row is made anew, unless a local
\* row is linked to the project.
RefreshDone ==
    /\ refresh # "idle"
    /\ refresh' = IF refresh = "due" THEN "running" ELSE "idle"
    /\ remoteRow' = IF \E r \in rows : r.linked THEN "none" ELSE "NotDownloaded"
    /\ UNCHANGED <<folder, task, rows, watched, faults, given, overlapped>>

\* The provider cannot be reached: the row stays as it is.
RefreshFails ==
    /\ refresh # "idle"
    /\ Fault
    /\ refresh' = IF refresh = "due" THEN "running" ELSE "idle"
    /\ UNCHANGED <<folder, task, remoteRow, rows, watched, given, overlapped>>

\* reload_library: local rows are read again, provider-only rows are kept.
Reload ==
    /\ watched' = watched
    /\ rows' = Scanned
    /\ StartRefresh
    /\ UNCHANGED <<folder, task, remoteRow, faults, given, overlapped>>

\* record_watched_folder: the library is read again, without the
\* provider-only rows, which the next refresh brings back.
WatchFolder ==
    /\ ~watched
    /\ watched' = TRUE
    /\ rows' = Scanned
    /\ remoteRow' = "none"
    /\ UNCHANGED <<folder, task, refresh, faults, given, overlapped>>

\* The application stops and is started again; folders stay as they are.
Restart ==
    /\ Fault
    /\ task' = [t \in Task |-> IF task[t].at = "idle" THEN Idle
                              ELSE [Idle EXCEPT !.at = "over"]]
    /\ watched' = watched
    /\ rows' = Scanned
    /\ remoteRow' = "none"
    /\ refresh' = "running"
    /\ UNCHANGED <<folder, given, overlapped>>

TaskStep(t) ==
    \/ ResolveCollision(t) \/ ResolveFails(t)
    \/ \E got \in Fetchable : Stage(t, got)
    \/ StageFails(t)
    \/ \E damaged \in BOOLEAN : Install(t, damaged) \/ Replace(t, damaged)
    \/ Check(t) \/ Protect(t) \/ ProtectFails(t) \/ ReplaceFails(t)
    \/ Merge(t) \/ MergeFails(t) \/ Confirm(t) \/ Clean(t) \/ CleanFails(t)
    \/ Enrol(t) \/ EnrolFails(t) \/ RestoreDone(t)

RestoreNext ==
    \/ \E t \in Task : TaskStep(t) \/ \E remote \in BOOLEAN : StartRestore(t, remote)
    \/ RefreshDone \/ RefreshFails \/ Reload \/ WatchFolder \/ Restart

RestoreSpec == RestoreInit /\ [][RestoreNext]_vars

-----------------------------------------------------------------------------

\* Every variable holds a value of its type.
RestoreTypeOK ==
    /\ folder \in [Place -> Folders]
    /\ task \in [Task -> Tasks]
    /\ remoteRow \in {"none", "NotDownloaded", "Syncing"}
    /\ rows \subseteq [at : Root, linked : BOOLEAN]
    /\ watched \in BOOLEAN
    /\ refresh \in {"idle", "running", "due"}
    /\ faults \in 0..MaxFaults
    /\ given \in SUBSET MineFile
    /\ overlapped \in BOOLEAN

\* Work that was in the way of a restore is never lost: each file of the
\* folder that was there is still in a folder of the library root, visible or
\* set aside, unless the user let a restore replace that file and that
\* restore's own files were verified in place.  A restore that sets out to
\* replace while another one publishes is left out: there the code can lose it.
OldWorkSafe ==
    ~overlapped => \A f \in MineFile \ given :
        \E pl \in Root \cup {Previous(t) : t \in Task} : folder[pl].files[f] = "mine"

\* Once no restore is at work, a project whose sidecar calls the version
\* verified has every file of it, however restores crossed or failed, or the copy
\* it took the place of is still set aside.
EnrolledIsWhole ==
    (~overlapped /\ \A t \in Task : task[t].at \in {"idle", "done", "over"}) =>
        \A n \in Root :
            folder[n].sidecar = "enrolled" /\ folder[n].files[ProjectFile] # "absent"
                => \/ \A f \in VersionFile : folder[n].files[f] = "version"
                   \/ \E t \in Task : Exists(Previous(t))

\* A provider-only row that shows Syncing has a restore in flight whose result
\* is still to come, although refreshes make the row anew meanwhile.
RestoringHasTask ==
    remoteRow = "Syncing" => \E t \in Task : task[t].remote /\ task[t].at \notin {"idle", "over"}

-----------------------------------------------------------------------------

\* Restores whose tree is in its place, and restores that replace a folder.
Holding == {"check", "merge", "confirm", "clean", "enrol"}
Swapping == {"protect", "replace", "merge", "confirm", "clean"}

\* What is true of restore t and its own folders whatever others do.
TaskSound(t) ==
    LET at == task[t].at
        staged == folder[Staging(t)]
    IN  /\ task[t].choice \in Replacing => task[t].to = Requested
        /\ at \in Swapping => task[t].choice \in Replacing /\ task[t].files = VersionFile
        /\ at \in {"stage", "install", "protect", "replace"} =>
              /\ staged.there /\ staged.sidecar = "none"
              /\ \A f \in File \ VersionFile : staged.files[f] = "absent"
        /\ at \in {"idle", "resolve", "stage", "protect"} => folder[Previous(t)] = NoFolder
        /\ at \in {"replace", "merge", "confirm", "clean"} => Exists(Previous(t))

\* While no two restores overlap, a folder of the library root belongs to one
\* restore at a time, from the moment its tree is there, and the folder that is
\* about to be set aside belongs to none.
Exclusive ==
    /\ \A t \in Task : task[t].at \in Holding => Exists(task[t].to)
    /\ \A t, u \in Task : task[t].at \in Holding /\ task[u].at \in Holding
                             /\ task[t].to = task[u].to => t = u
    /\ \A t, u \in Task : task[t].at \in Swapping /\ task[u].at \in Swapping => t = u
    /\ \A t \in Task : task[t].at = "protect" =>
          /\ Exists(Requested)
          /\ \A u \in Task : task[u].at \in Holding => task[u].to # Requested

Sound ==
    /\ RestoreTypeOK
    /\ \A pl \in Place : ~Exists(pl) => folder[pl] = NoFolder
    /\ \A t \in Task : TaskSound(t)
    /\ ~overlapped => Exclusive

\* Nothing will remove what is in the requested folder.
Settled == \A t \in Task : task[t].at \in {"check", "merge", "confirm"} => task[t].to # Requested

\* Where a file of the user's is safe: set aside by a restore that will not
\* remove it, or in the requested folder while that is settled.
Kept(f) ==
    \/ \E t \in Task : folder[Previous(t)].files[f] = "mine" /\ task[t].at # "clean"
    \/ folder[Requested].files[f] = "mine" /\ Settled

\* A restore that overwrites a folder has only files of the version in it at
\* first, and then all the others of the folder it set aside.
Overwritten(t) ==
    LET new == folder[Requested].files
    IN  \A f \in MineFile \ VersionFile :
          /\ task[t].at = "merge" => new[f] = "absent"
          /\ task[t].at \in {"confirm", "clean"} /\ task[t].choice = "Overwrite"
                => (folder[Previous(t)].files[f] = "mine" => new[f] = "mine")

OldWorkInv ==
    ~overlapped => /\ \A f \in MineFile \ given : Kept(f)
                   /\ \A t \in Task : Overwritten(t)

\* A folder with every file of the version, and one that is called verified.
Whole(fo) == \A f \in VersionFile : fo.files[f] = "version"
Calls(fo) == fo.sidecar = "enrolled" /\ fo.files[ProjectFile] # "absent"

\* What a restore may enrol is whole, and so is whatever is called verified,
\* unless a copy set aside by another restore is left.
EnrolledInv ==
    ~overlapped =>
        /\ \A t \in Task : task[t].at \in {"clean", "enrol"} => Whole(folder[task[t].to])
        /\ \A pl \in Root \ {Requested} : Calls(folder[pl]) => Whole(folder[pl])
        /\ Calls(folder[Requested]) =>
              \/ Whole(folder[Requested])
              \/ \E u \in Task : Exists(Previous(u)) /\ task[u].at # "clean"
        /\ \A t \in Task : task[t].at \in {"replace", "merge", "confirm"}
                              /\ Calls(folder[Previous(t)]) =>
              \/ Whole(folder[Previous(t)])
              \/ \E u \in Task \ {t} : Exists(Previous(u))

\* The inductive invariant behind the three properties.
RestoreInv == Sound /\ RestoringHasTask /\ OldWorkInv /\ EnrolledInv
============================================================================
