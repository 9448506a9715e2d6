# auru-pm-core in TLA+

This directory holds TLA+ models of auru-pm - the backup core, the server, the
kernel that merges and compares projects, and the state behind the desktop
application -, the TLC configurations that check them on small instances, and
TLAPS proofs of the main properties for every value of the constants. Everything is translated from
the Rust source; `PROJECT.json` maps each definition to its lines.

Contents: 1 the system · 2 modules and code · 3 the runs · 4 disagreements
found · 5 the proofs · 6 what is not modelled · 7 the plan · 8 how to run it.

## 1. The system

auru-pm backs up music projects. A *machine* turns the project file into a
snapshot plus detached resources, stores these as content-addressed blobs at a
*provider*, writes a commit that names them and moves the provider's HEAD to
that commit. Several machines may back up one project; a machine that finds HEAD
moved merges three ways. A retention rule cuts old history off.

| part | state | operations | interacts with |
|---|---|---|---|
| filesystem provider (`auru-pm/src/filesystem.rs`) | HEAD, HISTORY_FLOOR, LOCK, `objects/`, `commits/` in a shared folder | put_blob, get_blob, has_blobs, put_commit, get_commit, get_head, advance_head (compare and swap), list_history, prune_history | pushes of all machines; the file system |
| content-addressed store (`cas.rs`) | one file per hash, `<hash>.tmp` while writing | put, get, has, gc | provider |
| control files (`filesystem.rs` 145-233) | `<file>`, `.tmp`, `.old` | read_control_file, replace_control_file | provider, list_projects |
| push coordinator (`sync.rs`) and sidecar (`sidecar.rs`) | per machine: local_head, verified_head, stash, pending pushes | push, stash, merge, fan-out to mirrors, drain of the mirror queue | provider, mirrors, merge kernel |
| desktop flow (`apps/auru-pm-ui/src/backend.rs`) | staging and quarantine folders | back up, verify, prune, restore, replace, roll back, enrol | push coordinator, provider |
| automatic backup and status (`automatic_backup.rs`, `model.rs`) | attempts file, modification times | poll, record attempt, settle a row | desktop flow |
| desktop user interface (`main.rs`, `model.rs`, `state.rs`, `catalog.rs`) | library rows, overlays, preferences, tasks in flight | reload, refresh, transfers and their late results, conflict resolver, first run, destinations | everything the user starts |
| HTTP server (`auru-pm-server/src/main.rs`) | database in memory, state.json, blob files, one mutex | one handler per endpoint, migration at start-up | HTTP clients |
| server access (`auth.rs`, `tls.rs`) | cached signing keys, two authority files | check a token, mint an authority, serve | HTTP clients, identity provider |
| HTTP client and credentials (`http.rs`, `token_store.rs`) | keychain entry, session shared in a process | open an account, refresh, retry once | server, identity provider |
| sign-in (`oauth.rs`, `registry.rs`) | running flows and their messages | probe, browser and device flow, catalogue | user interface, keychain |
| merge and diff kernel (`auru-pm-kernel/src/merge.rs`, `diff.rs`, `*/diff.rs`) | none | merge3, resolve_conflicts, integrity_problems, structured_diff | push coordinator, user interface |
| project formats (`project_format.rs`, `flstudio/*`, `dawproject/*`) | none | snapshot, detach, hydrate, write back | push coordinator, restore |
| assets (`ableton/*`, `flstudio/*` of auru-pm, `asset_plan.rs`) | none | discover, plan, capture, place, repoint | push coordinator, restore |
| retention rule (`auru-pm-protocol/src/lib.rs`) | none | retained_prefix_len | provider, server |
| language bindings and SDKs | none | wrappers of the same calls | - |

What is hard, and what has to be true:

* **No lock on uploads.** put_blob and put_commit take no lock, while a retention
  pass deletes files one by one under the lock. An upload that finds its blob
  stored returns at once and does not refresh the file's modification time, so a
  push may rely on a file that a pass is about to delete. HEAD must stay
  restorable (HeadWhole), and retention must not damage what it keeps
  (KeptVersionsStay).
* **Long pushes race.** A push is dozens of calls between reading HEAD and moving
  it. No machine's recorded backup may drop out of HEAD's line (NoBackupLost,
  KeepsPromise), and a merge must be given a true base (MergeBaseIsAncestor).
* **Crashes between steps.** HEAD has moved and the sidecar is not saved; the floor
  is written and files are not deleted; the verified mark is a second sidecar
  write (LandedIsInLine, KeptVersionsStay, VerifiedIsInLine).
* **Files below the protocol.** All writers of one hash share a temporary name
  (TornIsBeingWritten, TornHeals); HEAD is replaced through up to four operations
  that may each fail (ReplaceIsAtomic) while an unlocked reader looks
  (ReadIsFresh).
* **Waiting.** lock_exclusive blocks; every push must end (PushEnds).
* **The server's database.** A change is staged in a clone, written, then swapped
  in; blobs are shared by all owners while rights are per project; old databases
  are migrated (LiveIsDurable, ServedIsKept, CommitsAreServed, OnlyOwnUploads).

* **Mirrors.** A fan-out is many calls per mirror, any of which may be the last; what
  a mirror missed is queued in the sidecar and drained later, beside mirrors that
  refuse it for ever (Servable, UndeliveredIsQueued, FoldersCatchUp).
* **Late results.** The desktop starts tasks and applies their results to whatever the
  library has become: reloaded, refreshed, saved again, restarted
  (SyncingHasTransfer, SyncingEnds, RestoringHasTask, PublishedOnce,
  SaveIsHandedOver).
* **Publishing a restore** takes several renames beside work that is already there
  (OldWorkSafe, EnrolledIsWhole).
* **Pure code with many cases.** A merge level by level through arrays with and
  without identities, files split into detached parts, references resolved four
  ways, comparisons over identities a workstation reassigns (OneSidedChangesKept,
  LandedIsCoherent, ResolvedAsShown, RestoredIsSaved, CarriedOrReported,
  DiffIsHonest).
* **One form, many tasks.** Genre and tags are edited in one form while saves, backups,
  refreshes and reloads of any project end in any order (LabelsStay).
* **Access.** One rotating credential under concurrent requests (RefusedForCause), a
  dialog that several flows write (SignInEnds), a list of providers that is replaced
  when it arrives (SetUpStays), an authority in two files that several servers share
  (ClientTrustsServers).

`PROJECT.json` lists these hazards with the line where each one bites.

## 2. Modules and code

| module | models | refines / used by |
|---|---|---|
| History | abstract: a current version that can be restored and descends from all earlier ones | implemented by Repository |
| Repository | the filesystem provider with its retention pass | extended by Sync |
| Sync | machines that push, merge, verify, prune, crash, restore | implements Repository (RepoSpec) |
| Cas | one object of the store at the level of file operations | justifies Repository's Store |
| Register | abstract: one value, written at one moment | implemented by ControlFile |
| ControlFile | HEAD or HISTORY_FLOOR at the level of file operations | justifies Repository's head, floor |
| Mirror | fan-out to mirrors, the pending queue and its drain | what follows Sync's MoveHead |
| Server | the HTTP server's database, blobs and rights | - |
| Desktop | library rows, scheduler, background tasks, conflict resolver | takes Sync's push as one step |
| Restore | staging, publication, roll back, enrolment, rows of restores | - |
| Labels | genre and tags: form, saves, profile, catalogue, backups and kept conflicts around them | - |
| Merge | merge3 and its checks inside the pushes of machines | takes Sync's push as one step |
| Formats | FL Studio, Live, Bitwig and DAWproject files through snapshot, store and restore | - |
| Assets | what a backup captures and where a restore points | - |
| Diff | comparison of two versions | - |
| SignIn | providers, preferences, dialog and sign-in flows | writes the credential Session starts from |
| Session | requests of one account, refresh, the server's token check | - |
| Authority | the server's development certificate authority | - |
| MC* | small instances for TLC; MCStorage, MCKernel and MCAccess each hold several modules that share no state, and a variable that says which one a behaviour is about | |
| SyncProofs, ServerProofs, MirrorProofs, DesktopProofs | theorems and proofs about the module they are named after | SyncProofs begins with Repository's, which the pushes inherit |
| StorageProofs, AccessProofs, LibraryProofs, KernelProofs | theorems and proofs about Cas and ControlFile; SignIn, Session and Authority; Restore and Labels; Merge and Assets | |

**Repository.** `head` and `floor` are the two control files, `present` and
`mtime` the files of both stores, `now` the wall clock, `lock` who holds LOCK
between two steps, `gc` a running retention pass (its phase, what it marked, the
clock it read), `content` the commit each hash is the hash of, and `acked`
(a history variable) what each client was told is stored. get_head, list_history
and advance_head hold the lock for one critical section and are single steps.
prune_history is many: PruneBegin computes the graph to keep and writes the floor,
GcBlob and GcCommit delete one file each in any order, GcCommits moves from
`objects/` to `commits/` and reads the clock again, PruneEnd is the return, the
failure or the death of the pass at any point. The rule itself is any non-empty
prefix of the visible history. Submit and Publish state the contract the
repository asks of its clients - tree before commit, and a HEAD that descends
from the one it replaces - which Sync is shown to keep.

A hash is modelled by what it guarantees: `content[id]` is fixed when the hash is
first used, and a commit names only hashes that existed before it.

**Sync.** `pc[d]` is the provider call machine d's push makes next, `job[d]` its
local variables, `sidecar[d]` its sidecar file. One push is StartPush (get_head,
Sidecar::load, the choice between first, ordinary and merging push), StashBlob and
StashNote, MergeRemote or MergeStops, Upload once per blob in the code's order,
SendCommit, MoveHead or HeadRefused, Record, then the desktop's Verify, Prune or
SkipPrune, FinishPrune and Confirm. Crash may come at any step; errors returned
by a call end the push the same way. A merged snapshot is any snapshot: the merge
kernel's result does not matter to these properties. Stashing stores the
snapshot, which stands for the resources detached from it. A failing stash ends
the push: `sync.rs` 206 calls it "not fatal", the `?` at the call makes it so.

**Cas.** `final` and `part` are the two names, `data` says per file whether its frame
is complete, `fd` which file a put has open. Create truncates what the temporary
name has, Write fills the file that was opened whatever its name is by then,
Rename moves whatever the temporary name holds. Stop is a death or a full disk.

**ControlFile.** The three names, the writer's next operation with every failure
branch of replace_control_file, its death at every point, and a reader without
the lock (list_projects) that tries file, `.old`, file.

**Server.** `live` is the database behind the mutex, `disk` state.json, `files`
the blob directory, `job[r].staged` the clone a request has changed. Each handler
that changes something is an action up to the staged clone (TakeMutex, the
handler's checks, Stage), followed by Persist or PersistFails, and Swap, with the
mutex held. PutBlob writes the file before it stages the right to it. Start is
Db::open and prepare_ownership. Refused requests change nothing and are not
actions. `sent` is a history variable: what each owner uploaded.

**Mirror.** A call sequence to one provider is a step that stores a prefix of the
objects, in the order the code sends them: a failing call ends it there. A folder
takes what it is given, a server refuses a commit whose parent or objects it lacks.
The push fans out to the mirrors (PushToMirror, PushToMirrorFails), queues what
failed and saves the sidecar (PushDone); a drain loads the queue, fetches each
commit from the primary, sends it, and writes the queue back (DrainStart, DrainFetch,
DrainTo, DrainToFails, DrainDone). Both may run at once and die at any point.

**Desktop.** `row` is the library, `task[p]` the background tasks of a project,
`sidecar` and `durable` what survives a restart. Times are counted in saves, which is
all the comparisons of modification times tell apart. A task reads a stable file or
defers, records the attempt, publishes, verifies and comes back (BackupDone,
ResolveDone, HistoryDone); meanwhile the user saves, reloads, loads histories,
resolves conflicts, and other computers push.

**Restore.** Folders of one library root with the files they hold. A restore chooses
what to do about a collision, stages and verifies, sets the old folder aside, renames
its own into place, verifies again, rolls back on failure, enrols; rows are rebuilt by
reloads and refreshes before its result arrives.

**Merge.** Snapshots are small JSON values: a scalar, a list of tracks with
identities, a list merged by position. merge_values calls itself for what is inside an
object or an array; a project here is three levels deep, so each level has its operator
(Merge3, MergeInProject, MergeInList) and `Inner` is the one below it. resolve_conflicts
applies ResolveOne to one conflict after the other. A push fast-forwards (PushForward)
or merges (PushBehind), and then lands (LandMerged) or asks (Ask); an answer (Confirm,
LandResolved) is applied to whatever HEAD is by then.

**Formats, Assets, Diff.** Pure code. A behaviour is one project through its life
(read, detach, store, lose objects, hydrate, write back; reference, back up, lose,
restore elsewhere; save, compare), every input of the instance being an initial
state or a choice. In Formats, XML (a Live Set, and project.xml and metadata.xml of an
archive) is the sequence of events its reader yields; parsing drops declarations,
instructions, a doctype and blank text, and writing escapes comments that the reader
does not unescape. The native format is JSON, which a snapshot only puts in canonical
form; it is not in the model.

**SignIn.** `listed`, `shown` and `prefs` are the list of providers, the rows shown
as connected and the preferences file; `flow[f]` is a running sign-in with the
messages it has sent and the application has not read. The code names the provider
of a dialog by its position; the module's comment says why the identity is enough.

**Session.** Refresh tokens carry the sign-in they belong to and a number; the
identity provider, which is external, accepts the newest only. The mutex around a
session is `lock`. A lost answer, a keychain that refuses, and an old credential that
becomes the session are recorded in `mishap`.

**Labels.** Labels are in three places: the card, the sidecar and the profile at the
provider. A save takes the form's values, loads and stores the sidecar, and puts the
profile if the card was linked when it was read; its end sets the card, found by
identity, and the form's baseline, whichever card the form shows by then. Backups
capture labels first and put them later, and load and store the same sidecar file. A
backup that has to merge stashes the project before, and one that finds conflicts is
kept in `conflict`, labels included, until it is resolved (ResolveConflict), which may
be at any later time; then it runs again from the start with the labels it took.
A refresh overwrites the labels of local cards with the provider's. Each rendering
begins with sync_metadata_inputs (Synced), so it is part of every action that changes
the screen. `crossed` records the projects whose last save something else crossed;
a save that nothing crosses takes its project out again. Providers stay connected.

**Authority.** The two files as absent, torn or of an authority, each server's start
step by step, lost files, and the person who deletes the rest as the error message
says.

## 3. The runs

States are distinct states found by TLC.

| run | instance | states | shows |
|---|---|---|---|
| repository | 1 client, 2 commits, 2 snapshots, 1 manifest, clock 0..1 | 44,660 | TypeOK, HeadWhole, LinearHistoryWhole, KeptVersionsStay, and that the folder implements History (KeepsPromise) |
| sync_safety | 2 machines, 3 commits, 1 snapshot, 1 manifest, clock 0..1 | 175,390 | NoBackupLost, MergeBaseIsAncestor, LandedIsInLine, VerifiedIsInLine, and that the pushes implement Repository (RepoSpec) |
| sync_live | 2 machines, 3 commits, 1 asset, clock at 0 | 47,001 | PushEnds |
| storage | 3 writers and 5 files of one object; 3 values of one control file | 432,458 | TornIsBeingWritten, TornHeals; ReadIsFresh, and that a replacement implements Register (ReplaceIsAtomic) |
| mirror | primary, folder, server, 3 commits, 2 faults | 130,128 | Servable, UndeliveredIsQueued, FoldersCatchUp |
| server | 2 requests, 2 owners, 1 handle, 3 commits (one a merge), 3 blobs | 76,545 | LiveIsDurable, CommitsAreServed, OnlyOwnUploads, ServedIsKept |
| desktop | 1 project, 2 tasks, 2 saves, 2 commits, 1 fault | 359,237 | SyncingHasTransfer, PublishedOnce, SyncingEnds, SaveIsHandedOver |
| restore | 2 restores, 2 files each, 2 faults; 2 projects, 1 label, 2 saves in flight, 5 events | 2,259,055 | OldWorkSafe, EnrolledIsWhole, RestoringHasTask; LabelsStay |
| kernel | 2 machines, 3 edits, 4 commits; FL bodies of up to 4 bytes, XML of up to 4 events, archives of up to 3 entries; 3 kinds of project with samples; 3 saves in 5 workstations | 1,204,844 | LandedIsCoherent, ResolvedAsShown, OneSidedChangesKept, RestoredIsSaved, CarriedOrReported, DiffIsHonest |
| access | 2 hosted providers, 1 folder, 2 flows, 2 launches; 2 requests, 3 tokens, 2 keys; 2 servers, 3 authorities | 1,358,297 | SetUpStays, SignInEnds; RefusedForCause; ClientTrustsServers |
| merge_undone | as kernel | - | violated: UneditedPushKeepsHead, section 4 |
| history_readable | as sync_safety | - | violated: HistoryIsReadable, section 4 |

Properties that name an exception say so because the code really goes wrong there;
section 4 has each of them. HeadWhole of the pushes is proved (SyncHeadWhole) and
checked by the run repository.

The bounds, and why they are enough for the cases of interest:

* *Clients.* Repository's interleavings come from the retention pass, which runs
  beside the client that started it: no action asks which client is behind an
  upload, so one client already uploads, reads and publishes while its own pass
  deletes. Sync has two machines, enough for a race for HEAD, a merge, and a pass
  of one machine under a push of the other.
* *Commits.* Three: a version, a competing version, a merge of both. Repository's
  run keeps to linear histories (MaxParents = 1) with two commits, a kept one and
  a pruned one; merges are Sync's subject. The proofs cover every number.
* *Snapshots.* Two in Repository, so that one blob is shared by two versions and
  another is not, and a stash can protect one.
* *MaxTime* bounds the clock; Grace = 1 with MaxTime = 1 makes files both younger
  and older than the grace period. The run sync_live stops the clock, so no file is
  removed: removal decides which branch a push takes, not whether it waits. The
  same property also passes with MaxTime = 1 (422,612 states, four minutes).
* *Inode* in Cas: one file per writer plus the two names, so a free one always
  exists; three writers, so that a third can truncate what two others race for.
* *Server.* Two requests race for the mutex; two owners share blobs; the third
  commit is a merge whose first parent skips the second.
* *Mirror.* Three commits, so that a queue holds two in either order and a drain
  meets one whose parent is missing; the second names a project summary, which is
  never sent to mirrors. Two faults: one in a push and one in a drain.
* *Desktop.* A project starts never backed up, backed up before its last save, or as a
  copy of one another computer backed up; a second save can fall into every step of
  the backup of the first. Two tasks, so that transfers overlap after a reload and
  histories arrive late.
* *Restore.* One file of the version is in the folder that is there and one is not.
* *Labels.* One label and none: two values differ, which is all the property compares.
  MaxEvents bounds saves, backups, refreshes, reloads, edits elsewhere, failures and
  restarts together; typing, choosing and resolving are free. Five let a backup be kept
  with its conflicts, a newer save end, the backup be resolved, and a further save follow.
* *Merge.* Two tracks, one with a bracket in its identity; three values, so that base
  and both sides differ; four commits, so that a merge follows a merge.
* *Formats.* The seven bytes have one event of each width class, a length and a
  continued length among them. Words stand for text with and without markup characters;
  Live Sets have every sequence of up to four events of the reader. An archive's XML is
  one of two documents or one that is refused: text split in two by an instruction, a
  comment with markup behind a declaration, and an element that does not end. *Diff*
  shows three rows where the code shows 24.
* *Access.* Two flows behind one dialog; a hosted provider whose flow may end up
  in the browser, with a device code or at the older endpoints, and one with a pasted
  token; two requests that both
  see 401; one token for the sign-in and two rotations. A second sign-in under a live
  session is beyond the instance (MaxGrants = 1) and rests on the proof of
  RefusalsHaveCause, which holds for any number.

CHECK_DEADLOCK is off where the system may stop: Repository, Sync, Mirror and
Restore stop when their bounds are used up, the kernel when its result is there,
access when all tokens, launches and authorities are spent. In storage, server and
desktop the deadlock check is on.

**Symmetry** is used for commits (Repository), machines (Sync; not commits, since a
push picks its hash with CHOOSE; Merge), values (Merge), owners and requests
(Server), restores and saves, never in a run with a liveness property.

**Fairness.** sync_live assumes strong fairness of PushStep for each machine: the
runtime polls a push until it returns, and the operating system grants the file
lock in the end to a machine that waits for it when it is free again and again.
Starting a push, a crash, restoring and the choice to prune are not fair: nobody
is obliged to do them. storage assumes weak fairness of a started put's steps.
mirror assumes that pushes and drains go on to their end and that the queue is
drained again and again: drain_pending_pushes is called by the host, "on reconnect"
as sidecar.rs puts it, and has no caller in this repository; calls may fail MaxFaults
times. desktop assumes that time passes, that the scheduler's
timer keeps polling and that a background task ends. access assumes that each request
of a sign-in is answered or fails, that the time limits of the code pass and that the
application reads its messages, and nothing of the person. Probe, discovery and
exchange set no timeout of their own, so there the assumption rests on the operating
system ending a dead connection.

## 4. Disagreements found

Two are runs with `"expect": "violation"`; TLC prints the behaviour.

| run | the code | the text |
|---|---|---|
| history_readable | advance_head checks the new commit's blobs, not its parents; a pass of another machine between fetch and advance removes the first parent, and the history cannot be listed any more. | filesystem.rs 414: "history is already truthful and the next retention pass can safely finish" |
| merge_undone | After a push that merged, local_head names the merge while the project file has this machine's side only; the next backup fast-forwards with it and takes the other side out again. | sidecar.rs 74: "The commit id the local working state was last synced to." |

Four more have a configuration of their own, with the property it refutes:

| configuration | the code | the text |
|---|---|---|
| MCBoundary.cfg (MCSync) | Merge parents are [local, remote], and walks follow first parents until they meet the floor. A merge by a machine whose local head is older than the floor walks past it. | spec/auru-pm-v1.md 403: retention "Permanently moves the oldest visible-history boundary" |
| MCStash.cfg (MCSync) | A pass protects the pruning machine's stash only. | sync.rs 59: "The user's own work is safe in Stash and reachable" |
| MCConflict.cfg (MCSync) | A machine without a sidecar pushes with from = None against a HEAD it has just seen; the conflict never goes away. | sync.rs 699: "remote moved again while we were preparing; please retry" |
| MCCasAtomic.cfg (MCCas) | Two overlapping puts share `<hash>.tmp`: one renames the file the other has just truncated. | cas.rs 175: "Atomic write: tmp file in the same directory, then rename." |

The last one limits the claim that Repository's Store is atomic: it is, unless two
machines put one object at the same time, and then it heals unless one of them
ends half way (TornIsBeingWritten, TornHeals).

Met while modelling; the models have the behaviour, and the properties are stated
around it:

* *Mirrors.* A commit's metadata blob is never sent to mirrors, so a server refuses
  such a commit for ever. A mirror's HEAD is advanced with from = None only
  (sync.rs 752) and stays at the first commit. A drain that overlaps a push writes
  back a queue it loaded earlier (sync.rs 1242).
* *Desktop.* A history asked for earlier settles a row from older facts when it arrives late
  (model.rs 1362). A save made during a backup is older than the sidecar that backup writes:
  if its own backup then fails, the row reads Downloaded, "every file was verified",
  and the scheduler is done with it (model.rs 1285, 1322). There is one pending-conflict
  slot for all projects (main.rs 1667), and a Conflicted row without one offers nothing
  but a message (main.rs 1445). Choices made in a dialog are ignored when the machine
  has meanwhile caught up with HEAD (sync.rs 892).
* *Restore.* Of two overlapping restores that replace, one may roll the other's folder
  back into its own staging area and delete the user's work (backend.rs 1546). A crash
  between the two renames leaves the project in a hidden folder only. Overwriting a
  restored copy keeps its old sidecar beside older content. A reload during a restore
  lists the project twice (main.rs 2668); watching a folder drops provider-only rows
  until the next refresh (main.rs 1272); a refresh resets the row of a running restore.
* *Labels.* The row of a project is not linked after its first backup until a reload, so
  a save of its labels reaches the sidecar only, and a refresh adds a second card for it
  (model.rs 1558). A backup puts the labels it captured at its start over a newer save's
  (backend.rs 126); one that waits for choices still does so when it is resolved, however
  much later: the profile then has the old labels, card and sidecar the new ones, with
  nothing else running (backend.rs 371, 183), until the next save. LabelsStay
  excepts such a project from the resolving to its next save. A refresh shows
  the provider's older labels on a local card
  (model.rs 1575), and a backup and a save can undo each other's sidecar fields
  (sidecar.rs 178). A save that ends while the form is of another card becomes that
  form's baseline: the form no longer follows its card, and a draft equal to the saved
  labels is dropped (main.rs 2421). A save that fails at the provider has changed the
  sidecar already. metadata_saving has one slot: a save of another card frees the first.
* *Merge.* When both sides add an element of the same identity, the remote one is
  dropped without a conflict. Lists merged by position are padded with null, which
  external formats refuse on every later push. Deleting against changing keeps the
  change. A choice of the remote side always fails where an identity contains `]`.
* *Formats.* Non-minimal lengths and bytes behind the event chunk of an FL Studio file
  are not reproduced. A comment in XML with `&`, `<`, `>` or a quote in it comes back with
  these escaped, and once more with every further cycle: it is read as it stands
  (project_format.rs 495) and written escaped (620). So the snapshot of a restored Live
  Set or DAWproject can differ from the one it was restored from, which the tests compare
  for equality on files without such comments (external_project_formats.rs 81).
  RestoredIsSaved leaves the escapes of comments out. Declarations, instructions, a
  doctype and blank text do not come back.
* *Assets.* References inside the project folder to files a walk skips never make a
  backup incomplete (ableton/assets.rs 135). References to packs by name, and nested
  encodings of older Live versions, are gathered and not repointed. Project-relative
  references of FL Studio are neither captured nor reported. Native projects with two
  samples of equal bytes and equal names cannot be restored (backend.rs 1056).
* *Diff.* Two Bitwig versions always compare as equal (diff.rs 532). Markers and MIDI
  notes of native projects, a second instance of an effect, and a removed tempo are
  not compared.
* *Access.* A cancelled sign-in runs on, and its result completes the dialog of
  whichever provider is shown by then (main.rs 2085). A session in memory overwrites
  a newer sign-in's credential at its next rotation (http.rs 397). A failed look-up of
  signing keys makes new tokens fail for 30 s (auth.rs 184). After a crash between the
  authority's two files every start refuses until a person deletes the rest; two
  first starts at once leave files that do not match (tls.rs 256).

## 5. The proofs

TLAPS checks eight proof modules. Each follows the same argument: an inductive
invariant holds initially, one lemma per action (or per kind of step several actions
share) shows that the action keeps it, and the property follows from it. The inductive
invariants stand at the end of the component's module, in named parts, and TLC was run
with each of them as an invariant before its proof was written. Those of Merge
and Assets stand in KernelProofs: the types in MergeInv are infinite sets, so TLC checks
its other parts, which are the properties of the run kernel, and the parts of AssetInv
say where a plan comes from, in terms only the proof needs.

* **SyncProofs**, Repository's part, from RepoInv: TypeCorrect, HeadAlwaysWhole, RetentionKeeps,
  LinearHistoriesWhole, PromiseKept. HeadWhole alone is not inductive. A move of HEAD
  needs that before the first pass nothing was ever removed, so that what a client was
  told is stored is stored; afterwards validate_commit_objects looks again. A removal
  needs that a running pass has marked every visible version with its tree, which
  holds at PruneBegin and is kept because HEAD cannot move while the lock is held.
  Lemmas about Reach (least closed set, monotone in its edges, unaffected by edges
  added at hashes nobody names yet) carry the graph reasoning. LinearHistoryWhole needs
  two more: a floor raised to a listed version lists nothing new (PruneShrinks), and
  where no commit has two parents a new HEAD lists itself and what was listed before
  (PublishExtends). With merges the second is false, which is why the property has its
  premise.
* **SyncProofs**, from SyncInv = RepoInv, types and DeviceInv for every machine:
  SyncImplementsRepository, SyncHeadWhole, SyncRetentionKeeps, SyncKeepsPromise,
  BackupsStay, MergeBase, LandedStays, VerifiedStays. DeviceInv says what is true at
  each point of a push: above all that the HEAD it will replace is a parent of its
  commit and that the machine's recorded version is a parent too or absent. With
  compare and swap, HEAD's ancestors then only grow. Sync implements Repository and
  Repository implements History, so pushes implement History.
* **StorageProofs**, from CasInv: OverlapIsHarmless; the temporary name must be
  accounted for as well as the final one. From FileInv: ReadsAreFresh,
  ReplaceImplementsRegister.
* **ServerProofs**, from ServerInv: LiveStaysDurable, CommitsStayServed,
  ProjectsStayApart, ServedStays. The mutex makes the staged clone an extension of
  the database it was cloned from; projects are complete in memory, on disk and in
  the clone; a project without an owner has its whole line stored.
* **MirrorProofs**, from MirrorInv: ProvidersServe, NothingForgotten. That a queued
  commit is not dropped depends on what is between queue and mirror: a push that has
  not failed has delivered to every mirror it has left, and a drain has each commit it
  loaded in its remaining or its failed list until every provider has it.
* **DesktopProofs**, from DesktopInv: RowsDoNotHang, SavesPublishedOnce. A save is not
  published twice because the attempt is noted in memory and in the state file while it
  is the last save, so neither a poll nor a restart offers it again; a later save is
  greater than every published one. One lemma (TaskStepKeeps) covers every step of a
  background task: its row is settled no later than the task stops being a transfer.
* **AccessProofs**. From SignInInv: DestinationsStay. The list alone does not say why a
  dialog's provider stays listed when a catalogue replaces it: until then the list has
  only folders, and folders open no dialog. From SessionInv: RefusalsHaveCause. The
  session in memory and the credential in the keychain must both be current, since each
  can become the session of the next request. From AuthorityInv: ClientsStayConnected.
  The property speaks of running servers and the client; the invariant has to follow
  one authority through both files and every start, and to know that nobody holds it
  when both files are absent, which is what makes minting another one safe.
* **LibraryProofs**. From RestoreInv: OldWorkNotLost, EnrolledProjectsWhole,
  SyncingRowsHaveRestore. Its parts say what each stage of a restore holds (TaskSound),
  that a folder belongs to one restore from the moment its tree is there (Exclusive),
  where each of the user's files is safe (Kept: set aside by a restore that will not
  remove it, or in the requested folder while nobody will replace it) and that what may
  be enrolled is whole. A step is described by what it does to its own restore and its
  three folders (Does); four lemmas say what such a step must keep, and each action is
  then shown to be such a step. From LabelsInv: LabelsAreKept. Agreement between card,
  sidecar and profile is kept only because everything on its way agrees too: the labels
  a backup captured and its copy of the sidecar, the labels of a backup kept for its
  conflicts unless a save has overtaken it, and the catalogue a refresh has read.
  The proof showed that the claim holds while a refresh is under way as well, and
  LabelsAgree says so.

* **KernelProofs**, from MergeInv: MergeInvariant, MergeCoherence, MergeAnswers,
  MergeChanges, and the two results about the operators they rest on, DocMerge and
  ResolveAll. MergeInv has the types of every snapshot that a machine, a commit or a
  dialog holds (a project whose tracks differ in their identities, with lists of any
  length), for each commit that it is coherent in a Live Set, holds its answers and keeps
  the changes of one side (CommitOK), and that Live Sets on disk are coherent: edits keep
  that (EditsKeep), and a merge has it because it is checked before it lands
  (CheckedIsCoherent). DocMerge says of any three projects that merge3 gives a project,
  every change that only one side made, and conflicts about different places of the
  result, which has the local value there. ResolveAll says that a result of
  resolve_conflicts has the chosen value under every path: the paths of different
  conflicts do not touch, so a later choice does not undo an earlier one.
  From AssetInv: AssetInvariant and AssetsCarried, for any number of references. The
  plan is followed reference by reference (Planning): every planned file was there, no
  two are at one place, because allocate_path finds a free name among one more
  candidates than are taken, everything the folder's walk reaches is in it, and what a
  gathered reference leads to depends on its dedup key only, so the first reference
  with that key plans for all of them. A manifest then has what could be read of the
  plan and the rest is reported (Committed), and the restored references are what
  rewrite_one, repoint or rewrite_native_sample_paths make of it (Restored). Each kind of
  project has a lemma of its own for the last step, from there to the file that opens.

Assumptions on the constants are the named ASSUMEs of the modules: hashes of blobs
and commits are disjoint and None is none of them; Entries and Content give every
manifest and commit hash its contents; Grace is positive; the desktop protects at
most one stash; a snapshot or summary is not itself a manifest that lists further
blobs (Server); hosted providers and folders have different names (SignIn); the primary
and the servers are among the providers (Mirror); the project file is in the version and
in the folder that is in the way (Restore); there is a local project, none of them is
also a provider-only one, and no label is not a label (Labels);
the kinds of project are among the three the code tells apart (Assets). Bounds are natural
numbers, positive ones where the code begins with one (a save, a commit, a key).

Only model-checked, and why:

* PushEnds, TornHeals, FoldersCatchUp, SyncingEnds, SaveIsHandedOver and SignInEnds
  are liveness under fairness, out of this prover's reach.
* RestoredIsSaved (Formats) speaks of RECURSIVE operators that read and write streams
  of events, which the prover's SMT backend does not reach.
* DiffIsHonest (Diff) counts rows with folds over nested lists and needs the inverse
  direction of each fold.

Induction over data. The library's induction theorems take an operator as a parameter,
which the installed provers cannot instantiate. KernelProofs therefore derives what it
needs from well-foundedness of the natural numbers stated for sets (WFMin): NaturalInduction
says that a set with 0 and every successor has every number, and the lemmas about
FlattenSeq and about functions defined by recursion on 1..n are instances of it with a
set written out.

Every other property of a passing run is stated by a theorem.

## 6. What is not modelled

* The arithmetic of the retention rule (any non-empty prefix is kept in Repository),
  the rate limiter, configuration parsing, claims of a token other than its lifetime,
  certificates an operator supplies.
* Compression frames, JSON, canonical encoding, the byte-level parsers of XML, ZIP and
  gzip: pure conversions. They enter as "a torn frame does not parse", "a hash fixes
  its contents" and the events a reader yields.
* The location in a project's profile, timestamps, listing order, the server's in-memory mode, standalone bundles, the audition of samples.
* Layout, filtering, appearance and notifications of the user interface; failed saves of
  preferences other than the attempts; language bindings and SDKs, which wrap the same
  calls; plug-in discovery, a directory scan.
* Providers without sign-in (AuthMode::None) are in SignIn and not in its instance.
* AtomicWriteFile, the file system and the lock file are external: a write or
  rename is atomic, a lock is released when its holder dies. A write of state.json
  that reports an error is taken to have changed nothing.
* A database from before ownership is taken to have the whole line of its HEAD
  stored, as the server that wrote it required.
* A reader without the lock can miss HEAD altogether when two replacements fall
  between its three reads; list_projects then leaves the project out once.
  ReadIsFresh speaks of the values it does find.

## 7. The plan

1. Done: Repository with History, Sync, Cas, ControlFile with Register, Server,
   Mirror, Desktop, Restore, Labels, Merge, Formats, Assets, Diff, SignIn, Session,
   Authority.
2. Done: proofs of every safety property of the runs except RestoredIsSaved
   and DiffIsHonest.
3. retained_prefix_len against its definition; the rate limiter, whose purging of idle
   buckets must be invisible to callers.
4. Server with its HTTP client: retries of requests whose answer was lost.

## 8. How to run it

    tlc -workers 2 -config MCSync.cfg MCSync
    tlapm SyncProofs.tla

The longest runs are restore, kernel, access and desktop at about three minutes each.
