------------------------------ MODULE Desktop ------------------------------
(***************************************************************************)
(* The rows of the desktop library for projects that are on this computer: *)
(* their status, the backups the user and the automatic scheduler start,   *)
(* the background tasks whose results come back at any later time, and the *)
(* files (sidecar, state file) that survive the application                *)
(* (apps/auru-pm-ui/src: main.rs, model.rs, automatic_backup.rs,           *)
(* state.rs, backend.rs).                                                  *)
(*                                                                         *)
(* Times are counted in saves of the project: a file written after the     *)
(* k-th save and before the next one has time k, which is all that the     *)
(* comparisons of modification times in the code tell apart.  A push, the  *)
(* subject of module Sync, is one step here.  The provider of a project is *)
(* connected throughout.                                                   *)
(***************************************************************************)
EXTENDS Integers

CONSTANTS
    Project,    \* projects on this computer
    Slot,       \* bounds the background tasks a project has at one time
    MaxSave,    \* bounds the saves of a project
    MaxCommit,  \* bounds the commits of a project: the provider is full then
    MaxFaults   \* bounds crashes and failed steps

ASSUME BoundsAssumption ==
    MaxSave \in Nat \ {0} /\ MaxCommit \in Nat \ {0} /\ MaxFaults \in Nat

Save == 1..MaxSave

VARIABLES
    file,        \* per project, its last save
    quiet,       \* per project, whether five minutes passed since that save
    sidecar,     \* per project, the sidecar file and when it was written
    remote,      \* per project, HEAD at its provider; 0 is none
    row,         \* per project, its row in the library
    attempted,   \* per project, the save last handed over (the scheduler)
    durable,     \* the same, as the state file on disk has it
    task,        \* per project, its background tasks
    pending,     \* pending_conflict: whose conflict the resolver would show
    resolver,    \* whether the conflict resolver is open
    faults,      \* crashes and failed steps so far
    handed,      \* history: the last save the scheduler has had published
    overlapped   \* history: two transfers of the project ran at one time

files == <<file, quiet, remote>>
memory == <<row, attempted, task, pending, resolver>>
ghosts == <<handed, overlapped>>
vars == <<files, sidecar, memory, durable, faults, ghosts>>

None == [at |-> "none", auto |-> 0, head |-> 0,
         result |-> "none", resolving |-> FALSE]

Statuses == {"NeverBackedUp", "Downloaded", "Syncing", "LocalAhead",
             "UpstreamAhead", "Conflicted"}

Results == {"none", "verified", "unverified", "resolution", "review", "error"}

Tasks == [at : {"none", "prepare", "publish", "verify", "done", "history"},
          auto : 0..MaxSave, head : 0..MaxCommit,
          result : Results, resolving : BOOLEAN]

Sidecars == [local : 0..MaxCommit, verified : 0..MaxCommit, at : 0..MaxSave]

Nothing == [local |-> 0, verified |-> 0, at |-> 0]

\* The time of a backup that never was.
Never == -1

Rows == [status : Statuses, backed : Never..MaxSave, versions : BOOLEAN]

\* ProjectStatus::read_from_disk: the status the files alone give a project.
ReadFromDisk(p) ==
    CASE sidecar[p].local = 0                     -> "NeverBackedUp"
      [] sidecar[p].local # 0
         /\ sidecar[p].verified # sidecar[p].local -> "LocalAhead"
      [] OTHER -> IF file[p] > sidecar[p].at THEN "LocalAhead" ELSE "Downloaded"

\* local_file_state's backed_up_at.
BackedUpAt(p) == IF sidecar[p].local = 0 THEN Never ELSE sidecar[p].at

\* Project::read_from_disk: the row of a project that was just listed.
Listed(p) == [status |-> ReadFromDisk(p), backed |-> BackedUpAt(p), versions |-> FALSE]

\* Statuses whose action is Push.
Pushable == {"NeverBackedUp", "LocalAhead"}

\* Statuses that polling neither overwrites nor backs up.
Blocked == {"Syncing", "UpstreamAhead", "Conflicted"}

\* A project that was never backed up, one whose copy on another computer was,
\* and one that was backed up before its last save.
Beginnings == {[remote |-> 0, sidecar |-> Nothing], [remote |-> 1, sidecar |-> Nothing],
               [remote |-> 1, sidecar |-> [local |-> 1, verified |-> 1, at |-> 0]]}

DesktopInit ==
    /\ file = [p \in Project |-> 1]
    /\ quiet = [p \in Project |-> FALSE]
    /\ \E was \in [Project -> Beginnings] :
          /\ remote = [p \in Project |-> was[p].remote]
          /\ sidecar = [p \in Project |-> was[p].sidecar]
    /\ durable = [p \in Project |-> 0]
    /\ row = [p \in Project |-> Listed(p)]
    /\ attempted = [p \in Project |-> 0]
    /\ task = [p \in Project |-> [i \in Slot |-> None]]
    /\ pending = {}
    /\ resolver = FALSE
    /\ faults = 0
    /\ handed = [p \in Project |-> 0]
    /\ overlapped = [p \in Project |-> FALSE]

Free(p) == {i \in Slot : task[p][i].at = "none"}

\* Transfers in flight: backups and resolutions, not history loads.
Transfers(p) == {i \in Slot : task[p][i].at \notin {"none", "history"}}

\* A step that fails; only MaxFaults of them happen.
Fault == faults < MaxFaults /\ faults' = faults + 1

End(p, i) == task' = [task EXCEPT ![p][i] = None]

Status(p, s) == row' = [row EXCEPT ![p].status = s]

\* Wrong variant: the row keeps the status of the transfer that failed.
FailTransferKeeps(p) == row' = row

\* Project::fail_transfer.
FailTransfer(p) ==
    row' = [row EXCEPT ![p].status = IF @ = "Syncing" THEN ReadFromDisk(p) ELSE @]

\* Project::apply_history with reconcile_remote_head, on a row r of p.
ApplyHistory(p, r, head) ==
    [r EXCEPT !.versions = (head # 0),
              !.status = IF head \in {0, sidecar[p].local} THEN @
                         ELSE IF ReadFromDisk(p) = "LocalAhead" THEN "Conflicted"
                         ELSE "UpstreamAhead"]

\* Project::finish_transfer.
FinishTransfer(p, head) ==
    row' = [row EXCEPT ![p] =
              IF @.status # "Syncing" THEN @
              ELSE ApplyHistory(p, [@ EXCEPT !.status = "Downloaded",
                                             !.backed = file[p]], head)]

\* The user saves the project in the workstation.
SaveProject(p) ==
    /\ file[p] < MaxSave
    /\ file' = [file EXCEPT ![p] = @ + 1]
    /\ quiet' = [quiet EXCEPT ![p] = FALSE]
    /\ UNCHANGED <<remote, sidecar, memory, durable, faults, ghosts>>

\* Five minutes pass without a save.
QuietPeriod(p) ==
    /\ ~quiet[p]
    /\ quiet' = [quiet EXCEPT ![p] = TRUE]
    /\ UNCHANGED <<file, remote, sidecar, memory, durable, faults, ghosts>>

\* Another computer backs the project up to the same provider.
OtherPush(p) ==
    /\ remote[p] \in 1..MaxCommit - 1
    /\ remote' = [remote EXCEPT ![p] = @ + 1]
    /\ UNCHANGED <<file, quiet, sidecar, memory, durable, faults, ghosts>>

\* start_project_backup of every project of ps, whose rows begin_transfer
\* has accepted: rows is the library with them Syncing, auto[p] the save that
\* completed its quiet period, 0 for a backup the user asked for.
StartBackups(ps, rows, auto) ==
    /\ \A p \in ps : Free(p) # {}
    /\ row' = rows
    /\ task' = [p \in Project |->
                  IF p \notin ps THEN task[p]
                  ELSE [task[p] EXCEPT ![CHOOSE i \in Free(p) : TRUE] =
                          [None EXCEPT !.at = "prepare", !.auto = auto[p]]]]
    /\ overlapped' = [p \in Project |->
                        overlapped[p] \/ (p \in ps /\ Transfers(p) # {})]
    /\ UNCHANGED <<files, sidecar, attempted, pending, resolver, durable, faults,
                   handed>>

Syncing(rows, ps) ==
    [p \in Project |-> IF p \in ps THEN [rows[p] EXCEPT !.status = "Syncing"]
                       ELSE rows[p]]

NotAutomatic == [p \in Project |-> 0]

\* handle_project_action on a row that offers Push.
BackUp(p) ==
    /\ row[p].status \in Pushable
    /\ StartBackups({p}, Syncing(row, {p}), NotAutomatic)

\* back_up_all.
BackUpAll ==
    LET ps == {p \in Project : row[p].status \in Pushable}
    IN  ps # {} /\ StartBackups(ps, Syncing(row, ps), NotAutomatic)

\* Project::refresh_local_file_state.
Refreshed(p) ==
    IF row[p].status \in Blocked THEN row[p]
    ELSE [row[p] EXCEPT !.status = ReadFromDisk(p), !.backed = BackedUpAt(p)]

\* Wrong variant: a save made during the last backup does not count.
ReadyAfterBackup(p, r) ==
    /\ r.backed # Never
    /\ r.status \notin Blocked
    /\ attempted[p] # file[p]
    /\ file[p] > r.backed
    /\ quiet[p]

\* AutomaticBackupScheduler::poll on the observation of a refreshed row r.
Ready(p, r) ==
    /\ r.backed # Never
    /\ r.status \notin Blocked
    /\ attempted[p] # file[p]
    /\ file[p] > r.backed \/ attempted[p] # 0
    /\ quiet[p]

\* poll_automatic_backups: refresh every row and back up the ready ones.  A
\* Downloaded row is ready only for a save made during its previous backup
\* and becomes LocalAhead, so that begin_transfer accepts it.
PollAutomaticBackups ==
    LET rows == [p \in Project |-> Refreshed(p)]
        ps == {p \in Project : Ready(p, rows[p]) /\ Free(p) # {}}
    IN  StartBackups(ps, Syncing(rows, ps), file)

\* prepare_backup fails: the file is unreadable or keeps changing.
PrepareFails(p, i) ==
    /\ task[p][i].at = "prepare"
    /\ Fault
    /\ FailTransfer(p)
    /\ End(p, i)
    /\ UNCHANGED <<files, sidecar, attempted, pending, resolver, durable, ghosts>>

\* prepare_backup read a save that the scheduler did not qualify: it is left
\* to complete its own quiet period.
Defer(p, i) ==
    /\ task[p][i].at = "prepare"
    /\ task[p][i].auto \notin {0, file[p]}
    /\ FailTransfer(p)
    /\ End(p, i)
    /\ UNCHANGED <<files, sidecar, attempted, pending, resolver, durable, faults,
                   ghosts>>

\* Wrong variant: the attempt is not written to the state file.
RecordInMemory(p, i) ==
    /\ task[p][i].at = "prepare"
    /\ task[p][i].auto \in {0, file[p]}
    /\ attempted' = [attempted EXCEPT ![p] = file[p]]
    /\ task' = [task EXCEPT ![p][i].at = "publish", ![p][i].auto = 0]
    /\ handed' = [handed EXCEPT ![p] = IF task[p][i].auto = 0 THEN @ ELSE file[p]]
    /\ UNCHANGED <<files, sidecar, row, durable, pending, resolver, faults,
                   overlapped>>

\* prepare_backup read the last save, which record_backup_revision notes in
\* the scheduler and in the state file before anything is published.
Record(p, i) ==
    /\ task[p][i].at = "prepare"
    /\ task[p][i].auto \in {0, file[p]}
    /\ attempted' = [attempted EXCEPT ![p] = file[p]]
    /\ durable' = [durable EXCEPT ![p] = file[p]]
    /\ task' = [task EXCEPT ![p][i].at = "publish", ![p][i].auto = 0]
    /\ handed' = [handed EXCEPT ![p] = IF task[p][i].auto = 0 THEN @ ELSE file[p]]
    /\ UNCHANGED <<files, sidecar, row, pending, resolver, faults,
                   overlapped>>

\* save_checked fails: the scheduler keeps the attempt, the file does not.
RecordFails(p, i) ==
    /\ task[p][i].at = "prepare"
    /\ task[p][i].auto \in {0, file[p]}
    /\ Fault
    /\ attempted' = [attempted EXCEPT ![p] = file[p]]
    /\ FailTransfer(p)
    /\ End(p, i)
    /\ UNCHANGED <<files, sidecar, pending, resolver, durable, ghosts>>

\* The sidecar written now.
Written(p, local, verified) == [local |-> local, verified |-> verified, at |-> file[p]]

Finish(p, i, result, head) ==
    task' = [task EXCEPT ![p][i].at = "done", ![p][i].result = result,
                         ![p][i].head = head]

\* The provider cannot be opened or the push fails.  By then the project's
\* handle and library location may have been written to the sidecar.
PublishFails(p, i) ==
    /\ task[p][i].at = "publish"
    /\ IF remote[p] = MaxCommit THEN UNCHANGED faults ELSE Fault
    /\ sidecar' \in {sidecar, [sidecar EXCEPT ![p] = Written(p, @.local, @.verified)]}
    /\ Finish(p, i, "error", 0)
    /\ UNCHANGED <<files, row, attempted, pending, resolver, durable, ghosts>>

\* push_with_options commits the prepared save, merged with what others
\* pushed if need be, and records the new head in the sidecar.
PushCommits(p, i) ==
    /\ task[p][i].at = "publish"
    /\ remote[p] < MaxCommit
    /\ sidecar[p].local # 0 \/ remote[p] = 0
    /\ remote' = [remote EXCEPT ![p] = @ + 1]
    /\ sidecar' = [sidecar EXCEPT ![p] = Written(p, remote[p] + 1, @.verified)]
    /\ task' = [task EXCEPT ![p][i].at = "verify", ![p][i].head = remote[p] + 1]
    /\ UNCHANGED <<file, quiet, row, attempted, pending, resolver, durable,
                   faults, ghosts>>

\* Others pushed: the local work is stashed, which writes the sidecar, and
\* the merge needs choices, breaks the project, or fails.
PushStops(p, i) ==
    /\ task[p][i].at = "publish"
    /\ sidecar[p].local \notin {0, remote[p]}
    /\ sidecar' = [sidecar EXCEPT ![p] = Written(p, @.local, @.verified)]
    /\ \E result \in {"resolution", "review", "error"} : Finish(p, i, result, 0)
    /\ UNCHANGED <<files, row, attempted, pending, resolver, durable, faults,
                   ghosts>>

\* A sidecar without a head never pushes over the commits of another copy.
PushRefused(p, i) ==
    /\ task[p][i].at = "publish"
    /\ sidecar[p].local = 0
    /\ remote[p] # 0
    /\ Finish(p, i, "error", 0)
    /\ UNCHANGED <<files, sidecar, row, attempted, pending, resolver, durable,
                   faults, ghosts>>

\* verify_commit_copy, the history, and verified_head if all was verified.
Verify(p, i) ==
    /\ task[p][i].at = "verify"
    /\ Finish(p, i, "verified", remote[p])
    /\ sidecar' = [sidecar EXCEPT ![p] = Written(p, @.local, task[p][i].head)]
    /\ UNCHANGED <<files, row, attempted, pending, resolver, durable, faults,
                   ghosts>>

\* Verification is off, fails, or assets were missing; a history that cannot be
\* read again is an error or the one loaded before the push.
VerifyFails(p, i) ==
    /\ task[p][i].at = "verify"
    /\ \/ Finish(p, i, "error", 0)
       \/ \E head \in {remote[p], task[p][i].head - 1} : Finish(p, i, "unverified", head)
    /\ UNCHANGED <<files, sidecar, row, attempted, pending, resolver, durable,
                   faults, ghosts>>

\* The result of a backup comes back to start_project_backup's task.
BackupDone(p, i) ==
    LET t == task[p][i]
    IN  /\ t.at = "done"
        /\ ~t.resolving
        /\ \/ t.result = "verified" /\ FinishTransfer(p, t.head)
           \/ /\ t.result = "unverified"
              /\ row' = [row EXCEPT ![p] = [ApplyHistory(p, @, t.head) EXCEPT
                                              !.status = "LocalAhead"]]
           \/ t.result \in {"resolution", "review"} /\ Status(p, "Conflicted")
           \/ t.result = "error" /\ FailTransfer(p)
        /\ pending' = IF t.result = "resolution" THEN {p}
                      ELSE pending
        /\ resolver' = (resolver \/ t.result = "resolution")
        /\ End(p, i)
        /\ UNCHANGED <<files, sidecar, attempted, durable, faults, ghosts>>

\* resolve_pending_conflict: publish the save the conflict was found for.
Resolve ==
    /\ resolver
    /\ resolver' = FALSE
    /\ \E p \in pending :
          /\ Free(p) # {}
          /\ Status(p, "Syncing")
          /\ task' = [task EXCEPT ![p][CHOOSE i \in Free(p) : TRUE] =
                        [None EXCEPT !.at = "publish", !.resolving = TRUE]]
          /\ overlapped' = [overlapped EXCEPT ![p] = @ \/ Transfers(p) # {}]
    /\ UNCHANGED <<files, sidecar, attempted, pending, durable, faults,
                   handed>>

\* The result of a resolution comes back.
ResolveDone(p, i) ==
    LET t == task[p][i]
    IN  /\ t.at = "done"
        /\ t.resolving
        /\ IF t.result \in {"verified", "unverified"} THEN FinishTransfer(p, t.head)
           ELSE Status(p, "Conflicted")
        /\ pending' = CASE t.result = "resolution" -> {p}
                        [] t.result = "error"      -> pending
                        [] OTHER                   -> {}
        /\ resolver' = (resolver \/ t.result = "resolution")
        /\ End(p, i)
        /\ UNCHANGED <<files, sidecar, attempted, durable, faults, ghosts>>

\* The ReviewConflicts action reopens the resolver for its own conflict.
ReviewConflicts(p) ==
    /\ row[p].status = "Conflicted"
    /\ p \in pending
    /\ resolver' = TRUE
    /\ UNCHANGED <<files, sidecar, row, attempted, task, pending, durable, faults,
                   ghosts>>

CloseResolver ==
    /\ resolver
    /\ resolver' = FALSE
    /\ UNCHANGED <<files, sidecar, row, attempted, task, pending, durable, faults,
                   ghosts>>

\* load_project_history of a selected row without versions reads the history
\* (Slot bounds these loads to one at a time).
LoadHistory(p) ==
    /\ ~row[p].versions
    /\ sidecar[p].local # 0
    /\ Free(p) # {}
    /\ \A i \in Slot : task[p][i].at # "history"
    /\ task' = [task EXCEPT ![p][CHOOSE i \in Free(p) : TRUE] =
                  [None EXCEPT !.at = "history", !.head = remote[p]]]
    /\ UNCHANGED <<files, sidecar, row, attempted, pending, resolver, durable,
                   faults, ghosts>>

\* The history comes back and is applied to the row as it is now.
HistoryDone(p, i) ==
    /\ task[p][i].at = "history"
    /\ row' = [row EXCEPT ![p] = ApplyHistory(p, @, task[p][i].head)]
    /\ End(p, i)
    /\ UNCHANGED <<files, sidecar, attempted, pending, resolver, durable, faults,
                   ghosts>>

\* reload_library: every row is read from disk again.
ReloadLibrary ==
    /\ row' = [p \in Project |-> Listed(p)]
    /\ resolver' = FALSE
    /\ UNCHANGED <<files, sidecar, attempted, task, pending, durable, faults,
                   ghosts>>

\* Any other change of the preferences (sort order, folders, appearance) saves
\* the state file, with an attempt whose own save had failed.
SaveState ==
    /\ durable # attempted
    /\ durable' = attempted
    /\ UNCHANGED <<files, sidecar, memory, faults, ghosts>>

\* The application stops and is started again; only files survive.
Restart ==
    /\ Fault
    /\ row' = [p \in Project |-> Listed(p)]
    /\ attempted' = durable
    /\ task' = [p \in Project |-> [i \in Slot |-> None]]
    /\ pending' = {}
    /\ resolver' = FALSE
    /\ UNCHANGED <<files, sidecar, durable, ghosts>>

TaskStep(p, i) ==
    \/ PrepareFails(p, i) \/ Defer(p, i) \/ Record(p, i) \/ RecordFails(p, i)
    \/ PublishFails(p, i) \/ PushCommits(p, i) \/ PushStops(p, i)
    \/ PushRefused(p, i) \/ Verify(p, i) \/ VerifyFails(p, i)
    \/ BackupDone(p, i) \/ ResolveDone(p, i) \/ HistoryDone(p, i)

DesktopNext ==
    \/ \E p \in Project : \/ SaveProject(p) \/ QuietPeriod(p) \/ OtherPush(p)
                          \/ BackUp(p) \/ ReviewConflicts(p) \/ LoadHistory(p)
                          \/ \E i \in Slot : TaskStep(p, i)
    \/ BackUpAll \/ PollAutomaticBackups \/ Resolve \/ CloseResolver
    \/ ReloadLibrary \/ SaveState \/ Restart

DesktopSpec == DesktopInit /\ [][DesktopNext]_vars

\* Time passes, the scheduler polls, and every background task ends.
DesktopFairness ==
    /\ WF_vars(PollAutomaticBackups)
    /\ \A p \in Project : /\ WF_vars(QuietPeriod(p))
                          /\ \A i \in Slot : WF_vars(TaskStep(p, i))

FairDesktopSpec == DesktopSpec /\ DesktopFairness

-----------------------------------------------------------------------------

\* Every variable holds a value of its type.
DesktopTypeOK ==
    /\ file \in [Project -> Save]
    /\ quiet \in [Project -> BOOLEAN]
    /\ remote \in [Project -> 0..MaxCommit]
    /\ sidecar \in [Project -> Sidecars]
    /\ row \in [Project -> Rows]
    /\ attempted \in [Project -> 0..MaxSave]
    /\ durable \in [Project -> 0..MaxSave]
    /\ task \in [Project -> [Slot -> Tasks]]
    /\ pending \in SUBSET Project
    /\ resolver \in BOOLEAN
    /\ faults \in 0..MaxFaults
    /\ handed \in [Project -> 0..MaxSave]
    /\ overlapped \in [Project -> BOOLEAN]

\* A row never waits for nothing: one that shows Syncing, which offers no
\* action and which polling skips, has a transfer in flight whose result is
\* still to come, whatever was reloaded, deferred or failed meanwhile.
SyncingHasTransfer ==
    \A p \in Project : row[p].status = "Syncing" => Transfers(p) # {}

\* The scheduler publishes a save at most once, across failures and restarts,
\* unless two transfers of the project overlapped (a library reload during a
\* transfer offers the project again).
PublishedOnce ==
    [][\A p \in Project :
          ~overlapped[p] => \A i \in Slot :
             (task[p][i].at = "prepare" /\ task[p][i].auto # 0
              /\ task'[p][i].at = "publish") => task[p][i].auto > handed[p]]_vars

\* Every transfer a row shows comes to an end.
SyncingEnds ==
    \A p \in Project : row[p].status = "Syncing" ~> row[p].status # "Syncing"

\* A save made after or during an attempted backup is handed over in its turn,
\* unless the row waits for the user or the sidecar lost its head.
SaveIsHandedOver ==
    \A p \in Project :
        attempted[p] \notin {0, file[p]}
            ~> \/ attempted[p] = file[p]
               \/ row[p].status \in {"UpstreamAhead", "Conflicted"}
               \/ sidecar[p].local = 0

-----------------------------------------------------------------------------

\* The scheduler's books on p: the last save it had published is not after the
\* last save, and is noted as attempted, in memory and on disk, while it is the
\* last one; without an overlap p has one transfer at most, and a save that is
\* being prepared was never published before.
BooksKept(p) ==
    /\ handed[p] <= file[p]
    /\ handed[p] = file[p] => attempted[p] = file[p] /\ durable[p] = file[p]
    /\ ~overlapped[p] =>
          /\ \A i, j \in Transfers(p) : i = j
          /\ \A i \in Slot : task[p][i].at = "prepare" /\ task[p][i].auto # 0
                                => task[p][i].auto > handed[p]

\* The inductive invariant behind SyncingHasTransfer and PublishedOnce.
DesktopInv ==
    /\ DesktopTypeOK
    /\ \A p \in Project, i \in Slot : task[p][i].at = "verify" => task[p][i].head # 0
    /\ SyncingHasTransfer
    /\ \A p \in Project : BooksKept(p)
============================================================================
