---------------------------- MODULE DesktopProofs ----------------------------
(***************************************************************************)
(* Proofs about the rows of the desktop library, for any projects, any     *)
(* number of background tasks, saves, commits and failures: a row that     *)
(* shows a transfer has one, and the scheduler publishes a save once.      *)
(***************************************************************************)
EXTENDS Desktop, TLAPS

-----------------------------------------------------------------------------
\* What the helpers of a row return.

\* The status read from modification times never shows Syncing.
LEMMA ReadFromDiskType ==
    ASSUME NEW p \in Project
    PROVE  ReadFromDisk(p) \in {"NeverBackedUp", "LocalAhead", "Downloaded"}
BY DEF ReadFromDisk

\* A row made by a scan of the library is well formed and not Syncing.
LEMMA ListedType ==
    ASSUME DesktopTypeOK, NEW p \in Project
    PROVE  Listed(p) \in Rows /\ Listed(p).status # "Syncing"
<1>1. ReadFromDisk(p) \in Statuses /\ ReadFromDisk(p) # "Syncing"
  BY ReadFromDiskType DEF Statuses
<1>2. BackedUpAt(p) \in Never..MaxSave
  BY BoundsAssumption DEF DesktopTypeOK, BackedUpAt, Sidecars, Never
<1> QED BY <1>1, <1>2 DEF Listed, Rows

\* A history result is applied to a row without making it Syncing.
LEMMA ApplyHistoryType ==
    ASSUME NEW p \in Project, NEW r \in Rows, NEW h
    PROVE  /\ ApplyHistory(p, r, h) \in Rows
           /\ ApplyHistory(p, r, h).status = "Syncing" => r.status = "Syncing"
<1> DEFINE s == IF h \in {0, sidecar[p].local} THEN r.status
                ELSE IF ReadFromDisk(p) = "LocalAhead" THEN "Conflicted"
                ELSE "UpstreamAhead"
<1>1. s \in Statuses /\ (s = "Syncing" => r.status = "Syncing")
  BY DEF Statuses, Rows
<1>2. ApplyHistory(p, r, h) = [r EXCEPT !.versions = (h # 0), !.status = s]
  BY DEF ApplyHistory
<1>3. (h # 0) \in BOOLEAN
  OBVIOUS
<1> HIDE DEF s
<1> QED BY <1>1, <1>2, <1>3 DEF Rows

\* A row that is no longer Syncing.
Settles(p) ==
    /\ row' \in [Project -> Rows]
    /\ row'[p].status # "Syncing"
    /\ \A q \in Project \ {p} : row'[q] = row[q]

\* Setting any other status ends what a row shows as Syncing.
LEMMA StatusSettles ==
    ASSUME DesktopTypeOK, NEW p \in Project, NEW s \in Statuses \ {"Syncing"}, Status(p, s)
    PROVE  Settles(p)
<1>1. [row[p] EXCEPT !.status = s] \in Rows /\ [row[p] EXCEPT !.status = s].status = s
  <2>1. row[p] \in Rows
    BY DEF DesktopTypeOK
  <2> QED BY <2>1 DEF Rows
<1> QED BY <1>1 DEF Status, Settles, DesktopTypeOK

\* A failed transfer ends what its row shows as Syncing.
LEMMA FailTransferSettles ==
    ASSUME DesktopTypeOK, NEW p \in Project, FailTransfer(p)
    PROVE  Settles(p)
<1> DEFINE s == IF row[p].status = "Syncing" THEN ReadFromDisk(p) ELSE row[p].status
<1>1. row[p] \in Rows
  BY DEF DesktopTypeOK
<1>2. s \in Statuses \ {"Syncing"}
  BY <1>1, ReadFromDiskType DEF Statuses, Rows
<1>3. Status(p, s)
  BY DEF FailTransfer, Status
<1> HIDE DEF s
<1> QED BY <1>2, <1>3, StatusSettles

\* A finished transfer ends what its row shows as Syncing.
LEMMA FinishTransferSettles ==
    ASSUME DesktopTypeOK, NEW p \in Project, NEW h, FinishTransfer(p, h)
    PROVE  Settles(p)
<1> DEFINE r == [row[p] EXCEPT !.status = "Downloaded", !.backed = file[p]]
<1>1. row[p] \in Rows /\ file[p] \in Never..MaxSave
  BY DEF DesktopTypeOK, Save, Never
<1>2. r \in Rows /\ r.status = "Downloaded"
  BY <1>1 DEF Rows, Statuses
<1> HIDE DEF r
<1>3. ApplyHistory(p, r, h) \in Rows /\ ApplyHistory(p, r, h).status # "Syncing"
  <2>1. /\ ApplyHistory(p, r, h) \in Rows
        /\ ApplyHistory(p, r, h).status = "Syncing" => r.status = "Syncing"
    BY <1>2, ApplyHistoryType
  <2> QED BY <1>2, <2>1
<1>4. row' = [row EXCEPT ![p] = IF row[p].status # "Syncing" THEN row[p]
                                ELSE ApplyHistory(p, r, h)]
  BY DEF FinishTransfer, r
<1> QED BY <1>1, <1>3, <1>4 DEF Settles, DesktopTypeOK

-----------------------------------------------------------------------------
\* A step of a background task.

\* What a task does to the rest of the state: no save, no new transfer.
Quiet(p) ==
    /\ file' = file /\ quiet' = quiet /\ overlapped' = overlapped
    /\ remote' \in [Project -> 0..MaxCommit]
    /\ sidecar' \in [Project -> Sidecars]
    /\ attempted' \in {attempted, [attempted EXCEPT ![p] = file[p]]}
    /\ durable' \in {durable, [durable EXCEPT ![p] = file[p]]}
    /\ pending' \in SUBSET Project
    /\ resolver' \in BOOLEAN
    /\ faults' \in 0..MaxFaults

\* The task in slot i of p becomes t, which is no new transfer.
Becomes(p, i, t) ==
    /\ t \in Tasks
    /\ t.at # "prepare"
    /\ t.at \notin {"none", "history"} => i \in Transfers(p)
    /\ t.at = "verify" => t.head # 0
    /\ task' = [task EXCEPT ![p][i] = t]

\* A step of one background task keeps the invariant if its row is settled
\* before the task stops being a transfer, and if it publishes only the last save.
LEMMA TaskStepKeeps ==
    ASSUME DesktopInv, NEW p \in Project, NEW i \in Slot, NEW t,
           Quiet(p), Becomes(p, i, t),
           \/ row' = row /\ (i \in Transfers(p) => t.at \notin {"none", "history"})
           \/ Settles(p)
           \/ /\ i \notin Transfers(p) /\ row' \in [Project -> Rows]
              /\ \A q \in Project : row'[q].status = "Syncing" => row[q].status = "Syncing",
           \/ handed' = handed
           \/ /\ handed' = [handed EXCEPT ![p] = file[p]] /\ task[p][i].at = "prepare"
              /\ attempted'[p] = file[p] /\ durable'[p] = file[p]
    PROVE  DesktopInv'
<1>1. /\ task' \in [Project -> [Slot -> Tasks]]
      /\ task'[p][i] = t
      /\ \A q \in Project, j \in Slot : <<q, j>> # <<p, i>> => task'[q][j] = task[q][j]
  BY DEF DesktopInv, DesktopTypeOK, Becomes
<1>2. /\ file[p] \in 0..MaxSave
      /\ handed' \in [Project -> 0..MaxSave]
      /\ attempted' \in [Project -> 0..MaxSave]
      /\ durable' \in [Project -> 0..MaxSave]
  <2>1. file[p] \in 0..MaxSave
    BY DEF DesktopInv, DesktopTypeOK, Save
  <2>2. /\ handed \in [Project -> 0..MaxSave] /\ attempted \in [Project -> 0..MaxSave]
        /\ durable \in [Project -> 0..MaxSave]
    BY DEF DesktopInv, DesktopTypeOK
  <2> QED BY <2>1, <2>2 DEF Quiet
<1>3. DesktopTypeOK'
  BY <1>1, <1>2 DEF DesktopInv, DesktopTypeOK, Quiet, Settles
<1>4. \A q \in Project, j \in Slot : task'[q][j].at = "verify" => task'[q][j].head # 0
  BY <1>1 DEF DesktopInv, Becomes
<1>5. \A q \in Project : Transfers(q)' \subseteq Transfers(q)
  BY <1>1 DEF Transfers, Becomes
<1>6. SyncingHasTransfer'
  <2> SUFFICES ASSUME NEW q \in Project, row'[q].status = "Syncing"
               PROVE  Transfers(q)' # {}
    BY DEF SyncingHasTransfer
  <2>1. row[q].status = "Syncing" /\ (q = p => ~Settles(p))
    BY DEF Settles
  <2>2. PICK j \in Slot : task[q][j].at \notin {"none", "history"}
    BY <2>1 DEF DesktopInv, SyncingHasTransfer, Transfers
  <2>3. task'[q][j].at \notin {"none", "history"}
    <3>1. CASE <<q, j>> # <<p, i>>
      BY <1>1, <2>2, <3>1
    <3>2. CASE q = p /\ j = i
      BY <1>1, <2>1, <2>2, <3>2 DEF Transfers
    <3> QED BY <3>1, <3>2
  <2> QED BY <2>3 DEF Transfers
<1>7. ASSUME NEW q \in Project PROVE BooksKept(q)'
  <2>1. BooksKept(q)
    BY DEF DesktopInv
  <2>2. /\ handed[q] \in Nat /\ file[q] \in Nat /\ file'[q] = file[q]
        /\ handed'[q] \in Nat /\ overlapped'[q] = overlapped[q]
    BY <1>2 DEF DesktopInv, DesktopTypeOK, Save, Quiet
  <2>3. /\ attempted'[q] \in {attempted[q], file[q]}
        /\ durable'[q] \in {durable[q], file[q]}
    BY DEF Quiet, DesktopInv, DesktopTypeOK
  <2>4. \/ handed'[q] = handed[q]
        \/ /\ q = p /\ task[p][i].at = "prepare" /\ handed'[q] = file[q]
           /\ attempted'[q] = file[q] /\ durable'[q] = file[q]
    BY DEF DesktopInv, DesktopTypeOK
  <2>5. /\ handed'[q] <= file'[q]
        /\ handed'[q] = file'[q] => attempted'[q] = file'[q] /\ durable'[q] = file'[q]
    BY <2>1, <2>2, <2>3, <2>4 DEF BooksKept
  <2>6. ASSUME ~overlapped[q], NEW j \in Slot, task'[q][j].at = "prepare", task'[q][j].auto # 0
        PROVE  task'[q][j].auto > handed'[q]
    <3>1. <<q, j>> # <<p, i>>
      BY <1>1, <2>6 DEF Becomes
    <3>2. task'[q][j] = task[q][j] /\ task[q][j].auto > handed[q]
      BY <1>1, <2>1, <2>6, <3>1 DEF BooksKept
    <3>3. ~(q = p /\ task[p][i].at = "prepare")
      BY <2>1, <2>6, <3>1, <3>2 DEF BooksKept, Transfers
    <3> QED BY <2>4, <3>2, <3>3
  <2>7. ~overlapped[q] => \A j, k \in Transfers(q)' : j = k
    BY <1>5, <2>1 DEF BooksKept
  <2> QED BY <2>2, <2>5, <2>6, <2>7 DEF BooksKept
<1> QED BY <1>3, <1>4, <1>6, <1>7 DEF DesktopInv

\* A task that ends leaves its slot free.
LEMMA EndBecomes ==
    ASSUME NEW p \in Project, NEW i \in Slot, End(p, i)
    PROVE  Becomes(p, i, None)
<1>1. None \in Tasks /\ None.at = "none"
  BY BoundsAssumption DEF None, Tasks, Results
<1> QED BY <1>1 DEF End, Becomes

\* A transfer that finishes waits for its result to be applied.
LEMMA FinishBecomes ==
    ASSUME DesktopTypeOK, NEW p \in Project, NEW i \in Transfers(p),
           NEW result \in Results, NEW h \in 0..MaxCommit, Finish(p, i, result, h)
    PROVE  \E t : Becomes(p, i, t) /\ t.at = "done"
<1> DEFINE t == [task[p][i] EXCEPT !.at = "done", !.result = result, !.head = h]
<1>1. i \in Slot /\ task[p][i] \in Tasks
  BY DEF DesktopTypeOK, Transfers
<1>2. t \in Tasks /\ t.at = "done"
  BY <1>1 DEF Tasks
<1>3. task' = [task EXCEPT ![p][i] = t]
  BY DEF Finish
<1> HIDE DEF t
<1> QED BY <1>1, <1>2, <1>3 DEF Becomes

\* Failures are counted within their bound.
LEMMA FaultType ==
    ASSUME DesktopTypeOK, Fault \/ faults' = faults
    PROVE  faults' \in 0..MaxFaults
BY BoundsAssumption DEF DesktopTypeOK, Fault

\* Writing the sidecar leaves a sidecar.
LEMMA WrittenType ==
    ASSUME DesktopTypeOK, NEW p \in Project, NEW l \in 0..MaxCommit, NEW v \in 0..MaxCommit
    PROVE  /\ Written(p, l, v) \in Sidecars
           /\ [sidecar EXCEPT ![p] = Written(p, l, v)] \in [Project -> Sidecars]
<1>1. Written(p, l, v) \in Sidecars
  BY DEF Written, Sidecars, DesktopTypeOK, Save
<1> QED BY <1>1 DEF DesktopTypeOK

\* A task that fails before it publishes, or finds an unqualified save.
LEMMA PrepareEndsKeeps ==
    ASSUME DesktopInv, NEW p \in Project, NEW i \in Slot,
           PrepareFails(p, i) \/ Defer(p, i) \/ RecordFails(p, i)
    PROVE  DesktopInv'
<1>1. End(p, i) /\ FailTransfer(p) /\ handed' = handed
  BY DEF PrepareFails, Defer, RecordFails, ghosts
<1>2. Settles(p) /\ Becomes(p, i, None)
  BY <1>1, FailTransferSettles, EndBecomes DEF DesktopInv
<1>3. Quiet(p)
  <2>1. faults' \in 0..MaxFaults
    BY FaultType DEF PrepareFails, Defer, RecordFails, DesktopInv
  <2> QED BY <2>1 DEF PrepareFails, Defer, RecordFails, Quiet, files, ghosts, DesktopInv,
          DesktopTypeOK
<1> QED BY <1>1, <1>2, <1>3, TaskStepKeeps

\* The scheduler notes an attempt before its transfer publishes, in memory and in
\* the file of attempts, so that a restart does not offer the save again.
LEMMA RecordKeeps ==
    ASSUME DesktopInv, NEW p \in Project, NEW i \in Slot, Record(p, i)
    PROVE  DesktopInv'
<1> DEFINE t == [task[p][i] EXCEPT !.at = "publish", !.auto = 0]
<1>1. task[p][i] \in Tasks /\ task[p][i].at = "prepare"
  BY DEF DesktopInv, DesktopTypeOK, Record
<1>2. t \in Tasks /\ t.at = "publish"
  <2>1. 0 \in 0..MaxSave
    BY BoundsAssumption
  <2> QED BY <1>1, <2>1 DEF Tasks
<1>3. task' = [task EXCEPT ![p][i] = t]
  BY DEF Record
<1> HIDE DEF t
<1>4. Becomes(p, i, t)
  BY <1>1, <1>2, <1>3 DEF Becomes, Transfers
<1>5. Quiet(p) /\ row' = row
  BY DEF Record, Quiet, files, DesktopInv, DesktopTypeOK
<1>6. attempted'[p] = file[p] /\ durable'[p] = file[p]
  BY DEF Record, DesktopInv, DesktopTypeOK
<1>7. handed' = handed \/ handed' = [handed EXCEPT ![p] = file[p]]
  <2>1. CASE task[p][i].auto = 0
    BY <2>1 DEF Record, DesktopInv, DesktopTypeOK
  <2>2. CASE task[p][i].auto # 0
    BY <2>2 DEF Record
  <2> QED BY <2>1, <2>2
<1> QED BY <1>1, <1>2, <1>4, <1>5, <1>6, <1>7, TaskStepKeeps

\* A task that ends with a result; the row waits for it to come back.
LEMMA PublishedKeeps ==
    ASSUME DesktopInv, NEW p \in Project, NEW i \in Slot,
           \/ PublishFails(p, i) \/ PushStops(p, i) \/ PushRefused(p, i)
           \/ Verify(p, i) \/ VerifyFails(p, i)
    PROVE  DesktopInv'
<1>1. i \in Transfers(p) /\ row' = row /\ handed' = handed
  BY DEF PublishFails, PushStops, PushRefused, Verify, VerifyFails, Transfers, ghosts
<1>2. remote[p] \in 0..MaxCommit /\ 0 \in 0..MaxCommit
  BY BoundsAssumption DEF DesktopInv, DesktopTypeOK
<1>3. \E result \in Results, h \in 0..MaxCommit : Finish(p, i, result, h)
  <2>1. CASE PublishFails(p, i) \/ PushRefused(p, i)
    BY <1>2, <2>1 DEF PublishFails, PushRefused, Results
  <2>2. CASE PushStops(p, i)
    BY <1>2, <2>2 DEF PushStops, Results
  <2>3. CASE Verify(p, i)
    BY <1>2, <2>3 DEF Verify, Results
  <2>4. CASE VerifyFails(p, i)
    <3>1. task[p][i] \in Tasks /\ task[p][i].head # 0
      BY <2>4 DEF VerifyFails, DesktopInv, DesktopTypeOK
    <3>2. task[p][i].head - 1 \in 0..MaxCommit
      BY <3>1, BoundsAssumption DEF Tasks
    <3>3. {"error", "unverified"} \subseteq Results
      BY DEF Results
    <3> QED BY <1>2, <2>4, <3>2, <3>3 DEF VerifyFails
  <2> QED BY <2>1, <2>2, <2>3, <2>4
<1>4. \E t : Becomes(p, i, t) /\ t.at = "done"
  BY <1>1, <1>3, FinishBecomes DEF DesktopInv
<1>5. Quiet(p)
  <2>1. faults' \in 0..MaxFaults
    BY FaultType DEF PublishFails, PushStops, PushRefused, Verify, VerifyFails, DesktopInv
  <2>2. sidecar[p].local \in 0..MaxCommit /\ sidecar[p].verified \in 0..MaxCommit
        /\ task[p][i].head \in 0..MaxCommit
    BY <1>1 DEF DesktopInv, DesktopTypeOK, Sidecars, Tasks
  <2>3. sidecar' \in [Project -> Sidecars]
    <3>1. CASE PublishFails(p, i) \/ PushStops(p, i)
      <4> DEFINE w == Written(p, sidecar[p].local, sidecar[p].verified)
      <4>1. [sidecar EXCEPT ![p] = w] \in [Project -> Sidecars]
        BY <2>2, WrittenType DEF DesktopInv
      <4>2. sidecar' \in {sidecar, [sidecar EXCEPT ![p] = w]}
        BY <3>1 DEF PublishFails, PushStops
      <4> HIDE DEF w
      <4> QED BY <4>1, <4>2 DEF DesktopInv, DesktopTypeOK
    <3>2. CASE PushRefused(p, i) \/ VerifyFails(p, i)
      BY <3>2 DEF PushRefused, VerifyFails, DesktopInv, DesktopTypeOK
    <3>3. CASE Verify(p, i)
      BY <2>2, <3>3, WrittenType DEF Verify, DesktopInv
    <3> QED BY <3>1, <3>2, <3>3
  <2> QED BY <2>1, <2>3 DEF PublishFails, PushStops, PushRefused, Verify, VerifyFails, Quiet,
          files, ghosts, DesktopInv, DesktopTypeOK
<1> QED BY <1>1, <1>4, <1>5, TaskStepKeeps

\* A push that lands records its commit in the sidecar and goes on to verify.
LEMMA PushCommitsKeeps ==
    ASSUME DesktopInv, NEW p \in Project, NEW i \in Slot, PushCommits(p, i)
    PROVE  DesktopInv'
<1> DEFINE t == [task[p][i] EXCEPT !.at = "verify", !.head = remote[p] + 1]
<1>1. task[p][i] \in Tasks /\ task[p][i].at = "publish"
  BY DEF DesktopInv, DesktopTypeOK, PushCommits
<1>2. remote[p] + 1 \in 0..MaxCommit /\ remote[p] + 1 # 0
  BY BoundsAssumption DEF PushCommits, DesktopInv, DesktopTypeOK
<1>3. t \in Tasks /\ t.at = "verify" /\ t.head # 0
  BY <1>1, <1>2 DEF Tasks
<1>4. task' = [task EXCEPT ![p][i] = t]
  BY DEF PushCommits
<1> HIDE DEF t
<1>5. Becomes(p, i, t)
  BY <1>1, <1>3, <1>4 DEF Becomes, Transfers
<1>6. Quiet(p) /\ row' = row /\ handed' = handed
  <2>1. sidecar[p].verified \in 0..MaxCommit
    BY DEF DesktopInv, DesktopTypeOK, Sidecars
  <2>2. sidecar' \in [Project -> Sidecars]
    BY <1>2, <2>1, WrittenType DEF PushCommits, DesktopInv
  <2>3. remote' \in [Project -> 0..MaxCommit]
    BY <1>2 DEF PushCommits, DesktopInv, DesktopTypeOK
  <2> QED BY <2>2, <2>3 DEF PushCommits, Quiet, ghosts, DesktopInv, DesktopTypeOK
<1> QED BY <1>3, <1>5, <1>6, TaskStepKeeps

\* The result of a transfer comes back: whatever it is, the row is no longer
\* Syncing.
LEMMA ResultKeeps ==
    ASSUME DesktopInv, NEW p \in Project, NEW i \in Slot,
           BackupDone(p, i) \/ ResolveDone(p, i)
    PROVE  DesktopInv'
<1>1. End(p, i) /\ handed' = handed
  BY DEF BackupDone, ResolveDone, ghosts
<1>2. Settles(p)
  <2>1. {"LocalAhead", "Conflicted"} \subseteq Statuses \ {"Syncing"} /\ DesktopTypeOK
    BY DEF Statuses, DesktopInv
  <2>2. ASSUME NEW h, row' = [row EXCEPT ![p] = [ApplyHistory(p, row[p], h) EXCEPT
                                                   !.status = "LocalAhead"]]
        PROVE  Settles(p)
    <3>1. row[p] \in Rows
      BY <2>1 DEF DesktopTypeOK
    <3>2. ApplyHistory(p, row[p], h) \in Rows
      BY <3>1, ApplyHistoryType
    <3>3. /\ [ApplyHistory(p, row[p], h) EXCEPT !.status = "LocalAhead"] \in Rows
          /\ [ApplyHistory(p, row[p], h) EXCEPT !.status = "LocalAhead"].status = "LocalAhead"
      BY <2>1, <3>2 DEF Rows
    <3> QED BY <2>1, <2>2, <3>3 DEF Settles, DesktopTypeOK
  <2>3. \/ \E h : FinishTransfer(p, h)
        \/ \E h : row' = [row EXCEPT ![p] = [ApplyHistory(p, row[p], h) EXCEPT
                                               !.status = "LocalAhead"]]
        \/ Status(p, "Conflicted")
        \/ FailTransfer(p)
    BY DEF BackupDone, ResolveDone
  <2> QED BY <2>1, <2>2, <2>3, StatusSettles, FailTransferSettles, FinishTransferSettles
<1>3. Quiet(p)
  <2>1. pending' \in SUBSET Project /\ resolver' \in BOOLEAN
    BY DEF BackupDone, ResolveDone, DesktopInv, DesktopTypeOK
  <2> QED BY <2>1 DEF BackupDone, ResolveDone, Quiet, files, ghosts, DesktopInv, DesktopTypeOK
<1> QED BY <1>1, <1>2, <1>3, EndBecomes, TaskStepKeeps

\* A history that arrives late does not touch a running transfer.
LEMMA HistoryDoneKeeps ==
    ASSUME DesktopInv, NEW p \in Project, NEW i \in Slot, HistoryDone(p, i)
    PROVE  DesktopInv'
<1>1. End(p, i) /\ handed' = handed /\ i \notin Transfers(p)
  BY DEF HistoryDone, ghosts, Transfers
<1>2. /\ row' \in [Project -> Rows]
      /\ \A q \in Project : row'[q].status = "Syncing" => row[q].status = "Syncing"
  <2> DEFINE r == ApplyHistory(p, row[p], task[p][i].head)
  <2>1. row[p] \in Rows
    BY DEF DesktopInv, DesktopTypeOK
  <2>2. r \in Rows /\ (r.status = "Syncing" => row[p].status = "Syncing")
    BY <2>1, ApplyHistoryType
  <2>3. row' = [row EXCEPT ![p] = r]
    BY DEF HistoryDone
  <2> HIDE DEF r
  <2> QED BY <2>2, <2>3 DEF DesktopInv, DesktopTypeOK
<1>3. Quiet(p)
  BY DEF HistoryDone, Quiet, files, ghosts, DesktopInv, DesktopTypeOK
<1> QED BY <1>1, <1>2, <1>3, EndBecomes, TaskStepKeeps

-----------------------------------------------------------------------------
\* New tasks.

\* A free slot of p gets the task t.
Starts(p, t) ==
    \E i \in Free(p) : task'[p] = [task[p] EXCEPT ![i] = t]

\* A background task is given a free slot.
LEMMA ChosenSlot ==
    ASSUME NEW p, Free(p) # {}
    PROVE  (CHOOSE i \in Free(p) : TRUE) \in Free(p)
OBVIOUS

\* Transfers begin, of projects whose rows now show it; one that joins another
\* is noted.
LEMMA StartsKeep ==
    ASSUME DesktopInv, NEW ps \in SUBSET Project, NEW new,
           task' \in [Project -> [Slot -> Tasks]], row' \in [Project -> Rows],
           overlapped' \in [Project -> BOOLEAN], resolver' \in BOOLEAN,
           UNCHANGED <<files, sidecar, attempted, pending, durable, faults, handed>>,
           \A p \in ps :
              /\ Starts(p, new[p])
              /\ new[p].at \in {"prepare", "publish"}
              /\ new[p].at = "prepare" /\ new[p].auto # 0 => new[p].auto > handed[p]
              /\ overlapped'[p] = (overlapped[p] \/ Transfers(p) # {}),
           \A p \in Project \ ps :
              /\ task'[p] = task[p]
              /\ overlapped'[p] = overlapped[p]
              /\ row'[p].status = "Syncing" => row[p].status = "Syncing"
    PROVE  DesktopInv'
<1>1. DesktopTypeOK'
  BY DEF DesktopInv, DesktopTypeOK, files
<1>2. \A p \in ps : \E i \in Free(p) :
         /\ i \in Slot /\ i \notin Transfers(p)
         /\ task'[p][i] = new[p]
         /\ \A j \in Slot \ {i} : task'[p][j] = task[p][j]
  <2> SUFFICES ASSUME NEW p \in ps
               PROVE  \E i \in Free(p) :
                         /\ i \in Slot /\ i \notin Transfers(p)
                         /\ task'[p][i] = new[p]
                         /\ \A j \in Slot \ {i} : task'[p][j] = task[p][j]
    OBVIOUS
  <2>1. PICK i \in Free(p) : task'[p] = [task[p] EXCEPT ![i] = new[p]]
    BY DEF Starts
  <2>2. i \in Slot /\ i \notin Transfers(p)
    BY <2>1 DEF Free, Transfers
  <2>3. task[p] \in [Slot -> Tasks]
    BY DEF DesktopInv, DesktopTypeOK
  <2> QED BY <2>1, <2>2, <2>3
<1>3. \A p \in Project, i \in Slot : task'[p][i].at = "verify" => task'[p][i].head # 0
  <2> SUFFICES ASSUME NEW p \in Project, NEW i \in Slot, task'[p][i].at = "verify"
               PROVE  task'[p][i].head # 0
    OBVIOUS
  <2>1. task'[p][i] = task[p][i]
    <3>1. CASE p \notin ps
      BY <3>1
    <3>2. CASE p \in ps
      <4>1. PICK k \in Slot : /\ task'[p][k] = new[p]
                              /\ \A j \in Slot \ {k} : task'[p][j] = task[p][j]
        BY <1>2, <3>2
      <4>2. new[p].at # "verify"
        BY <3>2
      <4> QED BY <4>1, <4>2
    <3> QED BY <3>1, <3>2
  <2> QED BY <2>1 DEF DesktopInv
<1>4. SyncingHasTransfer'
  <2> SUFFICES ASSUME NEW p \in Project, row'[p].status = "Syncing"
               PROVE  Transfers(p)' # {}
    BY DEF SyncingHasTransfer
  <2>1. CASE p \notin ps
    BY <2>1 DEF DesktopInv, SyncingHasTransfer, Transfers
  <2>2. CASE p \in ps
    <3>1. PICK i \in Slot : /\ i \notin Transfers(p) /\ task'[p][i] = new[p]
                            /\ \A j \in Slot \ {i} : task'[p][j] = task[p][j]
      BY <1>2, <2>2
    <3> QED BY <2>2, <3>1 DEF Transfers
  <2> QED BY <2>1, <2>2
<1>5. ASSUME NEW p \in Project PROVE BooksKept(p)'
  <2>1. BooksKept(p) /\ handed' = handed /\ file' = file /\ attempted' = attempted
        /\ durable' = durable
    BY DEF DesktopInv, files
  <2>2. CASE p \notin ps
    BY <2>1, <2>2 DEF BooksKept, Transfers
  <2>3. CASE p \in ps
    <3>1. PICK i \in Slot : /\ i \notin Transfers(p) /\ task'[p][i] = new[p]
                            /\ \A j \in Slot \ {i} : task'[p][j] = task[p][j]
      BY <1>2, <2>3
    <3>2. Transfers(p)' \subseteq Transfers(p) \cup {i}
      BY <3>1 DEF Transfers
    <3>3. ASSUME ~overlapped'[p] PROVE \A j, k \in Transfers(p)' : j = k
      <4>1. Transfers(p) = {}
        BY <2>3, <3>3
      <4> QED BY <3>2, <4>1
    <3>4. ASSUME ~overlapped'[p], NEW j \in Slot, task'[p][j].at = "prepare",
                 task'[p][j].auto # 0
          PROVE  task'[p][j].auto > handed[p]
      <4>1. ~overlapped[p]
        BY <2>3, <3>4
      <4> QED BY <2>1, <2>3, <3>1, <3>4, <4>1 DEF BooksKept
    <3> QED BY <2>1, <3>3, <3>4 DEF BooksKept
  <2> QED BY <2>2, <2>3
<1> QED BY <1>1, <1>3, <1>4, <1>5 DEF DesktopInv

\* Backups of several projects start at once, each with a transfer for its row
\* and each automatic one for a save that was never published.
LEMMA StartBackupsKeeps ==
    ASSUME DesktopInv, NEW ps \in SUBSET Project, NEW rows \in [Project -> Rows],
           NEW auto \in [Project -> 0..MaxSave], StartBackups(ps, rows, auto),
           \A p \in Project \ ps : rows[p].status = "Syncing" => row[p].status = "Syncing",
           \A p \in ps : auto[p] # 0 => auto[p] > handed[p]
    PROVE  DesktopInv'
<1> DEFINE new == [p \in Project |-> [None EXCEPT !.at = "prepare", !.auto = auto[p]]]
<1>1. \A p \in Project : /\ new[p] \in Tasks
                         /\ new[p].at = "prepare" /\ new[p].auto = auto[p]
  <2>1. None \in Tasks
    BY BoundsAssumption DEF None, Tasks, Results
  <2> QED BY <2>1 DEF Tasks
<1>2. ASSUME NEW p \in ps
      PROVE  Starts(p, new[p]) /\ task'[p] \in [Slot -> Tasks]
             /\ overlapped'[p] = (overlapped[p] \/ Transfers(p) # {})
  <2>1. PICK i \in Free(p) : i = CHOOSE j \in Free(p) : TRUE
    BY <1>2, ChosenSlot DEF StartBackups
  <2>2. task'[p] = [task[p] EXCEPT ![i] = new[p]]
    BY <1>2, <2>1 DEF StartBackups
  <2>3. i \in Slot /\ task[p] \in [Slot -> Tasks]
    BY <2>1 DEF Free, DesktopInv, DesktopTypeOK
  <2> HIDE DEF new
  <2> QED BY <1>1, <1>2, <2>1, <2>2, <2>3 DEF Starts, StartBackups
<1>3. ASSUME NEW p \in Project \ ps
      PROVE  task'[p] = task[p] /\ overlapped'[p] = overlapped[p]
             /\ task'[p] \in [Slot -> Tasks]
  BY <1>3 DEF StartBackups, DesktopInv, DesktopTypeOK
<1> HIDE DEF new
<1>4. task' \in [Project -> [Slot -> Tasks]]
  <2>1. \E f : task' = [p \in Project |-> f[p]]
    <3> DEFINE f == [p \in Project |->
                  IF p \notin ps THEN task[p]
                  ELSE [task[p] EXCEPT ![CHOOSE i \in Free(p) : TRUE] =
                          [None EXCEPT !.at = "prepare", !.auto = auto[p]]]]
    <3>1. task' = f
      BY DEF StartBackups
    <3>2. f = [p \in Project |-> f[p]]
      OBVIOUS
    <3> HIDE DEF f
    <3> QED BY <3>1, <3>2
  <2> QED BY <1>2, <1>3, <2>1
<1>5. overlapped' \in [Project -> BOOLEAN] /\ row' = rows
      /\ UNCHANGED <<files, sidecar, attempted, pending, resolver, durable, faults, handed>>
  BY DEF StartBackups
<1>6. resolver' \in BOOLEAN
  BY <1>5 DEF DesktopInv, DesktopTypeOK
<1>7. \A p \in ps :
         /\ Starts(p, new[p])
         /\ new[p].at \in {"prepare", "publish"}
         /\ new[p].at = "prepare" /\ new[p].auto # 0 => new[p].auto > handed[p]
         /\ overlapped'[p] = (overlapped[p] \/ Transfers(p) # {})
  BY <1>1, <1>2
<1>8. \A p \in Project \ ps :
         /\ task'[p] = task[p]
         /\ overlapped'[p] = overlapped[p]
         /\ row'[p].status = "Syncing" => row[p].status = "Syncing"
  BY <1>3, <1>5
<1>9. UNCHANGED <<files, sidecar, attempted, pending, durable, faults, handed>>
      /\ row' \in [Project -> Rows]
  BY <1>5
<1> QED BY <1>4, <1>5, <1>6, <1>7, <1>8, <1>9, StartsKeep

\* begin_transfer on the rows of ps.
LEMMA SyncingRows ==
    ASSUME NEW rows \in [Project -> Rows], NEW ps \in SUBSET Project
    PROVE  /\ Syncing(rows, ps) \in [Project -> Rows]
           /\ \A p \in Project \ ps : Syncing(rows, ps)[p] = rows[p]
<1>1. "Syncing" \in Statuses
  BY DEF Statuses
<1>2. \A p \in Project : [rows[p] EXCEPT !.status = "Syncing"] \in Rows
  <2> TAKE p \in Project
  <2> DEFINE r == rows[p]
  <2>1. r \in Rows
    OBVIOUS
  <2> HIDE DEF r
  <2>2. [r EXCEPT !.status = "Syncing"] \in Rows
    BY <1>1, <2>1 DEF Rows
  <2> QED BY <2>2 DEF r
<1> QED BY <1>2 DEF Syncing

\* A person backs up one project or all of them.
LEMMA BackUpKeeps ==
    ASSUME DesktopInv, (\E p \in Project : BackUp(p)) \/ BackUpAll
    PROVE  DesktopInv'
<1>1. PICK ps \in SUBSET Project : StartBackups(ps, Syncing(row, ps), NotAutomatic)
  BY DEF BackUp, BackUpAll
<1>2. /\ Syncing(row, ps) \in [Project -> Rows]
      /\ \A p \in Project \ ps : Syncing(row, ps)[p] = row[p]
  BY SyncingRows DEF DesktopInv, DesktopTypeOK
<1>3. /\ NotAutomatic \in [Project -> 0..MaxSave]
      /\ \A p \in Project : NotAutomatic[p] = 0
  BY BoundsAssumption DEF NotAutomatic
<1> QED BY <1>1, <1>2, <1>3, StartBackupsKeeps

\* Only a save that was not attempted yet is ready, and one that was published
\* and is still the last was attempted.
LEMMA PollKeeps ==
    ASSUME DesktopInv, PollAutomaticBackups
    PROVE  DesktopInv'
<1> DEFINE rows == [p \in Project |-> Refreshed(p)]
           ps == {p \in Project : Ready(p, rows[p]) /\ Free(p) # {}}
<1>1. StartBackups(ps, Syncing(rows, ps), file)
  BY DEF PollAutomaticBackups
<1>2. ASSUME NEW p \in Project
      PROVE  /\ Refreshed(p) \in Rows
             /\ Refreshed(p).status = "Syncing" => row[p].status = "Syncing"
  <2> DEFINE r == row[p]
  <2>1. r \in Rows
    BY DEF DesktopInv, DesktopTypeOK
  <2>2. ReadFromDisk(p) \in Statuses \ {"Syncing"} /\ BackedUpAt(p) \in Never..MaxSave
    <3>1. BackedUpAt(p) \in Never..MaxSave
      BY BoundsAssumption DEF DesktopInv, DesktopTypeOK, BackedUpAt, Sidecars, Never
    <3> QED BY <3>1, ReadFromDiskType DEF Statuses
  <2>3. Refreshed(p) = IF r.status \in Blocked THEN r
                       ELSE [r EXCEPT !.status = ReadFromDisk(p), !.backed = BackedUpAt(p)]
    BY DEF Refreshed
  <2>4. /\ Refreshed(p) \in Rows
        /\ Refreshed(p).status = "Syncing" => r.status = "Syncing"
    <3> HIDE DEF r
    <3> QED BY <2>1, <2>2, <2>3 DEF Rows
  <2> QED BY <2>4
<1>3. rows \in [Project -> Rows] /\ ps \in SUBSET Project
  BY <1>2
<1>4. \A p \in Project : rows[p].status = "Syncing" => row[p].status = "Syncing"
  BY <1>2
<1>5. ASSUME NEW p \in ps PROVE file[p] > handed[p]
  <2>1. p \in Project /\ attempted[p] # file[p]
    BY <1>5 DEF Ready
  <2>2. BooksKept(p) /\ file[p] \in Nat /\ handed[p] \in Nat
    BY <2>1 DEF DesktopInv, DesktopTypeOK, Save
  <2> QED BY <2>1, <2>2 DEF BooksKept
<1> HIDE DEF rows, ps
<1>6. /\ Syncing(rows, ps) \in [Project -> Rows]
      /\ \A p \in Project \ ps : Syncing(rows, ps)[p] = rows[p]
  BY <1>3, SyncingRows
<1>7. file \in [Project -> 0..MaxSave]
  BY DEF DesktopInv, DesktopTypeOK, Save
<1>8. \A p \in Project \ ps : Syncing(rows, ps)[p].status = "Syncing" => row[p].status = "Syncing"
  BY <1>4, <1>6
<1> QED BY <1>1, <1>3, <1>5, <1>6, <1>7, <1>8, StartBackupsKeeps

\* A dialog's choices start the transfer of the conflicted project again.
LEMMA ResolveKeeps ==
    ASSUME DesktopInv, Resolve
    PROVE  DesktopInv'
<1> DEFINE t == [None EXCEPT !.at = "publish", !.resolving = TRUE]
<1>1. PICK p \in pending :
         /\ Free(p) # {}
         /\ Status(p, "Syncing")
         /\ task' = [task EXCEPT ![p][CHOOSE i \in Free(p) : TRUE] = t]
         /\ overlapped' = [overlapped EXCEPT ![p] = @ \/ Transfers(p) # {}]
  BY DEF Resolve
<1>2. p \in Project
  BY DEF DesktopInv, DesktopTypeOK
<1>3. PICK i \in Free(p) : i = CHOOSE j \in Free(p) : TRUE
  BY <1>1, ChosenSlot
<1>4. t \in Tasks /\ t.at = "publish"
  <2>1. None \in Tasks
    BY BoundsAssumption DEF None, Tasks, Results
  <2> QED BY <2>1 DEF Tasks
<1>5. /\ task' \in [Project -> [Slot -> Tasks]] /\ Starts(p, t)
      /\ \A q \in Project \ {p} : task'[q] = task[q]
  <2> HIDE DEF t
  <2>1. i \in Slot /\ task \in [Project -> [Slot -> Tasks]]
    BY <1>3 DEF Free, DesktopInv, DesktopTypeOK
  <2>2. task' = [task EXCEPT ![p][i] = t]
    BY <1>1, <1>3
  <2> QED BY <1>2, <1>3, <1>4, <2>1, <2>2 DEF Starts
<1>6. row' \in [Project -> Rows] /\ \A q \in Project \ {p} : row'[q] = row[q]
  <2>1. row[p] \in Rows
    BY <1>2 DEF DesktopInv, DesktopTypeOK
  <2>2. [row[p] EXCEPT !.status = "Syncing"] \in Rows
    BY <2>1 DEF Rows, Statuses
  <2> QED BY <1>1, <2>2 DEF Status, DesktopInv, DesktopTypeOK
<1>7. /\ overlapped' \in [Project -> BOOLEAN]
      /\ overlapped'[p] = (overlapped[p] \/ Transfers(p) # {})
      /\ \A q \in Project \ {p} : overlapped'[q] = overlapped[q]
  BY <1>1, <1>2 DEF DesktopInv, DesktopTypeOK
<1>8. /\ resolver' \in BOOLEAN
      /\ UNCHANGED <<files, sidecar, attempted, pending, durable, faults, handed>>
  BY DEF Resolve
<1> DEFINE new == [q \in {p} |-> t]
<1>9. /\ {p} \in SUBSET Project
      /\ \A q \in {p} :
           /\ Starts(q, new[q])
           /\ new[q].at \in {"prepare", "publish"}
           /\ new[q].at = "prepare" /\ new[q].auto # 0 => new[q].auto > handed[q]
           /\ overlapped'[q] = (overlapped[q] \/ Transfers(q) # {})
  <2> HIDE DEF t
  <2> QED BY <1>2, <1>4, <1>5, <1>7
<1>10. \A q \in Project \ {p} :
           /\ task'[q] = task[q]
           /\ overlapped'[q] = overlapped[q]
           /\ row'[q].status = "Syncing" => row[q].status = "Syncing"
  BY <1>5, <1>6, <1>7
<1> HIDE DEF new, t
<1> QED BY <1>5, <1>6, <1>7, <1>8, <1>9, <1>10, StartsKeep

\* A history is loaded beside whatever transfer runs.
LEMMA LoadHistoryKeeps ==
    ASSUME DesktopInv, NEW p \in Project, LoadHistory(p)
    PROVE  DesktopInv'
<1> DEFINE t == [None EXCEPT !.at = "history", !.head = remote[p]]
<1>1. PICK i \in Free(p) : i = CHOOSE j \in Free(p) : TRUE
  BY ChosenSlot DEF LoadHistory
<1>2. t \in Tasks /\ t.at = "history"
  <2>1. None \in Tasks /\ remote[p] \in 0..MaxCommit
    BY BoundsAssumption DEF None, Tasks, Results, DesktopInv, DesktopTypeOK
  <2> QED BY <2>1 DEF Tasks
<1>3. task' = [task EXCEPT ![p][i] = t] /\ row' = row /\ handed' = handed
  BY <1>1 DEF LoadHistory, ghosts
<1>4. i \in Slot /\ i \notin Transfers(p)
  BY <1>1 DEF Free, Transfers
<1> HIDE DEF t
<1>5. Becomes(p, i, t)
  BY <1>2, <1>3 DEF Becomes
<1>6. Quiet(p)
  BY DEF LoadHistory, Quiet, files, ghosts, DesktopInv, DesktopTypeOK
<1> QED BY <1>3, <1>4, <1>5, <1>6, TaskStepKeeps

-----------------------------------------------------------------------------
\* Steps of the world, and steps of the application that touch no task.

\* A save is later than every save published before.
LEMMA SaveProjectKeeps ==
    ASSUME DesktopInv, NEW p \in Project, SaveProject(p)
    PROVE  DesktopInv'
<1>1. /\ file[p] \in Save /\ file[p] + 1 \in Save
      /\ file' = [file EXCEPT ![p] = file[p] + 1] /\ quiet' = [quiet EXCEPT ![p] = FALSE]
      /\ UNCHANGED <<remote, sidecar, row, attempted, task, pending, resolver, durable,
                     faults, handed, overlapped>>
  BY BoundsAssumption DEF SaveProject, memory, ghosts, DesktopInv, DesktopTypeOK, Save
<1>2. DesktopTypeOK'
  BY <1>1 DEF DesktopInv, DesktopTypeOK
<1>3. SyncingHasTransfer'
  BY <1>1 DEF DesktopInv, SyncingHasTransfer, Transfers
<1>4. ASSUME NEW q \in Project PROVE BooksKept(q)'
  <2>1. BooksKept(q) /\ file[q] \in Nat /\ handed[q] \in Nat
    BY DEF DesktopInv, DesktopTypeOK, Save
  <2>2. file'[q] = file[q] \/ file'[q] = file[q] + 1
    BY <1>1 DEF DesktopInv, DesktopTypeOK
  <2> QED BY <1>1, <2>1, <2>2 DEF BooksKept, Transfers
<1> QED BY <1>1, <1>2, <1>3, <1>4 DEF DesktopInv

\* Nothing but a quiet period, another computer's push or the resolver.
LEMMA BesideKeeps ==
    ASSUME DesktopInv, UNCHANGED <<file, sidecar, row, attempted, task, durable, handed, overlapped>>,
           quiet' \in [Project -> BOOLEAN], remote' \in [Project -> 0..MaxCommit],
           pending' \in SUBSET Project, resolver' \in BOOLEAN, faults' \in 0..MaxFaults
    PROVE  DesktopInv'
BY DEF DesktopInv, DesktopTypeOK, SyncingHasTransfer, BooksKept, Transfers

\* Time, other machines and dialogs leave tasks and books alone.
LEMMA WorldKeeps ==
    ASSUME DesktopInv,
           \/ \E p \in Project : QuietPeriod(p) \/ OtherPush(p) \/ ReviewConflicts(p)
           \/ CloseResolver
           \/ UNCHANGED vars
    PROVE  DesktopInv'
<1>1. UNCHANGED <<file, sidecar, row, attempted, task, durable, handed, overlapped, faults, pending>>
  BY DEF QuietPeriod, OtherPush, ReviewConflicts, CloseResolver, vars, files, memory, ghosts
<1>2. quiet' \in [Project -> BOOLEAN] /\ resolver' \in BOOLEAN
  BY DEF QuietPeriod, OtherPush, ReviewConflicts, CloseResolver, vars, files, memory, ghosts,
     DesktopInv, DesktopTypeOK
<1>3. remote' \in [Project -> 0..MaxCommit]
  <2>1. ASSUME NEW p \in Project, OtherPush(p) PROVE remote' \in [Project -> 0..MaxCommit]
    <3>1. remote[p] + 1 \in 0..MaxCommit
      BY <2>1, BoundsAssumption DEF OtherPush
    <3> QED BY <2>1, <3>1 DEF OtherPush, DesktopInv, DesktopTypeOK
  <2> QED BY <2>1 DEF QuietPeriod, ReviewConflicts, CloseResolver, vars, files, memory, ghosts,
          DesktopInv, DesktopTypeOK
<1>4. pending' \in SUBSET Project /\ faults' \in 0..MaxFaults
  BY <1>1 DEF DesktopInv, DesktopTypeOK
<1> QED BY <1>1, <1>2, <1>3, <1>4, BesideKeeps

\* Rows read from disk show no transfer, whatever tasks are left.
LEMMA ReloadKeeps ==
    ASSUME DesktopInv, ReloadLibrary \/ Restart
    PROVE  DesktopInv'
<1>1. /\ row' = [p \in Project |-> Listed(p)] /\ resolver' = FALSE
      /\ task' \in {task, [p \in Project |-> [i \in Slot |-> None]]}
      /\ attempted' \in {attempted, durable} /\ pending' \in {pending, {}}
      /\ UNCHANGED <<file, quiet, remote, sidecar, durable, handed, overlapped>>
  BY DEF ReloadLibrary, Restart, files, ghosts
<1>2. \A p \in Project : row'[p] \in Rows /\ row'[p].status # "Syncing"
  BY <1>1, ListedType DEF DesktopInv
<1>3. None \in Tasks /\ None.at = "none"
  BY BoundsAssumption DEF None, Tasks, Results
<1>4. /\ task' \in [Project -> [Slot -> Tasks]]
      /\ \A p \in Project, i \in Slot : task'[p][i] \in {task[p][i], None}
  BY <1>1, <1>3 DEF DesktopInv, DesktopTypeOK
<1>5. DesktopTypeOK'
  <2>1. faults' \in 0..MaxFaults
    BY FaultType DEF ReloadLibrary, Restart, DesktopInv
  <2>2. row' \in [Project -> Rows]
    BY <1>1, <1>2
  <2> QED BY <1>1, <1>4, <2>1, <2>2 DEF DesktopInv, DesktopTypeOK
<1>6. SyncingHasTransfer'
  BY <1>2 DEF SyncingHasTransfer
<1>7. \A p \in Project, i \in Slot : task'[p][i].at = "verify" => task'[p][i].head # 0
  BY <1>3, <1>4 DEF DesktopInv
<1>8. ASSUME NEW p \in Project PROVE BooksKept(p)'
  <2>1. BooksKept(p) /\ Transfers(p)' \subseteq Transfers(p)
    BY <1>3, <1>4 DEF DesktopInv, Transfers
  <2>2. \A i \in Slot : task'[p][i].at = "prepare" => task'[p][i] = task[p][i]
    BY <1>3, <1>4
  <2> QED BY <1>1, <2>1, <2>2 DEF BooksKept
<1> QED BY <1>5, <1>6, <1>7, <1>8 DEF DesktopInv

\* Writing the file of attempts makes durable what is in memory.
LEMMA SaveStateKeeps ==
    ASSUME DesktopInv, SaveState
    PROVE  DesktopInv'
<1>1. durable' = attempted
      /\ UNCHANGED <<file, quiet, remote, sidecar, row, attempted, task, pending, resolver,
                     faults, handed, overlapped>>
  BY DEF SaveState, files, memory, ghosts
<1> QED BY <1>1 DEF DesktopInv, DesktopTypeOK, SyncingHasTransfer, BooksKept, Transfers

-----------------------------------------------------------------------------

\* Rows, tasks and the scheduler's books agree in every state.
THEOREM DesktopInvariant == DesktopSpec => []DesktopInv
<1>1. DesktopInit => DesktopInv
  <2> SUFFICES ASSUME DesktopInit PROVE DesktopInv
    OBVIOUS
  <2>1. None \in Tasks /\ None.at = "none"
    BY BoundsAssumption DEF None, Tasks, Results
  <2>2. task \in [Project -> [Slot -> Tasks]] /\ \A p \in Project, i \in Slot : task[p][i] = None
    BY <2>1 DEF DesktopInit
  <2>3. remote \in [Project -> 0..MaxCommit] /\ sidecar \in [Project -> Sidecars]
    <3>1. PICK was \in [Project -> Beginnings] :
             /\ remote = [p \in Project |-> was[p].remote]
             /\ sidecar = [p \in Project |-> was[p].sidecar]
      BY DEF DesktopInit
    <3>2. \A b \in Beginnings : b.remote \in 0..MaxCommit /\ b.sidecar \in Sidecars
      BY BoundsAssumption DEF Beginnings, Nothing, Sidecars
    <3> QED BY <3>1, <3>2
  <2>4. \A p \in Project : row[p] = Listed(p) /\ Listed(p) \in Rows /\ Listed(p).status # "Syncing"
    <3> TAKE p \in Project
    <3>1. ReadFromDisk(p) \in Statuses /\ ReadFromDisk(p) # "Syncing"
      BY ReadFromDiskType DEF Statuses
    <3>2. BackedUpAt(p) \in Never..MaxSave
      BY <2>3, BoundsAssumption DEF BackedUpAt, Sidecars, Never
    <3> QED BY <3>1, <3>2 DEF DesktopInit, Listed, Rows
  <2>5. DesktopTypeOK
    <3>1. row \in [Project -> Rows]
      BY <2>4 DEF DesktopInit
    <3>2. 1 \in Save /\ 0 \in 0..MaxSave /\ 0 \in 0..MaxFaults
      BY BoundsAssumption DEF Save
    <3> QED BY <2>2, <2>3, <3>1, <3>2 DEF DesktopInit, DesktopTypeOK
  <2>6. SyncingHasTransfer
    BY <2>4 DEF SyncingHasTransfer
  <2>7. ASSUME NEW p \in Project PROVE BooksKept(p)
    <3>1. file[p] = 1 /\ handed[p] = 0 /\ Transfers(p) = {}
      BY <2>1, <2>2 DEF DesktopInit, Transfers
    <3> QED BY <2>1, <2>2, <3>1 DEF BooksKept
  <2> QED BY <2>1, <2>2, <2>5, <2>6, <2>7 DEF DesktopInv
<1>2. DesktopInv /\ [DesktopNext]_vars => DesktopInv'
  <2> SUFFICES ASSUME DesktopInv, [DesktopNext]_vars PROVE DesktopInv'
    OBVIOUS
  <2>1. ASSUME NEW p \in Project, NEW i \in Slot, TaskStep(p, i) PROVE DesktopInv'
    <3>1. CASE PrepareFails(p, i) \/ Defer(p, i) \/ RecordFails(p, i)
      BY <3>1, PrepareEndsKeeps
    <3>2. CASE Record(p, i)
      BY <3>2, RecordKeeps
    <3>3. CASE \/ PublishFails(p, i) \/ PushStops(p, i) \/ PushRefused(p, i)
               \/ Verify(p, i) \/ VerifyFails(p, i)
      BY <3>3, PublishedKeeps
    <3>4. CASE PushCommits(p, i)
      BY <3>4, PushCommitsKeeps
    <3>5. CASE BackupDone(p, i) \/ ResolveDone(p, i)
      BY <3>5, ResultKeeps
    <3>6. CASE HistoryDone(p, i)
      BY <3>6, HistoryDoneKeeps
    <3> QED BY <2>1, <3>1, <3>2, <3>3, <3>4, <3>5, <3>6 DEF TaskStep
  <2>2. ASSUME NEW p \in Project, SaveProject(p) PROVE DesktopInv'
    BY <2>2, SaveProjectKeeps
  <2>3. CASE \/ \E p \in Project : QuietPeriod(p) \/ OtherPush(p) \/ ReviewConflicts(p)
             \/ CloseResolver
             \/ UNCHANGED vars
    BY <2>3, WorldKeeps
  <2>4. CASE (\E p \in Project : BackUp(p)) \/ BackUpAll
    BY <2>4, BackUpKeeps
  <2>5. ASSUME NEW p \in Project, LoadHistory(p) PROVE DesktopInv'
    BY <2>5, LoadHistoryKeeps
  <2>6. CASE PollAutomaticBackups
    BY <2>6, PollKeeps
  <2>7. CASE Resolve
    BY <2>7, ResolveKeeps
  <2>8. CASE ReloadLibrary \/ Restart
    BY <2>8, ReloadKeeps
  <2>9. CASE SaveState
    BY <2>9, SaveStateKeeps
  <2> QED BY <2>1, <2>2, <2>3, <2>4, <2>5, <2>6, <2>7, <2>8, <2>9 DEF DesktopNext
<1> QED BY <1>1, <1>2, PTL DEF DesktopSpec

\* A row that shows Syncing has a transfer whose result is still to come: no
\* order of reloads, deferrals, failures and late results leaves it waiting
\* for nothing.
THEOREM RowsDoNotHang == DesktopSpec => []SyncingHasTransfer
<1>1. DesktopInv => SyncingHasTransfer
  BY DEF DesktopInv
<1> QED BY <1>1, DesktopInvariant, PTL

\* The scheduler publishes a save at most once as long as no two transfers of
\* the project overlapped, across failed steps and restarts.
THEOREM SavesPublishedOnce == DesktopSpec => PublishedOnce
<1>1. DesktopInv => \A p \in Project :
          ~overlapped[p] => \A i \in Slot :
             (task[p][i].at = "prepare" /\ task[p][i].auto # 0
              /\ task'[p][i].at = "publish") => task[p][i].auto > handed[p]
  BY DEF DesktopInv, BooksKept
<1> QED BY <1>1, DesktopInvariant, PTL DEF PublishedOnce
=============================================================================
