------------------------------- MODULE Sync -------------------------------
(***************************************************************************)
(* Machines backing up one project to a shared filesystem repository: the  *)
(* push coordinator of crates/auru-pm/src/sync.rs and the desktop flow     *)
(* around it (apps/auru-pm-ui/src/backend.rs): push, merge with what       *)
(* others pushed, verify, apply the retention rule.                        *)
(*                                                                         *)
(* One push of a machine is a sequence of provider calls, each a step, so  *)
(* other machines, time and crashes come between any two of them.  The     *)
(* sidecar file survives a crash, the push in progress does not.           *)
(***************************************************************************)
EXTENDS Repository

\* A merge commit has two parents; the desktop protects at most a stash.
ASSUME MergeAssumption == MaxParents = 2
ASSUME ProtectedAssumption ==
    \A blobs \in {{}} \cup {{s} : s \in Snapshot} :
        [commits |-> {}, blobs |-> blobs] \in Roots

VARIABLES
    sidecar,  \* per machine, the sidecar file: local_head, verified_head, stash
    pc,       \* per machine, the provider call its push makes next
    job       \* per machine, the local variables of its push

syncVars == <<sidecar, pc, job>>
vars == <<repoVars, syncVars>>

NoJob == [seen |-> None, mine |-> None, id |-> None,
          from |-> None, commit |-> None, todo |-> {}]

\* Sidecar::default: a machine that never backed up.
Default == [local_head |-> None, verified_head |-> None, stash |-> None]

\* Commit hashes no commit has and no push will compute.
Unused == {c \in CommitId : content[c] = None /\ \A d \in Client : job[d].id # c}

SyncInit ==
    /\ RepoInit
    /\ sidecar = [d \in Client |-> Default]
    /\ pc = [d \in Client |-> "idle"]
    /\ job = [d \in Client |-> NoJob]

Goto(d, label) == pc' = [pc EXCEPT ![d] = label]

\* The push returns to its caller; its local variables are gone.
Return(d) == Goto(d, "idle") /\ job' = [job EXCEPT ![d] = NoJob]

\* The order in which a push stores blobs: assets (build_sample_manifest),
\* then snapshot, manifest and project summary (write_commit_to_primary).
Rank(b) == CASE b \in Asset    -> 1
             [] b \in Snapshot -> 2
             [] b \in Manifest -> 3
             [] OTHER          -> 4

NextUp(todo) == {b \in todo : \A x \in todo : Rank(b) <= Rank(x)}

\* Wrong variant: every commit is planned as a root commit.
PlanRoot(d, j, snapshot, parents, from) ==
    \E samples \in Manifest, metadata \in Info \cup {None} :
        LET k == [parents |-> <<>>, snapshot |-> snapshot,
                  samples |-> samples, metadata |-> metadata]
        IN  /\ job' = [job EXCEPT ![d] =
                          [seen |-> j.seen, mine |-> j.mine, id |-> j.id,
                           from |-> from, commit |-> k, todo |-> Tree(k)]]
            /\ Goto(d, "upload")

\* The push has settled what to commit, on which parents, replacing from.
Plan(d, j, snapshot, parents, from) ==
    \E samples \in Manifest, metadata \in Info \cup {None} :
        LET k == [parents |-> parents, snapshot |-> snapshot,
                  samples |-> samples, metadata |-> metadata]
        IN  /\ job' = [job EXCEPT ![d] =
                          [seen |-> j.seen, mine |-> j.mine, id |-> j.id,
                           from |-> from, commit |-> k, todo |-> Tree(k)]]
            /\ Goto(d, "upload")

\* get_head, Sidecar::load and the choice between the three kinds of push.
\* A local head without a remote HEAD is an error and leaves all unchanged.
StartPush(d) ==
    /\ pc[d] = "idle"
    /\ lock = None
    /\ Unused # {}
    /\ \E s \in Snapshot :
          LET local == sidecar[d].local_head
              j == [seen |-> head, mine |-> s, id |-> CHOOSE c \in Unused : TRUE,
                    from |-> None, commit |-> None, todo |-> {}]
          IN  \/ /\ head = local
                 /\ Plan(d, j, s, IF local = None THEN <<>> ELSE <<local>>, local)
              \/ /\ head # local
                 /\ local = None
                 /\ Plan(d, j, s, <<>>, None)
              \/ /\ head # local
                 /\ local # None
                 /\ head # None
                 /\ job' = [job EXCEPT ![d] = j]
                 /\ Goto(d, "stash")
    /\ UNCHANGED <<repoVars, sidecar>>

\* stash_snapshot: store the pre-merge snapshot, which stands here for the
\* resources detached from it too ...
StashBlob(d) ==
    /\ pc[d] = "stash"
    /\ PutBlob(d, job[d].mine)
    /\ Goto(d, "note")
    /\ UNCHANGED <<sidecar, job>>

\* ... and record it in the sidecar.
StashNote(d) ==
    /\ pc[d] = "note"
    /\ sidecar' = [sidecar EXCEPT ![d].stash = job[d].mine]
    /\ Goto(d, "merge")
    /\ UNCHANGED <<repoVars, job>>

\* get_commit and get_blob of the snapshot, for the base and the remote.
Readable(c) == c \in present /\ content[c].snapshot \in present

\* Wrong variant: the merge commit names only the local parent.
MergeDropsRemote(d) ==
    /\ pc[d] = "merge"
    /\ Readable(sidecar[d].local_head)
    /\ Readable(job[d].seen)
    /\ \E merged \in Snapshot :
          Plan(d, job[d], merged, <<sidecar[d].local_head>>, job[d].seen)
    /\ UNCHANGED <<repoVars, sidecar>>

\* Fetch base and remote and merge: a merged snapshot, with or without
\* choices the user was asked for.
MergeRemote(d) ==
    /\ pc[d] = "merge"
    /\ Readable(sidecar[d].local_head)
    /\ Readable(job[d].seen)
    /\ \E merged \in Snapshot :
          Plan(d, job[d], merged, <<sidecar[d].local_head, job[d].seen>>,
               job[d].seen)
    /\ UNCHANGED <<repoVars, sidecar>>

\* NeedsResolution or NeedsReview, or a base or remote that is not stored any
\* more: nothing is committed and the stash stays.
MergeStops(d) ==
    /\ pc[d] = "merge"
    /\ Forget(d)
    /\ Return(d)
    /\ UNCHANGED sidecar

\* put_blob of the next blob, or, for a detached resource chosen from the
\* remote side of a merge, the get_blob that finds it stored.
Upload(d) ==
    /\ pc[d] = "upload"
    /\ \E b \in NextUp(job[d].todo) :
          /\ \/ PutBlob(d, b)
             \/ b \in Asset /\ GetBlob(d, b)
          /\ job' = [job EXCEPT ![d].todo = @ \ {b}]
          /\ Goto(d, IF job[d].todo = {b} THEN "commit" ELSE "upload")
    /\ UNCHANGED sidecar

SendCommit(d) ==
    /\ pc[d] = "commit"
    /\ PutCommit(d, job[d].id, job[d].commit)
    /\ Goto(d, "advance")
    /\ UNCHANGED <<sidecar, job>>

\* Wrong variant: reads HEAD again and replaces whatever it finds.
MoveHeadAgain(d) ==
    /\ pc[d] = "advance"
    /\ AdvanceHead(head, job[d].id)
    /\ Goto(d, "record")
    /\ UNCHANGED <<sidecar, job>>

\* advance_head succeeds.
MoveHead(d) ==
    /\ pc[d] = "advance"
    /\ AdvanceHead(job[d].from, job[d].id)
    /\ Goto(d, "record")
    /\ UNCHANGED <<sidecar, job>>

\* advance_head reports a conflict or a missing object.
HeadRefused(d) ==
    /\ pc[d] = "advance"
    /\ lock = None
    /\ HeadMoved(job[d].from) \/ ~ValidForHead(job[d].id)
    /\ Forget(d)
    /\ Return(d)
    /\ UNCHANGED sidecar

\* Sidecar::modify after the commit landed.
Record(d) ==
    /\ pc[d] = "record"
    /\ sidecar' = [sidecar EXCEPT ![d] =
                     [local_head    |-> job[d].id,
                      verified_head |-> sidecar[d].verified_head,
                      stash         |-> None]]
    /\ Forget(d)
    /\ Goto(d, "verify")
    /\ UNCHANGED job

\* verify_commit_copy finds the whole commit stored; retention and the mark in
\* the sidecar follow only a verified backup.
Verify(d) ==
    /\ pc[d] = "verify"
    /\ Whole(job[d].id)
    /\ Goto(d, "prune")
    /\ UNCHANGED <<repoVars, sidecar, job>>

\* The backup is incomplete, failed to verify, or verification is off.
NotVerified(d) ==
    /\ pc[d] = "verify"
    /\ Return(d)
    /\ UNCHANGED <<repoVars, sidecar>>

\* What this machine's sidecar asks retention to keep.  The desktop passes no
\* mirrors, so nothing is queued for one.
Protected(d) == [commits |-> {}, blobs |-> {sidecar[d].stash} \ {None}]

\* prune_history under the user's rule.
Prune(d) ==
    /\ pc[d] = "prune"
    /\ lock = None
    /\ \E f \in Visible(floor) : PruneBegin(d, f, Protected(d))
    /\ Goto(d, "sweep")
    /\ UNCHANGED <<sidecar, job>>

\* No retention rule, or prune_history failed before changing anything.
SkipPrune(d) ==
    /\ pc[d] = "prune"
    /\ Goto(d, "confirm")
    /\ UNCHANGED <<repoVars, sidecar, job>>

\* prune_history returns.
FinishPrune(d) ==
    /\ pc[d] = "sweep"
    /\ PruneEnd(d)
    /\ Goto(d, "confirm")
    /\ UNCHANGED <<sidecar, job>>

\* load_history_after_backup: only if the history can be read does the
\* sidecar say that the backup is verified.
Confirm(d) ==
    /\ pc[d] = "confirm"
    /\ lock = None
    /\ sidecar' = IF Visible(floor) \subseteq present
                  THEN [sidecar EXCEPT ![d].verified_head = job[d].id]
                  ELSE sidecar
    /\ Return(d)
    /\ UNCHANGED repoVars

\* A crash, or an error from a call: what was stored stays stored, the
\* sidecar stays as last saved, the push is forgotten, the lock is free.
Crash(d) ==
    /\ pc[d] # "idle"
    /\ IF pc[d] = "sweep" THEN PruneEnd(d) ELSE Forget(d)
    /\ Return(d)
    /\ UNCHANGED sidecar

\* restore_remote_with_collision: a machine without the project restores a
\* listed version completely and enrols the copy.
Enroll(d) ==
    /\ pc[d] = "idle"
    /\ lock = None
    /\ sidecar[d].local_head = None
    /\ Visible(floor) \subseteq present
    /\ \E c \in Visible(floor) :
          /\ Whole(c)
          /\ sidecar' = [sidecar EXCEPT ![d] =
                           [local_head |-> c, verified_head |-> c, stash |-> None]]
    /\ UNCHANGED <<repoVars, pc, job>>

\* discard_stash.
DiscardStash(d) ==
    /\ pc[d] = "idle"
    /\ sidecar[d].stash # None
    /\ sidecar' = [sidecar EXCEPT ![d].stash = None]
    /\ UNCHANGED <<repoVars, pc, job>>

\* The file removals of whichever retention pass runs, and time.
Background ==
    /\ \/ \E b \in Blob : GcBlob(b)
       \/ \E id \in CommitId : GcCommit(id)
       \/ GcCommits
       \/ Tick
    /\ UNCHANGED syncVars

\* The steps a running push takes by itself; retention is the user's choice.
PushStep(d) ==
    \/ StashBlob(d) \/ StashNote(d) \/ MergeRemote(d) \/ MergeStops(d)
    \/ Upload(d) \/ SendCommit(d) \/ MoveHead(d) \/ HeadRefused(d) \/ Record(d)
    \/ Verify(d) \/ NotVerified(d) \/ SkipPrune(d) \/ FinishPrune(d) \/ Confirm(d)

SyncNext ==
    \/ \E d \in Client :
          \/ StartPush(d) \/ PushStep(d) \/ Prune(d) \/ Crash(d)
          \/ Enroll(d) \/ DiscardStash(d)
    \/ Background

SyncSpec == SyncInit /\ [][SyncNext]_vars

\* A push that was started goes on: the runtime polls its future until it is
\* done.  A machine blocked on the LOCK file gets it in the end if the lock is
\* free again and again.
Fairness ==
    \A d \in Client : SF_vars(PushStep(d))

FairSync == SyncSpec /\ Fairness

-----------------------------------------------------------------------------
(* Properties. *)

Label == {"idle", "stash", "note", "merge", "upload", "commit", "advance",
          "record", "verify", "prune", "sweep", "confirm"}

\* The repository's types, and those of the sidecars and of the pushes.
SyncTypeOK ==
    /\ TypeOK
    /\ sidecar \in [Client -> [local_head    : CommitId \cup {None},
                               verified_head : CommitId \cup {None},
                               stash         : Snapshot \cup {None}]]
    /\ pc \in [Client -> Label]
    /\ job \in [Client -> [seen   : CommitId \cup {None},
                           from   : CommitId \cup {None},
                           mine   : Snapshot \cup {None},
                           id     : CommitId \cup {None},
                           commit : Commit \cup {None},
                           todo   : SUBSET Blob]]

\* No acknowledged backup is lost: the version a machine last recorded as its
\* own stays an ancestor of HEAD, however pushes, merges and crashes race.
NoBackupLost ==
    \A d \in Client :
        sidecar[d].local_head # None =>
            head # None /\ sidecar[d].local_head \in Ancestors(head)

\* The three-way merge is given a true common ancestor: the base it uses
\* (local_head) is an ancestor of the remote version it merges with.
MergeBaseIsAncestor ==
    \A d \in Client :
        pc[d] \in {"stash", "note", "merge"} =>
            sidecar[d].local_head \in Ancestors(job[d].seen)

\* A landed push whose sidecar is not yet saved is still in HEAD's line, so a
\* crash before the save forgets the push but not the backup.
LandedIsInLine ==
    \A d \in Client : pc[d] = "record" => job[d].id \in Ancestors(head)

\* What the desktop calls verified is part of the project's line: never a
\* version that this machine's own backups do not descend from.
VerifiedIsInLine ==
    \A d \in Client :
        sidecar[d].verified_head # None =>
            sidecar[d].verified_head \in Ancestors(sidecar[d].local_head)

\* The inductive strengthening of the four properties above.

\* The HEAD a push replaces is a parent of its commit.
ExtendsHead(j) ==
    IF j.from = None THEN ParentsOf(j.commit) = {}
                     ELSE j.from \in ParentsOf(j.commit)

\* What machine d has recorded: its version, and the one it verified.
Recorded(d) ==
    /\ sidecar[d].local_head # None =>
          head # None /\ sidecar[d].local_head \in Ancestors(head)
    /\ sidecar[d].verified_head # None =>
          /\ sidecar[d].local_head # None
          /\ sidecar[d].verified_head \in Ancestors(sidecar[d].local_head)

\* What is true of machine d at each point of its push.
DeviceInv(d) ==
    /\ Recorded(d)
    /\ pc[d] \in {"stash", "note", "merge"} =>
          /\ job[d].seen \in Known
          /\ job[d].mine \in Snapshot
          /\ job[d].id \in CommitId
          /\ sidecar[d].local_head \in Ancestors(job[d].seen)
    /\ pc[d] \in {"upload", "commit", "advance"} =>
          /\ job[d].commit \in Commit
          /\ job[d].id \in CommitId
          /\ ParentsOf(job[d].commit) \subseteq Known
          /\ ExtendsHead(job[d])
          /\ sidecar[d].local_head \in ParentsOf(job[d].commit) \cup {None}
    /\ pc[d] = "upload" => Tree(job[d].commit) \subseteq acked[d] \cup job[d].todo
    /\ pc[d] \in {"commit", "advance"} => Tree(job[d].commit) \subseteq acked[d]
    /\ pc[d] = "advance" => /\ job[d].id \in acked[d]
                            /\ content[job[d].id] = job[d].commit
    /\ pc[d] = "record" =>
          /\ head # None
          /\ job[d].id \in Ancestors(head)
          /\ sidecar[d].local_head \in Ancestors(job[d].id) \cup {None}
    /\ pc[d] \in {"verify", "prune", "sweep", "confirm"} =>
          /\ job[d].id \in CommitId
          /\ job[d].id = sidecar[d].local_head

SyncInv == RepoInv /\ SyncTypeOK /\ \A d \in Client : DeviceInv(d)

\* Every push ends and gives the lock back: nobody waits for ever.
PushEnds == \A d \in Client : pc[d] # "idle" ~> pc[d] = "idle"

(* What the repository's documents say and the code does not do. *)

\* "Permanently moves the oldest visible-history boundary": a version older
\* than the boundary is never listed again.
BoundaryIsPermanent ==
    floor # None => Visible(floor) \cap Ancestors(floor) \subseteq {floor}

\* "history is already truthful and the next retention pass can safely
\* finish": the walk list_history and prune_history make finds every commit.
HistoryIsReadable == Visible(floor) \subseteq present

\* "The user's own work is safe in Stash and reachable via stashed_snapshot".
StashIsReachable ==
    \A d \in Client : sidecar[d].stash # None => sidecar[d].stash \in present

\* "HEAD conflict: remote moved again while we were preparing; please retry":
\* a conflict means HEAD is no longer what this push saw when it started.
ConflictMeansMoved ==
    \A d \in Client :
        pc[d] = "advance" /\ HeadMoved(job[d].from) => head # job[d].seen
=============================================================================
