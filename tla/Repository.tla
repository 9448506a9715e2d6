---------------------------- MODULE Repository ----------------------------
(***************************************************************************)
(* The filesystem provider of crates/auru-pm: a "bare repo" folder that    *)
(* holds HEAD, HISTORY_FLOOR, an exclusive LOCK file and two content-      *)
(* addressed stores (objects/ and commits/), shared by the machines that   *)
(* back up one project.                                                    *)
(*                                                                         *)
(* put_blob and put_commit take no lock.  get_head, list_history and       *)
(* advance_head hold the lock for one short critical section, so each is   *)
(* one step here.  prune_history holds it while it deletes files one by    *)
(* one, beside the unlocked puts and reads of other machines, so it is a   *)
(* sequence of steps that a crash may cut anywhere.                        *)
(***************************************************************************)
EXTENDS Integers

CONSTANTS
    Client,      \* machines that use the repository
    CommitId,    \* commit hashes
    Snapshot,    \* project snapshot blobs
    Manifest,    \* sample manifest blobs
    Asset,       \* sample and resource blobs
    Info,        \* project summary blobs (commit.metadata)
    Entries,     \* Entries[m]: the assets manifest m lists; a hash fixes its bytes
    None,        \* Rust's None
    Roots,       \* the RetentionRoots callers may pass to prune_history
    Grace,       \* RETENTION_GC_GRACE_SECS, in ticks of the model's clock
    MaxTime,     \* bound on the clock
    MaxParents   \* 2 where pushes may merge, 1 to study linear histories

Blob == Snapshot \cup Manifest \cup Asset \cup Info
Object == Blob \cup CommitId

ASSUME EntriesAssumption == Entries \in [Manifest -> SUBSET Asset]
ASSUME RootsAssumption ==
    Roots \in SUBSET [commits : SUBSET CommitId, blobs : SUBSET Blob]
ASSUME HashAssumption == CommitId \cap Blob = {}
ASSUME BoundAssumption == /\ Grace \in Nat \ {0}
                          /\ MaxTime \in Nat
                          /\ MaxParents \in {1, 2}

\* Commit: what the canonical encoding of a commit names.  The author, the
\* message and the timestamp only make two hashes differ.
Commit == [parents  : UNION {[1..n -> CommitId] : n \in 0..MaxParents},
           snapshot : Snapshot,
           samples  : Manifest,
           metadata : Info \cup {None}]

ASSUME NoneAssumption == /\ None \notin Object \cup Client
                         /\ None \notin Commit

VARIABLES
    head,     \* the HEAD file
    floor,    \* the HISTORY_FLOOR file
    present,  \* files in objects/ and commits/
    mtime,    \* modification time of each file
    now,      \* the wall clock
    lock,     \* who holds the LOCK file between two steps
    gc,       \* the running retention pass: phase, kept objects, clock it read
    content,  \* the commit each hash is the hash of, once it exists
    acked     \* objects each client was told are stored, in its current push

repoVars == <<head, floor, present, mtime, now, lock, gc, content, acked>>

NoGc == [phase |-> "idle", marked |-> {}, at |-> 0]

-----------------------------------------------------------------------------
(* Commits and the graph they form. *)

Known == {c \in CommitId : content[c] # None}

ParentsOf(k) == {k.parents[i] : i \in DOMAIN k.parents}

FirstParentOf(k) == {k.parents[i] : i \in DOMAIN k.parents \cap {1}}

\* Tree: every blob needed to restore a commit.
Tree(k) == {k.snapshot, k.samples} \cup Entries[k.samples]
              \cup ({k.metadata} \ {None})

\* Edges to every parent, not followed out of the commits in stop.
Edges(stop) ==
    {e \in CommitId \X CommitId :
        /\ e[1] \in Known \ stop
        /\ e[2] \in ParentsOf(content[e[1]])}

\* Edges to the first parent only, the walk list_history makes.
FirstEdges(stop) ==
    {e \in CommitId \X CommitId :
        /\ e[1] \in Known \ stop
        /\ e[2] \in FirstParentOf(content[e[1]])}

\* Closed(S, E): no edge leads out of S.
Closed(S, E) == \A e \in E : e[1] \in S => e[2] \in S

\* Reach: the smallest closed set that contains roots.
Reach(roots, E) ==
    LET closed == {S \in SUBSET CommitId : roots \subseteq S /\ Closed(S, E)}
    IN  {c \in CommitId : \A S \in closed : c \in S}

\* Every ancestor of c, c included.
Ancestors(c) == Reach({c}, Edges({}))

\* visible_commits: the first-parent walk from HEAD down to boundary.
Visible(boundary) ==
    IF head = None THEN {} ELSE Reach({head}, FirstEdges({boundary}))

\* A commit whose file and whole tree are stored: it can be restored.
Whole(c) == c \in present \cap Known /\ Tree(content[c]) \subseteq present

-----------------------------------------------------------------------------
RepoInit ==
    /\ head = None
    /\ floor = None
    /\ present = {}
    /\ mtime = [o \in Object |-> 0]
    /\ now = 0
    /\ lock = None
    /\ gc = NoGc
    /\ content = [c \in CommitId |-> None]
    /\ acked = [c \in Client |-> {}]

\* Wrong variant: stamps a new file with a clock that runs ahead.
StoreAhead(o) ==
    /\ present' = present \cup {o}
    /\ mtime' = [mtime EXCEPT ![o] = now + 1]

\* Cas::put: a file that exists is left as it is, old modification time
\* included; otherwise it appears atomically.
Store(o) ==
    /\ present' = present \cup {o}
    /\ mtime' = IF o \in present THEN mtime ELSE [mtime EXCEPT ![o] = now]

Acknowledge(c, o) == acked' = [acked EXCEPT ![c] = @ \cup {o}]

\* put_blob.  No lock.
PutBlob(c, b) ==
    /\ Store(b)
    /\ Acknowledge(c, b)
    /\ UNCHANGED <<head, floor, now, lock, gc, content>>

\* get_blob that finds its file.  No lock.
GetBlob(c, b) ==
    /\ b \in present
    /\ Acknowledge(c, b)
    /\ UNCHANGED <<head, floor, present, mtime, now, lock, gc, content>>

\* put_commit: the id is the hash of k, so it names k and nothing else, now
\* and later; k can only name parents that were hashed before it.  No lock.
PutCommit(c, id, k) ==
    /\ content[id] \in {None, k}
    /\ ParentsOf(k) \subseteq Known
    /\ content' = [content EXCEPT ![id] = k]
    /\ Store(id)
    /\ Acknowledge(c, id)
    /\ UNCHANGED <<head, floor, now, lock, gc>>

\* Wrong variant: HEAD is overwritten without a comparison.
HeadOverwritten(from) == FALSE

\* advance_head, Conflict.
HeadMoved(from) == head # from

\* Wrong variant: HEAD moves without looking at the stored objects again.
TrustedForHead(to) == TRUE

\* advance_head, validate_commit_objects: only once a floor exists.
ValidForHead(to) == floor # None => Whole(to)

\* advance_head, Advanced.  A Conflict or an error changes nothing.
AdvanceHead(from, to) ==
    /\ lock = None
    /\ ~HeadMoved(from)
    /\ ValidForHead(to)
    /\ head' = to
    /\ UNCHANGED <<floor, present, mtime, now, lock, gc, content, acked>>

\* Wrong variant: only HEAD and the protected commits are kept.
HeadOnlyGraph(f, commits) == {head} \cup commits

\* retention_graph: all ancestors of the kept versions and of the protected
\* commits, not below the new floor.
RetentionGraph(f, commits) ==
    Reach(Visible(f) \cup commits, Edges({f}))

\* prune_history_with_grace up to and including write_history_floor.  The
\* rule keeps a non-empty prefix of the visible history whose last version
\* is f.  Any missing commit or manifest is an error before anything changes.
PruneBegin(c, f, protected) ==
    /\ lock = None
    /\ lock' = c
    /\ floor' = f
    /\ f \in Visible(floor)
    /\ Visible(floor) \subseteq present
    /\ LET graph == RetentionGraph(f, protected.commits)
       IN  /\ graph \subseteq present \cap Known
           /\ {content[g].samples : g \in graph} \subseteq present
           /\ gc' = [phase  |-> "blobs",
                     marked |-> graph \cup protected.blobs
                                  \cup UNION {Tree(content[g]) : g \in graph},
                     at     |-> now]
    /\ UNCHANGED <<head, present, mtime, now, content, acked>>

\* Wrong variant: collects by age alone.
OldEnough(o) == o \in present /\ gc.at - mtime[o] >= Grace

\* Cas::gc, one file: unreachable and past the grace period when gc began.
Collectable(o) ==
    /\ o \in present \ gc.marked
    /\ gc.at - mtime[o] >= Grace

GcRemove(o) ==
    /\ Collectable(o)
    /\ present' = present \ {o}
    /\ mtime' = [mtime EXCEPT ![o] = 0]
    /\ UNCHANGED <<head, floor, now, lock, gc, content, acked>>

GcBlob(b) == gc.phase = "blobs" /\ b \in Blob /\ GcRemove(b)

GcCommit(id) == gc.phase = "commits" /\ id \in CommitId /\ GcRemove(id)

\* From objects/ to commits/.  A file that cannot be removed is skipped, so
\* collectable files may remain.
GcCommits ==
    /\ gc.phase = "blobs"
    /\ gc' = [gc EXCEPT !.phase = "commits", !.at = now]
    /\ UNCHANGED <<head, floor, present, mtime, now, lock, content, acked>>

\* Wrong variant: an early return that leaves the LOCK file behind.
PruneEndLocked(c) ==
    /\ lock = c
    /\ gc' = NoGc
    /\ UNCHANGED <<head, floor, present, mtime, now, lock, content, acked>>

\* The pass returns, or fails or dies half way: the lock goes with it.
PruneEnd(c) ==
    /\ lock = c
    /\ lock' = None
    /\ gc' = NoGc
    /\ UNCHANGED <<head, floor, present, mtime, now, content, acked>>

\* Time passes.
Tick ==
    /\ now < MaxTime
    /\ now' = now + 1
    /\ UNCHANGED <<head, floor, present, mtime, lock, gc, content, acked>>

\* A client begins anew: what it was told before no longer counts.
Forget(c) ==
    /\ acked' = [acked EXCEPT ![c] = {}]
    /\ UNCHANGED <<head, floor, present, mtime, now, lock, gc, content>>

\* The contract of a client: it stores a commit after the commit's tree.
Submit(c, id, k) ==
    /\ Tree(k) \subseteq acked[c]
    /\ PutCommit(c, id, k)

\* The contract of a client: it moves HEAD only to a commit it was told is
\* stored together with its tree and whose parents include the HEAD it
\* replaces; the first commit of a project has no parents.
Publish(c, from, to) ==
    /\ to \in Known
    /\ {to} \cup Tree(content[to]) \subseteq acked[c]
    /\ IF from = None THEN ParentsOf(content[to]) = {}
                      ELSE from \in ParentsOf(content[to])
    /\ AdvanceHead(from, to)

RepoNext ==
    \/ \E c \in Client, b \in Blob : PutBlob(c, b) \/ GetBlob(c, b)
    \/ \E c \in Client, id \in CommitId, k \in Commit : Submit(c, id, k)
    \/ \E c \in Client, from \in CommitId \cup {None}, to \in CommitId :
          Publish(c, from, to)
    \/ /\ lock = None
       /\ \E f \in Visible(floor) :
             \E c \in Client, protected \in Roots : PruneBegin(c, f, protected)
    \/ \E b \in Blob : GcBlob(b)
    \/ \E id \in CommitId : GcCommit(id)
    \/ GcCommits
    \/ \E c \in Client : PruneEnd(c) \/ Forget(c)
    \/ Tick

RepoSpec == RepoInit /\ [][RepoNext]_repoVars

-----------------------------------------------------------------------------
(* Properties. *)

\* Every variable keeps the shape its file or value has in the code.
TypeOK ==
    /\ head \in CommitId \cup {None}
    /\ floor \in CommitId \cup {None}
    /\ present \in SUBSET Object
    /\ mtime \in [Object -> 0..MaxTime]
    /\ now \in 0..MaxTime
    /\ lock \in Client \cup {None}
    /\ gc \in [phase : {"idle", "blobs", "commits"},
              marked : SUBSET Object, at : 0..MaxTime]
    /\ content \in [CommitId -> Commit \cup {None}]
    /\ acked \in [Client -> SUBSET Object]

\* HEAD always names a version that can be restored completely, whatever
\* uploads, reused old blobs, retention passes and crashes interleave: what
\* the re-check inside advance_head and the order "floor before gc" are for.
HeadWhole == head # None => Whole(head)

\* The inductive strengthening of HeadWhole and KeptVersionsStay.
RepoInv ==
    /\ TypeOK
    /\ HeadWhole
    \* a hash is computed after the hashes it names
    /\ \A c \in Known : ParentsOf(content[c]) \subseteq Known
    /\ present \cap CommitId \subseteq Known
    \* only a retention pass holds the lock between steps, floor written first
    /\ lock = None <=> gc.phase = "idle"
    /\ gc.phase # "idle" => floor # None
    /\ floor # None => head # None
    \* until the first pass nothing was ever removed
    /\ floor = None => \A c \in Client : acked[c] \subseteq present
    \* a running pass has marked all it keeps
    /\ gc.phase # "idle" =>
          \A c \in Visible(floor) : {c} \cup Tree(content[c]) \subseteq gc.marked

\* Retention never damages a version it keeps: a visible version that can be
\* restored stays restorable through every step that leaves it visible.
KeptVersionsStay ==
    [][\A c \in Visible(floor) :
          (Whole(c) /\ c \in Visible(floor)') => Whole(c)']_repoVars

\* While no push merges, every version the history lists can be restored.
LinearHistoryWhole ==
    MaxParents = 1 => \A c \in Visible(floor) : Whole(c)

\* The repository keeps the promise of History.
Promise == INSTANCE History WITH
              line  <- IF head = None THEN {} ELSE Ancestors(head),
              whole <- {c \in CommitId : Whole(c)}

KeepsPromise == Promise!Spec
=============================================================================
