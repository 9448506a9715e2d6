------------------------------- MODULE Server -------------------------------
(***************************************************************************)
(* The HTTP server of crates/auru-pm-server/src/main.rs: one database in   *)
(* memory behind a mutex, its copy in state.json, and blob files.  A       *)
(* handler that changes the database changes a clone, writes the clone to  *)
(* disk and only then swaps it in; the mutex is held throughout.  The      *)
(* process may die between any two of these steps, a write may fail, and a *)
(* database from before projects had owners is migrated at start-up.       *)
(*                                                                         *)
(* Handlers that only read take the mutex, answer from the database and    *)
(* change nothing; Serves says what they can answer.  Profiles, timestamps *)
(* and the in-memory development mode are left out.                        *)
(***************************************************************************)
EXTENDS Integers

CONSTANTS
    Request,   \* requests in flight
    Owner,     \* authenticated principals
    Handle,    \* project handles, chosen by clients
    CommitId,  \* commit hashes
    Blob,      \* blob hashes
    Manifest,  \* the blobs that parse as a sample manifest
    Entries,   \* Entries[m]: the blobs that manifest m lists
    Content,   \* Content[c]: the commit that c is the hash of
    None       \* Rust's None

\* What the canonical encoding of a commit names.
Commit == [parents  : UNION {[1..n -> CommitId] : n \in 0..2},
           snapshot : Blob,
           samples  : Blob,
           metadata : Blob \cup {None}]

ASSUME ManifestAssumption ==
    Manifest \subseteq Blob /\ Entries \in [Manifest -> SUBSET Blob]
ASSUME ContentAssumption == Content \in [CommitId -> Commit]
ASSUME NoneAssumption == None \notin Owner \cup CommitId \cup Blob \cup Request

VARIABLES
    running,  \* whether the process runs
    live,     \* its database
    disk,     \* state.json
    files,    \* the blob files
    mutex,    \* the request that holds the database
    job,      \* per request: its staged clone and what it is about to do
    sent      \* history: per project, the objects its owner ever uploaded

serverVars == <<running, live, disk, files, mutex, job, sent>>

-----------------------------------------------------------------------------
(* Projects, commits and databases. *)

\* project_key: its length prefixes make it injective.  A project from before
\* ownership is stored under its bare handle.
Key == (Owner \cup {None}) \X Handle
Owned == Owner \X Handle

StoredProject == [head    : CommitId \cup {None},
                  floor   : CommitId \cup {None},
                  commits : SUBSET CommitId,   \* what the project may read
                  blobs   : SUBSET Blob]

NewProject == [head |-> None, floor |-> None, commits |-> {}, blobs |-> {}]

\* A key outside exists has no project; its record is then NewProject.
Db == [commits : SUBSET CommitId, exists : SUBSET Key,
       project : [Key -> StoredProject]]

EmptyDb == [commits |-> {}, exists |-> {}, project |-> [k \in Key |-> NewProject]]

NoJob == [phase |-> "idle", staged |-> EmptyDb]

Parents ==
    [c \in CommitId |-> {Content[c].parents[i] : i \in DOMAIN Content[c].parents}]

FirstParent ==
    [c \in CommitId |-> {Content[c].parents[i] : i \in DOMAIN Content[c].parents \cap {1}}]

\* The blobs a commit names itself.
Named(c) == {Content[c].snapshot, Content[c].samples, Content[c].metadata} \ {None}

\* The blobs that the manifests among blobs list.
Listed(blobs) == UNION {Entries[m] : m \in blobs \cap Manifest}

\* Every blob needed to restore a commit.
Tree(c) == Named(c) \cup Listed({Content[c].samples})

\* No snapshot or project summary parses as a manifest that lists more.
ASSUME SnapshotAssumption == \A c \in CommitId : Listed(Named(c)) \subseteq Tree(c)

\* The commits from c on that the walk along next finds, c included; it does
\* not go on from a commit outside through.
Walk(c, through, next) ==
    LET closed == {S \in SUBSET CommitId :
                      c \in S /\ \A x \in S \cap through : next[x] \subseteq S}
    IN  {x \in CommitId : \A S \in closed : x \in S}

\* What get_history and post_retention walk: first parents, down to the floor.
History(db, k) ==
    LET p == db.project[k]
    IN  IF p.head = None THEN {}
        ELSE Walk(p.head, (db.commits \cap p.commits) \ {p.floor}, FirstParent)
                \cap db.commits \cap p.commits

\* get_commit and get_blob give the owner of k the whole version c.
Serves(db, stored, k, c) ==
    /\ c \in db.commits \cap db.project[k].commits
    /\ Tree(c) \subseteq db.project[k].blobs \cap stored

-----------------------------------------------------------------------------
(* Start-up and crashes. *)

\* The commits a project from before ownership with HEAD c consists of.
Line(c) == Walk(c, CommitId, Parents)

\* A database from before ownership: one store of commits, and projects without
\* sets of their own.
Legacy(h, c, stored) ==
    [commits |-> stored,
     exists  |-> {<<None, h>>},
     project |-> [k \in Key |->
                    IF k = <<None, h>>
                    THEN [head |-> c, floor |-> None, commits |-> {}, blobs |-> {}]
                    ELSE NewProject]]

ServerInit ==
    /\ running = FALSE
    /\ live = EmptyDb
    /\ mutex = None
    /\ job = [r \in Request |-> NoJob]
    /\ \/ /\ disk = EmptyDb
          /\ files = {}
          /\ sent = [k \in Key |-> {}]
       \/ \E h \in Handle, c \in CommitId, stored \in SUBSET CommitId :
             /\ Line(c) \subseteq stored
             /\ disk = Legacy(h, c, stored)
             /\ files = UNION {Tree(x) : x \in stored}
             /\ sent = [k \in Key |->
                          IF k = <<None, h>>
                          THEN Line(c) \cup UNION {Tree(x) : x \in Line(c)} ELSE {}]

\* Wrong variant: a migrated project may read every commit of the server.
EntitledToAll(db, p) ==
    [p EXCEPT !.commits = db.commits,
              !.blobs = UNION {Tree(c) : c \in db.commits}]

\* collect_legacy_entitlements: all ancestors of HEAD, the blobs they name, and
\* what those of these blobs that are manifests list.
Entitled(db, p) ==
    LET line  == IF p.head = None THEN {} ELSE Walk(p.head, db.commits, Parents)
        named == UNION {Named(c) : c \in line \cap db.commits}
    IN  [head    |-> p.head,
         floor   |-> p.floor,
         commits |-> p.commits \cup line,
         blobs   |-> p.blobs \cup named \cup Listed(named \cap files)]

LegacyKeys(db) == {k \in db.exists : k[1] = None}

\* prepare_ownership: the configured owner claims every project without one.
Claimed(db, owner) ==
    [commits |-> db.commits,
     exists  |-> (db.exists \ LegacyKeys(db))
                    \cup {<<owner, k[2]>> : k \in LegacyKeys(db)},
     project |-> [k \in Key |->
                    IF k \in LegacyKeys(db) THEN NewProject
                    ELSE IF k[1] = owner /\ <<None, k[2]>> \in LegacyKeys(db)
                    THEN Entitled(db, db.project[<<None, k[2]>>])
                    ELSE db.project[k]]]

\* Db::open and prepare_ownership.  Without a legacy project nothing is
\* written; with one, the server refuses to start unless an owner is configured
\* that has no project of that handle, and the migrated state is saved first.
Start(owner) ==
    /\ ~running
    /\ running' = TRUE
    /\ \A k \in LegacyKeys(disk) : <<owner, k[2]>> \notin disk.exists
    /\ disk' = Claimed(disk, owner)
    /\ live' = disk'
    /\ sent' = [k \in Key |->
                  IF k[1] = owner /\ <<None, k[2]>> \in LegacyKeys(disk)
                  THEN sent[k] \cup sent[<<None, k[2]>>] ELSE sent[k]]
    /\ UNCHANGED <<files, mutex, job>>

\* The process dies: memory, the mutex and the open requests are gone.
Crash ==
    /\ running
    /\ running' = FALSE
    /\ live' = EmptyDb
    /\ mutex' = None
    /\ job' = [r \in Request |-> NoJob]
    /\ UNCHANGED <<disk, files, sent>>

-----------------------------------------------------------------------------
(* Handlers. *)

\* Wrong variant: the handler does not wait for the mutex.
NoMutex(r) == running /\ job[r].phase = "idle" /\ mutex' = r

\* db.lock()
TakeMutex(r) == running /\ job[r].phase = "idle" /\ mutex = None /\ mutex' = r

\* mutate_persisted, first half: a changed clone.
Stage(r, db) ==
    /\ job' = [job EXCEPT ![r] = [phase |-> "persist", staged |-> db]]
    /\ UNCHANGED <<running, live, disk>>

\* put_project_profile: creates the project if there is none.
PutProjectProfile(r, k) ==
    /\ TakeMutex(r)
    /\ Stage(r, [live EXCEPT !.exists = @ \cup {k}])
    /\ UNCHANGED <<files, sent>>

\* put_blob: the file first, then the project's right to it.  A request cut
\* off in between leaves a file that no project may read.
PutBlob(r, k, b) ==
    /\ TakeMutex(r)
    /\ k \in live.exists
    /\ files' = files \cup {b}
    /\ sent' = [sent EXCEPT ![k] = @ \cup {b}]
    /\ Stage(r, [live EXCEPT !.project[k].blobs = @ \cup {b}])

\* Wrong variant: looks for the blobs in the shared store only.
AcceptsStored(p, c) ==
    /\ Parents[c] \subseteq p.commits
    /\ Tree(c) \subseteq files

\* post_commit: the parents, the named blobs and the manifest's entries belong
\* to this project, and the manifest can be read.
Accepts(p, c) ==
    /\ Parents[c] \subseteq p.commits
    /\ Named(c) \subseteq p.blobs
    /\ Content[c].samples \in files \cap Manifest
    /\ Entries[Content[c].samples] \subseteq p.blobs

\* post_commit.
PostCommit(r, k, c) ==
    /\ TakeMutex(r)
    /\ k \in live.exists
    /\ Accepts(live.project[k], c)
    /\ sent' = [sent EXCEPT ![k] = @ \cup {c}]
    /\ Stage(r, [live EXCEPT !.commits = @ \cup {c},
                                   !.project[k].commits = @ \cup {c}])
    /\ UNCHANGED files

\* post_head: the target belongs to this project.
BelongsTo(p, to) == to \in p.commits

\* post_head.  A conflict changes nothing.
PostHead(r, k, from, to) ==
    /\ TakeMutex(r)
    /\ k \in live.exists
    /\ live.project[k].head = from
    /\ BelongsTo(live.project[k], to)
    /\ Stage(r, [live EXCEPT !.project[k].head = to])
    /\ UNCHANGED <<files, sent>>

\* post_retention: the rule keeps a non-empty prefix of the history that ends
\* with f.  The blobs and commits behind it stay stored.
PostRetention(r, k, f) ==
    /\ TakeMutex(r)
    /\ k \in live.exists
    /\ f \in History(live, k)
    /\ Stage(r, [live EXCEPT !.project[k].floor = f])
    /\ UNCHANGED <<files, sent>>

\* persist writes the clone ...
Persist(r) ==
    /\ job[r].phase = "persist"
    /\ disk' = job[r].staged
    /\ job' = [job EXCEPT ![r].phase = "swap"]
    /\ UNCHANGED <<running, live, files, mutex, sent>>

\* Wrong variant: the clone is swapped in although it was not written.
KeepStaged(r) ==
    /\ job[r].phase = "persist"
    /\ live' = job[r].staged
    /\ job' = [job EXCEPT ![r] = NoJob]
    /\ mutex' = None
    /\ UNCHANGED <<running, disk, files, sent>>

\* ... or fails: 500, and the clone is dropped.
PersistFails(r) ==
    /\ job[r].phase = "persist"
    /\ job' = [job EXCEPT ![r] = NoJob]
    /\ mutex' = None
    /\ UNCHANGED <<running, live, disk, files, sent>>

\* The clone becomes the database and the request is answered OK.
Swap(r) ==
    /\ job[r].phase = "swap"
    /\ live' = job[r].staged
    /\ job' = [job EXCEPT ![r] = NoJob]
    /\ mutex' = None
    /\ UNCHANGED <<running, disk, files, sent>>

ServerNext ==
    \/ \E r \in Request, k \in Owned :
          \/ PutProjectProfile(r, k)
          \/ \E b \in Blob : PutBlob(r, k, b)
          \/ \E c \in CommitId : PostCommit(r, k, c)
          \/ \E from \in CommitId \cup {None}, to \in CommitId : PostHead(r, k, from, to)
          \/ \E f \in CommitId : PostRetention(r, k, f)
    \/ \E r \in Request : Persist(r) \/ PersistFails(r) \/ Swap(r)
    \/ \E owner \in Owner : Start(owner)
    \/ Crash

ServerSpec == ServerInit /\ [][ServerNext]_serverVars

-----------------------------------------------------------------------------
(* Properties. *)

\* The shapes of the databases, the files and the requests.
ServerTypeOK ==
    /\ running \in BOOLEAN
    /\ {live, disk} \subseteq Db
    /\ files \in SUBSET Blob
    /\ mutex \in Request \cup {None}
    /\ job \in [Request -> [phase : {"idle", "persist", "swap"}, staged : Db]]
    /\ sent \in [Key -> SUBSET (CommitId \cup Blob)]

\* What a reader is shown while no request holds the database is what a restart
\* would load, failed writes included: nobody acts on state that a crash undoes.
LiveIsDurable == running /\ mutex = None => live = disk

\* What a project was once served, every upload answered OK included, a restart
\* at any later moment finds: no request, failed write or crash takes it away.
ServedIsKept ==
    [][running => \A k \in Owned :
          /\ live.project[k].commits \subseteq disk'.project[k].commits
          /\ live.project[k].blobs \cap files \subseteq disk'.project[k].blobs \cap files']_serverVars

\* Every commit a project may read can be restored completely by its owner, HEAD
\* above all, although blobs are shared by all projects and rights are not.
CommitsAreServed ==
    \A k \in Owned :
        /\ \A c \in disk.project[k].commits : Serves(disk, files, k, c)
        /\ disk.project[k].head \in disk.project[k].commits \cup {None}

\* A project reads nothing but what its owner uploaded or claimed.
OnlyOwnUploads ==
    \A k \in Key : disk.project[k].commits \cup disk.project[k].blobs \subseteq sent[k]

\* The inductive strengthening of the four properties above.

\* A project of a database whose owner can read all it lists.
ProjectInv(db, stored, uploads, k) ==
    /\ db.project[k].blobs \subseteq stored
    /\ \A c \in db.project[k].commits : Serves(db, stored, k, c)
    /\ db.project[k].head \in db.project[k].commits \cup {None}
    /\ db.project[k].commits \cup db.project[k].blobs \subseteq uploads[k]

\* A project without an owner: its line is stored, and waits to be claimed.
LegacyInv(db, stored, uploads, k) ==
    /\ db.project[k].commits = {} /\ db.project[k].blobs = {}
    /\ db.project[k].head # None =>
          /\ Line(db.project[k].head) \subseteq db.commits \cap uploads[k]
          /\ \A c \in Line(db.project[k].head) : Tree(c) \subseteq stored \cap uploads[k]

DbInv(db, stored, uploads) ==
    /\ \A k \in Owned : ProjectInv(db, stored, uploads, k)
    /\ \A k \in Key \ Owned : LegacyInv(db, stored, uploads, k)

\* A staged clone keeps all that its database has.
Grows(db, staged) ==
    \A k \in Owned : /\ db.project[k].commits \subseteq staged.project[k].commits
                     /\ db.project[k].blobs \subseteq staged.project[k].blobs

ServerInv ==
    /\ ServerTypeOK
    /\ DbInv(disk, files, sent)
    /\ ~running => mutex = None
    /\ \A r \in Request : job[r].phase # "idle" <=> mutex = r
    \* the holder of the mutex has a clone of the database, written or not
    /\ \A r \in Request : job[r].phase = "persist" =>
          live = disk /\ DbInv(job[r].staged, files, sent) /\ Grows(disk, job[r].staged)
    /\ \A r \in Request : job[r].phase = "swap" =>
          disk = job[r].staged /\ Grows(live, disk)
    /\ LiveIsDurable
=============================================================================
