--------------------------- MODULE ServerProofs ---------------------------
(***************************************************************************)
(* Proofs about Server, for any requests, owners, handles, commits, blobs. *)
(***************************************************************************)
EXTENDS Server, TLAPS

-----------------------------------------------------------------------------
(* Commits and walks. *)

\* The blobs of a commit are blobs.
LEMMA TreeType ==
    ASSUME NEW c \in CommitId
    PROVE  Named(c) \in SUBSET Blob /\ Tree(c) \in SUBSET Blob
BY ContentAssumption, ManifestAssumption DEF Named, Tree, Listed, Commit

\* Listed is monotone and lists blobs.
LEMMA ListedType ==
    ASSUME NEW S, NEW T, S \subseteq T
    PROVE  Listed(S) \subseteq Listed(T) /\ Listed(T) \in SUBSET Blob
BY ManifestAssumption DEF Listed

\* The walk of collect_legacy_entitlements starts at HEAD and, because it stops
\* at commits that are not stored, finds at most HEAD's whole line.
LEMMA WalkInLine ==
    ASSUME NEW c \in CommitId, NEW through \in SUBSET CommitId
    PROVE  /\ c \in Walk(c, through, Parents)
           /\ Walk(c, through, Parents) \subseteq Line(c)
           /\ Line(c) \in SUBSET CommitId
<1>1. ASSUME NEW S \in SUBSET CommitId,
             c \in S /\ \A x \in S \cap CommitId : Parents[x] \subseteq S
      PROVE  \A x \in S \cap through : Parents[x] \subseteq S
  BY <1>1
<1>2. Walk(c, through, Parents) \subseteq Line(c)
  BY <1>1 DEF Walk, Line
<1> QED BY <1>2 DEF Walk, Line

\* Owned keys are the keys with an owner.
LEMMA KeyOwned ==
    /\ Owned \subseteq Key
    /\ \A k \in Key : k \in Owned <=> k[1] # None
    /\ \A o \in Owner, h \in Handle : <<o, h>> \in Owned
    /\ \A k \in Key : k = <<k[1], k[2]>> /\ k[2] \in Handle
    /\ \A k \in Owned : k[1] \in Owner
BY NoneAssumption DEF Key, Owned

\* The empty database is a database.
LEMMA EmptyType == EmptyDb \in Db /\ NewProject \in StoredProject
BY DEF EmptyDb, Db, NewProject, StoredProject

-----------------------------------------------------------------------------
(* Types. *)

\* What a migrated project may read is typed.
LEMMA EntitledType ==
    ASSUME NEW db \in Db, NEW p \in StoredProject, files \in SUBSET Blob
    PROVE  Entitled(db, p) \in StoredProject
<1> DEFINE line == IF p.head = None THEN {} ELSE Walk(p.head, db.commits, Parents)
           named == UNION {Named(c) : c \in line \cap db.commits}
<1>1. line \in SUBSET CommitId
  BY DEF Walk
<1>2. named \in SUBSET Blob
  BY <1>1, TreeType
<1>3. Listed(named \cap files) \in SUBSET Blob
  BY ListedType
<1>4. Entitled(db, p) = [head |-> p.head, floor |-> p.floor,
                         commits |-> p.commits \cup line,
                         blobs |-> p.blobs \cup named \cup Listed(named \cap files)]
  BY DEF Entitled
<1> HIDE DEF line, named
<1> QED BY <1>1, <1>2, <1>3, <1>4 DEF StoredProject

\* A claimed database is typed.
LEMMA ClaimedType ==
    ASSUME NEW db \in Db, NEW owner \in Owner, files \in SUBSET Blob
    PROVE  Claimed(db, owner) \in Db
<1>1. {<<owner, k[2]>> : k \in LegacyKeys(db)} \subseteq Key
  BY KeyOwned DEF LegacyKeys, Db, Key
<1>2. \A k \in Key : db.project[k] \in StoredProject
  BY DEF Db
<1>3. \A k \in Key : <<None, k[2]>> \in LegacyKeys(db) => <<None, k[2]>> \in Key
  BY DEF LegacyKeys, Db
<1>4. \A k \in Key : Claimed(db, owner).project[k] \in StoredProject
  BY <1>2, <1>3, EntitledType, EmptyType DEF Claimed
<1>5. Claimed(db, owner).project = [k \in Key |-> Claimed(db, owner).project[k]]
  BY DEF Claimed
<1>6. Claimed(db, owner).exists \in SUBSET Key /\ Claimed(db, owner).commits \in SUBSET CommitId
  BY <1>1 DEF Claimed, Db
<1> HIDE DEF Claimed
<1>7. Claimed(db, owner).project \in [Key -> StoredProject]
  BY <1>4, <1>5
<1> QED BY <1>6, <1>7 DEF Db, Claimed

-----------------------------------------------------------------------------
(* What the handlers stage.  The invariant of a database, its files and the  *)
(* uploads survives each of them.                                            *)

\* More files and more uploads hurt no database.
LEMMA DbMonotone ==
    ASSUME NEW db \in Db, NEW f, NEW s, NEW g, NEW t,
           DbInv(db, f, s), f \subseteq g, \A k \in Key : s[k] \subseteq t[k]
    PROVE  DbInv(db, g, t)
<1>1. ASSUME NEW k \in Owned PROVE ProjectInv(db, g, t, k)
  BY <1>1, KeyOwned DEF DbInv, ProjectInv, Serves
<1>2. ASSUME NEW k \in Key \ Owned PROVE LegacyInv(db, g, t, k)
  BY <1>2 DEF DbInv, LegacyInv
<1> QED BY <1>1, <1>2 DEF DbInv

\* A changed project of an owner leaves the other projects' part as it was.
LEMMA DbUpdate ==
    ASSUME NEW db \in Db, NEW f, NEW s, DbInv(db, f, s),
           NEW new \in Db, NEW key \in Owned,
           db.commits \subseteq new.commits,
           \A k \in Key \ {key} : new.project[k] = db.project[k],
           ProjectInv(new, f, s, key)
    PROVE  DbInv(new, f, s)
<1>1. ASSUME NEW k \in Owned, k # key PROVE ProjectInv(new, f, s, k)
  BY <1>1, KeyOwned DEF DbInv, ProjectInv, Serves
<1>2. ASSUME NEW k \in Key \ Owned PROVE LegacyInv(new, f, s, k)
  <2>1. new.project[k] = db.project[k]
    BY <1>2
  <2> QED BY <2>1, <1>2 DEF DbInv, LegacyInv
<1> QED BY <1>1, <1>2 DEF DbInv

\* put_project_profile.
LEMMA ProfileStaged ==
    ASSUME NEW db \in Db, NEW f, NEW s, DbInv(db, f, s), NEW key \in Owned
    PROVE  LET new == [db EXCEPT !.exists = @ \cup {key}]
           IN  new \in Db /\ DbInv(new, f, s) /\ Grows(db, new)
<1> DEFINE new == [db EXCEPT !.exists = @ \cup {key}]
<1>1. new \in Db /\ new.commits = db.commits /\ new.project = db.project
  BY KeyOwned DEF Db
<1> HIDE DEF new
<1>2. ProjectInv(new, f, s, key)
  BY <1>1 DEF DbInv, ProjectInv, Serves
<1>3. DbInv(new, f, s)
  BY <1>1, <1>2, DbUpdate
<1>4. Grows(db, new)
  BY <1>1 DEF Grows
<1> QED BY <1>1, <1>3, <1>4 DEF new

\* put_blob, after its file is written.
LEMMA BlobStaged ==
    ASSUME NEW db \in Db, NEW f, NEW s, DbInv(db, f, s), NEW key \in Owned,
           NEW b \in Blob, b \in f, b \in s[key]
    PROVE  LET new == [db EXCEPT !.project[key].blobs = @ \cup {b}]
           IN  new \in Db /\ DbInv(new, f, s) /\ Grows(db, new)
<1> DEFINE new == [db EXCEPT !.project[key].blobs = @ \cup {b}]
<1>0. key \in Key /\ db.project[key] \in StoredProject
  BY KeyOwned DEF Db
<1>1. /\ new \in Db /\ new.commits = db.commits
      /\ \A k \in Key \ {key} : new.project[k] = db.project[k]
      /\ new.project[key].commits = db.project[key].commits
      /\ new.project[key].head = db.project[key].head
      /\ new.project[key].blobs = db.project[key].blobs \cup {b}
  BY <1>0 DEF Db, StoredProject
<1> HIDE DEF new
<1>2. ProjectInv(new, f, s, key)
  BY <1>1 DEF DbInv, ProjectInv, Serves
<1>3. DbInv(new, f, s)
  BY <1>1, <1>2, DbUpdate
<1>4. Grows(db, new)
  BY <1>1, KeyOwned DEF Grows
<1> QED BY <1>1, <1>3, <1>4 DEF new

\* post_commit: what Accepts checks makes the commit complete for its project.
LEMMA CommitStaged ==
    ASSUME NEW db \in Db, NEW s, DbInv(db, files, s), NEW key \in Owned,
           NEW c \in CommitId, Accepts(db.project[key], c), c \in s[key]
    PROVE  LET new == [db EXCEPT !.commits = @ \cup {c},
                                 !.project[key].commits = @ \cup {c}]
           IN  new \in Db /\ DbInv(new, files, s) /\ Grows(db, new)
<1> DEFINE new == [db EXCEPT !.commits = @ \cup {c}, !.project[key].commits = @ \cup {c}]
<1>0. key \in Key /\ db.project[key] \in StoredProject
  BY KeyOwned DEF Db
<1>1. /\ new \in Db /\ new.commits = db.commits \cup {c}
      /\ \A k \in Key \ {key} : new.project[k] = db.project[k]
      /\ new.project[key].commits = db.project[key].commits \cup {c}
      /\ new.project[key].head = db.project[key].head
      /\ new.project[key].blobs = db.project[key].blobs
  BY <1>0 DEF Db, StoredProject
<1> HIDE DEF new
<1>2. Tree(c) \subseteq db.project[key].blobs
  BY DEF Accepts, Tree, Listed
<1>3. ProjectInv(new, files, s, key)
  BY <1>1, <1>2 DEF DbInv, ProjectInv, Serves
<1>4. DbInv(new, files, s)
  BY <1>1, <1>3, DbUpdate
<1>5. Grows(db, new)
  BY <1>1, KeyOwned DEF Grows
<1> QED BY <1>1, <1>4, <1>5 DEF new

\* post_head.
LEMMA HeadStaged ==
    ASSUME NEW db \in Db, NEW f, NEW s, DbInv(db, f, s), NEW key \in Owned,
           NEW to \in CommitId, BelongsTo(db.project[key], to)
    PROVE  LET new == [db EXCEPT !.project[key].head = to]
           IN  new \in Db /\ DbInv(new, f, s) /\ Grows(db, new)
<1> DEFINE new == [db EXCEPT !.project[key].head = to]
<1>0. key \in Key /\ db.project[key] \in StoredProject
  BY KeyOwned DEF Db
<1>1. /\ new \in Db /\ new.commits = db.commits
      /\ \A k \in Key \ {key} : new.project[k] = db.project[k]
      /\ new.project[key].commits = db.project[key].commits
      /\ new.project[key].head = to
      /\ new.project[key].blobs = db.project[key].blobs
  BY <1>0 DEF Db, StoredProject
<1> HIDE DEF new
<1>2. ProjectInv(new, f, s, key)
  BY <1>1 DEF DbInv, ProjectInv, Serves, BelongsTo
<1>3. DbInv(new, f, s)
  BY <1>1, <1>2, DbUpdate
<1>4. Grows(db, new)
  BY <1>1, KeyOwned DEF Grows
<1> QED BY <1>1, <1>3, <1>4 DEF new

\* post_retention.
LEMMA FloorStaged ==
    ASSUME NEW db \in Db, NEW f, NEW s, DbInv(db, f, s), NEW key \in Owned,
           NEW c \in CommitId
    PROVE  LET new == [db EXCEPT !.project[key].floor = c]
           IN  new \in Db /\ DbInv(new, f, s) /\ Grows(db, new)
<1> DEFINE new == [db EXCEPT !.project[key].floor = c]
<1>0. key \in Key /\ db.project[key] \in StoredProject
  BY KeyOwned DEF Db
<1>1. /\ new \in Db /\ new.commits = db.commits
      /\ \A k \in Key \ {key} : new.project[k] = db.project[k]
      /\ new.project[key].commits = db.project[key].commits
      /\ new.project[key].head = db.project[key].head
      /\ new.project[key].blobs = db.project[key].blobs
  BY <1>0 DEF Db, StoredProject
<1> HIDE DEF new
<1>2. ProjectInv(new, f, s, key)
  BY <1>1 DEF DbInv, ProjectInv, Serves
<1>3. DbInv(new, f, s)
  BY <1>1, <1>2, DbUpdate
<1>4. Grows(db, new)
  BY <1>1, KeyOwned DEF Grows
<1> QED BY <1>1, <1>3, <1>4 DEF new

\* prepare_ownership: the owner of a claimed project can read its whole line.
LEMMA Claims ==
    ASSUME NEW db \in Db, NEW s, DbInv(db, files, s), files \in SUBSET Blob,
           NEW owner \in Owner, NEW t,
           \A k \in Key : s[k] \subseteq t[k],
           \A k \in Key : k[1] = owner /\ <<None, k[2]>> \in LegacyKeys(db) =>
                             s[<<None, k[2]>>] \subseteq t[k]
    PROVE  DbInv(Claimed(db, owner), files, t)
<1> DEFINE new == Claimed(db, owner)
<1>1. ASSUME NEW k \in Owned, k[1] = owner, <<None, k[2]>> \in LegacyKeys(db)
      PROVE  ProjectInv(new, files, t, k)
  <2> DEFINE p == db.project[<<None, k[2]>>]
             line == IF p.head = None THEN {} ELSE Walk(p.head, db.commits, Parents)
             named == UNION {Named(c) : c \in line \cap db.commits}
  <2>1. <<None, k[2]>> \in Key \ Owned /\ k \in Key
    BY <1>1, KeyOwned, NoneAssumption DEF LegacyKeys, Db, Owned
  <2>2. LegacyInv(db, files, s, <<None, k[2]>>) /\ p \in StoredProject
    BY <2>1 DEF DbInv, Db
  <2>3. k \notin LegacyKeys(db)
    BY <1>1, KeyOwned DEF LegacyKeys
  <2>4. new.project[k] = Entitled(db, p) /\ new.commits = db.commits
    BY <1>1, <2>1, <2>3 DEF Claimed
  <2>5. /\ Entitled(db, p).commits = line
        /\ Entitled(db, p).blobs = named \cup Listed(named \cap files)
        /\ Entitled(db, p).head = p.head
    BY <2>2 DEF Entitled, LegacyInv
  <2>6. p.head # None => p.head \in CommitId
    BY <2>2 DEF StoredProject
  <2>7. /\ p.head # None => p.head \in line
        /\ line \subseteq db.commits \cap s[<<None, k[2]>>]
        /\ \A c \in line : c \in CommitId /\ Tree(c) \subseteq files \cap s[<<None, k[2]>>]
    <3>1. CASE p.head = None
      BY <3>1
    <3>2. CASE p.head # None
      <4>1. db.commits \in SUBSET CommitId
        BY DEF Db
      <4>2. /\ p.head \in line /\ line \subseteq Line(p.head)
            /\ Line(p.head) \in SUBSET CommitId
        BY <3>2, <4>1, <2>6, WalkInLine
      <4> QED BY <3>2, <4>2, <2>2 DEF LegacyInv
    <3> QED BY <3>1, <3>2
  <2> HIDE DEF line
  <2>8. named \subseteq files \cap s[<<None, k[2]>>]
    BY <2>7 DEF Tree
  <2>9. Listed(named \cap files) \subseteq files \cap s[<<None, k[2]>>]
    <3> SUFFICES ASSUME NEW b \in Listed(named \cap files)
                 PROVE  b \in files \cap s[<<None, k[2]>>]
      OBVIOUS
    <3>1. PICK m \in named \cap Manifest : b \in Entries[m]
      BY DEF Listed
    <3>2. PICK c \in line : m \in Named(c)
      BY <3>1
    <3>3. b \in Listed(Named(c))
      BY <3>1, <3>2 DEF Listed
    <3> QED BY <3>3, <2>7, SnapshotAssumption
  <2>10. ASSUME NEW c \in line PROVE Tree(c) \subseteq named \cup Listed(named \cap files)
    <3>1. Named(c) \subseteq named
      BY <2>7
    <3>2. Content[c].samples \in Named(c)
      BY <2>7, ContentAssumption, NoneAssumption DEF Named, Commit
    <3>3. {Content[c].samples} \subseteq named \cap files
      BY <3>1, <3>2, <2>8
    <3>4. Listed({Content[c].samples}) \subseteq Listed(named \cap files)
      BY <3>3, ListedType
    <3> QED BY <3>1, <3>4 DEF Tree
  <2>11. s[<<None, k[2]>>] \subseteq t[k]
    BY <1>1, <2>1
  <2> HIDE DEF named, new
  <2> QED BY <2>4, <2>5, <2>7, <2>8, <2>9, <2>10, <2>11 DEF ProjectInv, Serves
<1>2. ASSUME NEW k \in Owned, ~(k[1] = owner /\ <<None, k[2]>> \in LegacyKeys(db))
      PROVE  ProjectInv(new, files, t, k)
  <2>1. k \in Key /\ k \notin LegacyKeys(db)
    BY KeyOwned DEF LegacyKeys
  <2>2. new.project[k] = db.project[k] /\ new.commits = db.commits
    BY <1>2, <2>1 DEF Claimed
  <2> HIDE DEF new
  <2> QED BY <2>1, <2>2 DEF DbInv, ProjectInv, Serves
<1>3. ASSUME NEW k \in Key \ Owned PROVE LegacyInv(new, files, t, k)
  <2>1. k[1] # owner
    BY <1>3, KeyOwned, NoneAssumption
  <2>2. new.project[k] \in {NewProject, db.project[k]} /\ new.commits = db.commits
    BY <2>1 DEF Claimed
  <2> HIDE DEF new
  <2> QED BY <2>2, <1>3 DEF DbInv, LegacyInv, NewProject
<1> QED BY <1>1, <1>2, <1>3 DEF DbInv

-----------------------------------------------------------------------------
(* The invariant. *)

\* The server starts with an empty or a legacy database.
LEMMA ServerStart == ServerInit => ServerInv
<1> SUFFICES ASSUME ServerInit PROVE ServerInv
  OBVIOUS
<1>1. /\ running = FALSE /\ live = EmptyDb /\ mutex = None
      /\ job = [r \in Request |-> NoJob]
  BY DEF ServerInit
<1>2. job \in [Request -> [phase : {"idle", "persist", "swap"}, staged : Db]]
  BY <1>1, EmptyType DEF NoJob
<1>3. \A r \in Request : job[r].phase = "idle" /\ mutex # r
  BY <1>1, NoneAssumption DEF NoJob
<1>4. /\ disk \in Db /\ files \in SUBSET Blob
      /\ sent \in [Key -> SUBSET (CommitId \cup Blob)]
      /\ DbInv(disk, files, sent)
  <2>1. CASE disk = EmptyDb /\ files = {} /\ sent = [k \in Key |-> {}]
    <3>1. \A k \in Key : disk.project[k] = NewProject
      BY <2>1 DEF EmptyDb
    <3>2. DbInv(disk, files, sent)
      BY <3>1, KeyOwned DEF DbInv, ProjectInv, LegacyInv, NewProject
    <3> QED BY <2>1, <3>2, EmptyType
  <2>2. ASSUME NEW h \in Handle, NEW c \in CommitId, NEW stored \in SUBSET CommitId,
               Line(c) \subseteq stored, disk = Legacy(h, c, stored),
               files = UNION {Tree(x) : x \in stored},
               sent = [k \in Key |-> IF k = <<None, h>>
                                    THEN Line(c) \cup UNION {Tree(x) : x \in Line(c)}
                                    ELSE {}]
        PROVE  /\ disk \in Db /\ files \in SUBSET Blob
               /\ sent \in [Key -> SUBSET (CommitId \cup Blob)]
               /\ DbInv(disk, files, sent)
    <3>0. <<None, h>> \in Key \ Owned
      BY NoneAssumption DEF Key, Owned
    <3>1. /\ disk.commits = stored
          /\ disk.exists = {<<None, h>>}
          /\ disk.project = [k \in Key |->
                IF k = <<None, h>> THEN [head |-> c, floor |-> None, commits |-> {}, blobs |-> {}]
                ELSE NewProject]
          /\ disk = [commits |-> disk.commits, exists |-> disk.exists, project |-> disk.project]
      BY <2>2 DEF Legacy
    <3>2. disk.project \in [Key -> StoredProject]
      BY <3>1, EmptyType DEF StoredProject
    <3>3. disk \in Db
      BY <3>0, <3>1, <3>2 DEF Db
    <3>4. files \in SUBSET Blob
      BY <2>2, TreeType
    <3>5. UNION {Tree(x) : x \in Line(c)} \in SUBSET Blob
      BY <2>2, TreeType
    <3>6. sent \in [Key -> SUBSET (CommitId \cup Blob)]
      BY <2>2, <3>5
    <3>7. ASSUME NEW k \in Owned PROVE ProjectInv(disk, files, sent, k)
      <4>1. disk.project[k] = NewProject
        BY <3>0, <3>1, KeyOwned
      <4> QED BY <4>1 DEF ProjectInv, NewProject
    <3>8. ASSUME NEW k \in Key \ Owned PROVE LegacyInv(disk, files, sent, k)
      <4>1. CASE k = <<None, h>>
        <5>1. /\ disk.project[k] = [head |-> c, floor |-> None, commits |-> {}, blobs |-> {}]
              /\ sent[k] = Line(c) \cup UNION {Tree(x) : x \in Line(c)}
          BY <4>1, <3>1, <2>2
        <5>2. \A x \in Line(c) : Tree(x) \subseteq files
          BY <2>2
        <5> QED BY <5>1, <5>2, <3>1, <2>2 DEF LegacyInv
      <4>2. CASE k # <<None, h>>
        <5>1. disk.project[k] = NewProject
          BY <4>2, <3>1
        <5> QED BY <5>1 DEF LegacyInv, NewProject
      <4> QED BY <4>1, <4>2
    <3> QED BY <3>3, <3>4, <3>6, <3>7, <3>8 DEF DbInv
  <2> QED BY <2>1, <2>2 DEF ServerInit
<1> QED BY <1>1, <1>2, <1>3, <1>4, EmptyType DEF ServerInv, ServerTypeOK, LiveIsDurable

\* Taking the mutex and staging a good clone keeps the invariant: the shape of
\* every handler that changes the database.
LEMMA Staging ==
    ASSUME ServerInv, NEW r \in Request, NEW db \in Db,
           TakeMutex(r), Stage(r, db),
           files' \in SUBSET Blob, files \subseteq files',
           sent' \in [Key -> SUBSET (CommitId \cup Blob)],
           \A k \in Key : sent[k] \subseteq sent'[k],
           DbInv(db, files', sent'), Grows(live, db)
    PROVE  ServerInv'
<1>1. /\ running /\ running' /\ live = disk /\ live' = disk /\ disk' = disk
      /\ mutex = None /\ mutex' = r
  BY DEF ServerInv, LiveIsDurable, TakeMutex, Stage
<1>2. \A q \in Request : job[q].phase = "idle"
  BY <1>1, NoneAssumption DEF ServerInv
<1>3. job' \in [Request -> [phase : {"idle", "persist", "swap"}, staged : Db]]
  BY DEF Stage, ServerInv, ServerTypeOK
<1>4. /\ job'[r].phase = "persist" /\ job'[r].staged = db
      /\ \A q \in Request \ {r} : job'[q] = job[q]
  BY DEF Stage, ServerInv, ServerTypeOK
<1>5. ServerTypeOK'
  BY <1>1, <1>3 DEF ServerInv, ServerTypeOK
<1>6. disk \in Db /\ DbInv(disk, files, sent)
  BY DEF ServerInv, ServerTypeOK
<1>7. DbInv(disk, files', sent')
  BY <1>6, DbMonotone
<1>8. \A q \in Request : job'[q].phase # "idle" <=> mutex' = q
  BY <1>1, <1>2, <1>4
<1>9. \A q \in Request : job'[q].phase = "persist" =>
         live' = disk' /\ DbInv(job'[q].staged, files', sent') /\ Grows(disk', job'[q].staged)
  BY <1>1, <1>2, <1>4
<1>10. \A q \in Request : job'[q].phase # "swap"
  BY <1>2, <1>4
<1>11. mutex' # None
  BY <1>1, NoneAssumption
<1> QED BY <1>1, <1>5, <1>7, <1>8, <1>9, <1>10, <1>11 DEF ServerInv, LiveIsDurable

\* Every step keeps the invariant.
LEMMA ServerStep == ServerInv /\ [ServerNext]_serverVars => ServerInv'
<1> SUFFICES ASSUME ServerInv, [ServerNext]_serverVars PROVE ServerInv'
  OBVIOUS
<1>0. /\ live \in Db /\ disk \in Db /\ files \in SUBSET Blob
      /\ sent \in [Key -> SUBSET (CommitId \cup Blob)]
      /\ job \in [Request -> [phase : {"idle", "persist", "swap"}, staged : Db]]
      /\ DbInv(disk, files, sent)
  BY DEF ServerInv, ServerTypeOK
<1>a. ASSUME NEW r, TakeMutex(r) PROVE live = disk
  BY <1>a DEF ServerInv, LiveIsDurable, TakeMutex
<1>1. ASSUME NEW r \in Request, NEW k \in Owned, PutProjectProfile(r, k) PROVE ServerInv'
  <2> DEFINE new == [live EXCEPT !.exists = @ \cup {k}]
  <2>1. TakeMutex(r) /\ Stage(r, new) /\ UNCHANGED <<files, sent>>
    BY <1>1 DEF PutProjectProfile
  <2>2. new \in Db /\ DbInv(new, files, sent) /\ Grows(live, new)
    BY <2>1, <1>0, <1>a, ProfileStaged
  <2> HIDE DEF new
  <2> QED BY <2>1, <2>2, <1>0, Staging
<1>2. ASSUME NEW r \in Request, NEW k \in Owned, NEW b \in Blob, PutBlob(r, k, b)
      PROVE  ServerInv'
  <2> DEFINE new == [live EXCEPT !.project[k].blobs = @ \cup {b}]
  <2>1. /\ TakeMutex(r) /\ Stage(r, new) /\ files' = files \cup {b}
        /\ sent' = [sent EXCEPT ![k] = @ \cup {b}]
    BY <1>2 DEF PutBlob
  <2>2. /\ sent' \in [Key -> SUBSET (CommitId \cup Blob)] /\ files' \in SUBSET Blob
        /\ \A x \in Key : sent[x] \subseteq sent'[x]
        /\ b \in sent'[k] /\ b \in files'
    BY <2>1, <1>0, KeyOwned
  <2>3. DbInv(live, files', sent')
    <3>1. DbInv(live, files, sent) /\ files \subseteq files'
      BY <2>1, <1>0, <1>a
    <3> QED BY <3>1, <2>2, <1>0, DbMonotone
  <2>4. new \in Db /\ DbInv(new, files', sent') /\ Grows(live, new)
    BY <2>2, <2>3, <1>0, BlobStaged
  <2> HIDE DEF new
  <2> QED BY <2>1, <2>2, <2>4, Staging
<1>3. ASSUME NEW r \in Request, NEW k \in Owned, NEW c \in CommitId, PostCommit(r, k, c)
      PROVE  ServerInv'
  <2> DEFINE new == [live EXCEPT !.commits = @ \cup {c}, !.project[k].commits = @ \cup {c}]
  <2>1. /\ TakeMutex(r) /\ Stage(r, new) /\ files' = files
        /\ sent' = [sent EXCEPT ![k] = @ \cup {c}]
        /\ Accepts(live.project[k], c)
    BY <1>3 DEF PostCommit
  <2>2. /\ sent' \in [Key -> SUBSET (CommitId \cup Blob)]
        /\ \A x \in Key : sent[x] \subseteq sent'[x]
        /\ c \in sent'[k]
    BY <2>1, <1>0, KeyOwned
  <2>3. DbInv(live, files, sent')
    <3>1. DbInv(live, files, sent)
      BY <2>1, <1>0, <1>a
    <3> QED BY <3>1, <2>2, <1>0, DbMonotone
  <2>4. new \in Db /\ DbInv(new, files, sent') /\ Grows(live, new)
    <3>1. Accepts(live.project[k], c) /\ c \in sent'[k] /\ live \in Db
      BY <2>1, <2>2, <1>0
    <3> QED BY <3>1, <2>3, CommitStaged
  <2> HIDE DEF new
  <2> QED BY <2>1, <2>2, <2>4, <1>0, Staging
<1>4. ASSUME NEW r \in Request, NEW k \in Owned, NEW from \in CommitId \cup {None},
             NEW to \in CommitId, PostHead(r, k, from, to)
      PROVE  ServerInv'
  <2> DEFINE new == [live EXCEPT !.project[k].head = to]
  <2>1. /\ TakeMutex(r) /\ Stage(r, new) /\ UNCHANGED <<files, sent>>
        /\ BelongsTo(live.project[k], to)
    BY <1>4 DEF PostHead
  <2>2. new \in Db /\ DbInv(new, files, sent) /\ Grows(live, new)
    BY <2>1, <1>0, <1>a, HeadStaged
  <2> HIDE DEF new
  <2> QED BY <2>1, <2>2, <1>0, Staging
<1>5. ASSUME NEW r \in Request, NEW k \in Owned, NEW f \in CommitId, PostRetention(r, k, f)
      PROVE  ServerInv'
  <2> DEFINE new == [live EXCEPT !.project[k].floor = f]
  <2>1. TakeMutex(r) /\ Stage(r, new) /\ UNCHANGED <<files, sent>>
    BY <1>5 DEF PostRetention
  <2>2. new \in Db /\ DbInv(new, files, sent) /\ Grows(live, new)
    BY <2>1, <1>0, <1>a, FloorStaged
  <2> HIDE DEF new
  <2> QED BY <2>1, <2>2, <1>0, Staging
<1>6. ASSUME NEW r \in Request, Persist(r) PROVE ServerInv'
  <2>1. /\ job[r].phase = "persist" /\ disk' = job[r].staged
        /\ UNCHANGED <<running, live, files, mutex, sent>>
        /\ mutex = r /\ job[r].staged \in Db
        /\ job' = [job EXCEPT ![r].phase = "swap"]
    BY <1>6, <1>0 DEF Persist, ServerInv
  <2>2. /\ job' \in [Request -> [phase : {"idle", "persist", "swap"}, staged : Db]]
        /\ job'[r].phase = "swap" /\ job'[r].staged = job[r].staged
        /\ \A q \in Request \ {r} : job'[q] = job[q]
    BY <2>1, <1>0
  <2>3. \A q \in Request \ {r} : job[q].phase = "idle"
    BY <2>1 DEF ServerInv
  <2>4. DbInv(disk', files', sent') /\ Grows(live', disk')
    BY <2>1 DEF ServerInv
  <2>5. ServerTypeOK' /\ mutex' # None
    BY <2>1, <2>2, NoneAssumption DEF ServerInv, ServerTypeOK
  <2>6. ~running' => mutex' = None
    BY <2>1 DEF ServerInv
  <2> QED BY <2>1, <2>2, <2>3, <2>4, <2>5, <2>6 DEF ServerInv, LiveIsDurable
<1>7. ASSUME NEW r \in Request, PersistFails(r) PROVE ServerInv'
  <2>1. /\ job[r].phase = "persist" /\ live = disk
        /\ UNCHANGED <<running, live, disk, files, sent>> /\ mutex' = None
        /\ \A q \in Request : job'[q].phase = "idle"
        /\ job' \in [Request -> [phase : {"idle", "persist", "swap"}, staged : Db]]
    BY <1>7, <1>0, EmptyType DEF PersistFails, ServerInv, NoJob
  <2> QED BY <2>1, NoneAssumption DEF ServerInv, ServerTypeOK, LiveIsDurable
<1>8. ASSUME NEW r \in Request, Swap(r) PROVE ServerInv'
  <2>1. /\ job[r].phase = "swap" /\ live' = disk
        /\ UNCHANGED <<running, disk, files, sent>> /\ mutex' = None
        /\ \A q \in Request : job'[q].phase = "idle"
        /\ job' \in [Request -> [phase : {"idle", "persist", "swap"}, staged : Db]]
    BY <1>8, <1>0, EmptyType DEF Swap, ServerInv, NoJob
  <2> QED BY <2>1, NoneAssumption DEF ServerInv, ServerTypeOK, LiveIsDurable
<1>9. ASSUME NEW owner \in Owner, Start(owner) PROVE ServerInv'
  <2>1. /\ disk' = Claimed(disk, owner) /\ live' = disk' /\ running'
        /\ UNCHANGED <<files, mutex, job>> /\ mutex = None
        /\ sent' = [k \in Key |->
                  IF k[1] = owner /\ <<None, k[2]>> \in LegacyKeys(disk)
                  THEN sent[k] \cup sent[<<None, k[2]>>] ELSE sent[k]]
    BY <1>9 DEF Start, ServerInv
  <2>2. LegacyKeys(disk) \subseteq Key
    BY <1>0 DEF LegacyKeys, Db
  <2>3. /\ sent' \in [Key -> SUBSET (CommitId \cup Blob)]
        /\ \A k \in Key : sent[k] \subseteq sent'[k]
        /\ \A k \in Key : k[1] = owner /\ <<None, k[2]>> \in LegacyKeys(disk) =>
                           sent[<<None, k[2]>>] \subseteq sent'[k]
    BY <2>1, <2>2, <1>0
  <2>4. disk' \in Db
    BY <2>1, <1>0, ClaimedType
  <2>5. DbInv(disk', files', sent')
    BY <2>1, <2>3, <1>0, Claims
  <2>6. \A q \in Request : job'[q].phase = "idle"
    BY <2>1, NoneAssumption DEF ServerInv
  <2> QED BY <2>1, <2>3, <2>4, <2>5, <2>6, NoneAssumption
          DEF ServerInv, ServerTypeOK, LiveIsDurable
<1>10. ASSUME Crash PROVE ServerInv'
  <2>1. /\ running' = FALSE /\ live' = EmptyDb /\ mutex' = None
        /\ UNCHANGED <<disk, files, sent>>
        /\ \A q \in Request : job'[q].phase = "idle"
        /\ job' \in [Request -> [phase : {"idle", "persist", "swap"}, staged : Db]]
    BY <1>10, EmptyType DEF Crash, NoJob
  <2> QED BY <2>1, EmptyType, NoneAssumption DEF ServerInv, ServerTypeOK, LiveIsDurable
<1>11. CASE UNCHANGED serverVars
  BY <1>11 DEF serverVars, ServerInv, ServerTypeOK, LiveIsDurable, DbInv, ProjectInv,
              LegacyInv, Serves, Grows
<1> QED BY <1>1, <1>2, <1>3, <1>4, <1>5, <1>6, <1>7, <1>8, <1>9, <1>10, <1>11
        DEF ServerNext

-----------------------------------------------------------------------------
(* Theorems. *)

\* The inductive invariant of the server.
THEOREM ServerInvariant == ServerSpec => []ServerInv
BY ServerStart, ServerStep, PTL DEF ServerSpec

\* Readers see only what is on disk: mutate_persisted writes before it swaps.
THEOREM LiveStaysDurable == ServerSpec => []LiveIsDurable
<1>1. ServerInv => LiveIsDurable
  BY DEF ServerInv
<1> QED BY <1>1, ServerInvariant, PTL

\* post_commit, post_head and the migration leave no commit that its project
\* cannot serve.
THEOREM CommitsStayServed == ServerSpec => []CommitsAreServed
<1>1. ServerInv => CommitsAreServed
  BY DEF ServerInv, DbInv, ProjectInv, CommitsAreServed
<1> QED BY <1>1, ServerInvariant, PTL

\* Projects of different owners stay apart in the shared store.
THEOREM ProjectsStayApart == ServerSpec => []OnlyOwnUploads
<1>1. ServerInv => OnlyOwnUploads
  BY DEF ServerInv, DbInv, ProjectInv, LegacyInv, OnlyOwnUploads
<1> QED BY <1>1, ServerInvariant, PTL

\* Nothing a project was served is lost, whatever fails.
THEOREM ServedStays == ServerSpec => ServedIsKept
<1> DEFINE Kept == running => \A k \in Owned :
          /\ live.project[k].commits \subseteq disk'.project[k].commits
          /\ live.project[k].blobs \cap files \subseteq disk'.project[k].blobs \cap files'
<1>1. ServerInv /\ [ServerNext]_serverVars => [Kept]_serverVars
  <2> SUFFICES ASSUME ServerInv, ServerNext, running PROVE Kept
    OBVIOUS
  <2>1. live = disk \/ Grows(live, disk)
    BY DEF ServerInv, ServerTypeOK, LiveIsDurable
  <2>2. Grows(live, disk)
    BY <2>1 DEF Grows
  <2>3. disk' = disk \/ \E r \in Request : Persist(r)
    BY DEF ServerNext, PutProjectProfile, PutBlob, PostCommit, PostHead, PostRetention,
           PersistFails, Swap, Start, Crash, Stage
  <2>4. files \subseteq files'
    BY DEF ServerNext, PutProjectProfile, PutBlob, PostCommit, PostHead, PostRetention,
           Persist, PersistFails, Swap, Start, Crash, Stage
  <2>5. ASSUME NEW r \in Request, Persist(r) PROVE Grows(live, disk')
    BY <2>5 DEF Persist, ServerInv
  <2>6. Grows(live, disk')
    BY <2>2, <2>3, <2>5
  <2> QED BY <2>4, <2>6 DEF Grows
<1> QED BY <1>1, ServerInvariant, PTL DEF ServerSpec, ServedIsKept
=============================================================================
