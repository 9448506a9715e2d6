---------------------------- MODULE SyncProofs ----------------------------
(***************************************************************************)
(* Proofs about Repository, for any set of clients, commits and blobs, and *)
(* about Sync: the push coordinator keeps the contract Repository asks of  *)
(* its clients, so all that is proved of the repository holds of it, and   *)
(* no backup a machine recorded drops out of HEAD's ancestry.              *)
(***************************************************************************)
EXTENDS Sync, TLAPS

-----------------------------------------------------------------------------
\* THE REPOSITORY

-----------------------------------------------------------------------------
(* The smallest closed set. *)

\* Reach contains its roots: retention marks the versions it starts from.
LEMMA ReachRoots ==
    ASSUME NEW roots \in SUBSET CommitId, NEW E
    PROVE  roots \subseteq Reach(roots, E)
BY DEF Reach

\* Reach stays inside CommitId.
LEMMA ReachType ==
    ASSUME NEW roots, NEW E
    PROVE  Reach(roots, E) \in SUBSET CommitId
BY DEF Reach

\* Reach is closed: retention_graph leaves no edge unfollowed.
LEMMA ReachClosed ==
    ASSUME NEW roots, NEW E \in SUBSET (CommitId \X CommitId)
    PROVE  Closed(Reach(roots, E), E)
BY DEF Reach, Closed

\* Reach is the least such set.
LEMMA ReachLeast ==
    ASSUME NEW roots, NEW E, NEW S \in SUBSET CommitId,
           roots \subseteq S, Closed(S, E)
    PROVE  Reach(roots, E) \subseteq S
BY DEF Reach

\* Edges that start outside a closed set containing the roots do not matter:
\* a commit stored now changes no walk over older ones.
LEMMA ReachIgnores ==
    ASSUME NEW roots, NEW S \in SUBSET CommitId, roots \subseteq S,
           NEW E \in SUBSET (CommitId \X CommitId),
           NEW F \in SUBSET (CommitId \X CommitId),
           E \subseteq F, \A e \in F : e[1] \in S => e \in E,
           Closed(S, F)
    PROVE  Reach(roots, F) = Reach(roots, E)
<1>1. Reach(roots, E) \subseteq Reach(roots, F)
  <2>1. roots \subseteq Reach(roots, F)
    BY ReachRoots
  <2>2. Closed(Reach(roots, F), E)
    BY ReachClosed DEF Closed
  <2> QED BY <2>1, <2>2, ReachLeast, ReachType
<1>2. Reach(roots, F) \subseteq Reach(roots, E)
  <2> DEFINE T == Reach(roots, E) \cap S
  <2>1. roots \subseteq T
    BY ReachRoots
  <2>2. Closed(T, F)
    BY ReachClosed DEF Closed
  <2>3. T \in SUBSET CommitId
    OBVIOUS
  <2> HIDE DEF T
  <2>4. Reach(roots, F) \subseteq T
    BY <2>1, <2>2, <2>3, ReachLeast
  <2> QED BY <2>4 DEF T
<1> QED BY <1>1, <1>2

-----------------------------------------------------------------------------
(* Types. *)

\* The tree of a commit consists of blobs.
LEMMA TreeType ==
    ASSUME NEW k \in Commit
    PROVE  Tree(k) \in SUBSET Blob
BY EntriesAssumption DEF Tree, Commit, Blob

\* Both edge relations join commits.
LEMMA EdgesType ==
    ASSUME NEW stop
    PROVE  /\ Edges(stop) \in SUBSET (CommitId \X CommitId)
           /\ FirstEdges(stop) \in SUBSET (CommitId \X CommitId)
BY DEF Edges, FirstEdges

\* Every step keeps the types: each provider call writes values of the shape
\* the next one reads.
LEMMA TypeStep ==
    TypeOK /\ [RepoNext]_repoVars => TypeOK'
<1> SUFFICES ASSUME TypeOK, [RepoNext]_repoVars PROVE TypeOK'
  OBVIOUS
<1>1. ASSUME NEW c \in Client, NEW b \in Blob, PutBlob(c, b) \/ GetBlob(c, b)
      PROVE  TypeOK'
  BY <1>1, BoundAssumption DEF TypeOK, PutBlob, GetBlob, Store, Acknowledge, Object
<1>2. ASSUME NEW c \in Client, NEW id \in CommitId, NEW k \in Commit,
             Submit(c, id, k)
      PROVE  TypeOK'
  BY <1>2, BoundAssumption DEF TypeOK, Submit, PutCommit, Store, Acknowledge, Object
<1>3. ASSUME NEW c \in Client, NEW from \in CommitId \cup {None},
             NEW to \in CommitId, Publish(c, from, to)
      PROVE  TypeOK'
  BY <1>3 DEF TypeOK, Publish, AdvanceHead
<1>4. ASSUME NEW f \in Visible(floor), NEW c \in Client, NEW protected \in Roots,
             PruneBegin(c, f, protected)
      PROVE  TypeOK'
  <2> DEFINE graph == RetentionGraph(f, protected.commits)
             trees == UNION {Tree(content[g]) : g \in graph}
  <2>1. f \in CommitId
    BY ReachType DEF Visible
  <2>2. graph \subseteq Known /\ graph \subseteq CommitId
    BY <1>4 DEF PruneBegin, Known
  <2>3. \A g \in graph : Tree(content[g]) \subseteq Blob
    BY <2>2, TreeType DEF TypeOK, Known
  <2>4. trees \subseteq Blob
    BY <2>3
  <2>5. graph \cup protected.blobs \cup trees \in SUBSET Object
    BY <2>2, <2>4, RootsAssumption DEF Object
  <2>6. gc' = [phase |-> "blobs", marked |-> graph \cup protected.blobs \cup trees,
               at |-> now]
    BY <1>4 DEF PruneBegin
  <2> HIDE DEF graph, trees
  <2> QED BY <1>4, <2>1, <2>5, <2>6 DEF TypeOK, PruneBegin
<1>5. ASSUME NEW o \in Object, GcRemove(o)
      PROVE  TypeOK'
  BY <1>5, BoundAssumption DEF TypeOK, GcRemove
<1>6. CASE GcCommits
  BY <1>6 DEF TypeOK, GcCommits
<1>7. ASSUME NEW c \in Client, PruneEnd(c) \/ Forget(c)
      PROVE  TypeOK'
  BY <1>7, BoundAssumption DEF TypeOK, PruneEnd, Forget, NoGc
<1>8. CASE Tick
  BY <1>8, BoundAssumption DEF TypeOK, Tick
<1>9. CASE UNCHANGED repoVars
  BY <1>9 DEF TypeOK, repoVars
<1> QED
  BY <1>1, <1>2, <1>3, <1>4, <1>5, <1>6, <1>7, <1>8, <1>9
     DEF RepoNext, GcBlob, GcCommit, Object

\* TypeOK is an invariant of the repository.
THEOREM TypeCorrect == RepoSpec => []TypeOK
<1>1. RepoInit => TypeOK
  BY BoundAssumption DEF RepoInit, TypeOK, NoGc
<1> QED BY <1>1, TypeStep, PTL DEF RepoSpec

-----------------------------------------------------------------------------
(* The visible history. *)

\* HEAD is the first version of the history, wherever the walk ends.
LEMMA HeadVisible ==
    ASSUME head \in CommitId, head # None, NEW b
    PROVE  head \in Visible(b)
BY ReachRoots DEF Visible

\* The walk stays among stored hashes.
LEMMA VisibleKnown ==
    ASSUME head # None => head \in Known, NEW b,
           \A c \in Known : ParentsOf(content[c]) \subseteq Known
    PROVE  Visible(b) \subseteq Known
<1>1. Closed(Known, FirstEdges({b}))
  BY DEF Closed, FirstEdges, FirstParentOf, ParentsOf
<1>2. Known \in SUBSET CommitId
  BY DEF Known
<1> QED BY <1>1, <1>2, ReachLeast DEF Visible

\* Storing a commit changes neither the history nor the ancestry of HEAD.
LEMMA WalksStable ==
    ASSUME RepoInv, head' = head, NEW id \in CommitId, NEW k \in Commit,
           content[id] \in {None, k}, ParentsOf(k) \subseteq Known,
           content' = [content EXCEPT ![id] = k], NEW b,
           NEW stop, NEW root \in Known
    PROVE  /\ Visible(b)' = Visible(b)
           /\ Reach({root}, Edges(stop)') = Reach({root}, Edges(stop))
<1>1. \A c \in Known : content'[c] = content[c] /\ c \in Known'
  BY DEF RepoInv, TypeOK, Known
<1>2. Known \in SUBSET CommitId
  BY DEF Known
<1>3. Edges(stop) \subseteq Edges(stop)'
  BY <1>1 DEF Edges
<1>4. \A e \in Edges(stop)' : e[1] \in Known => e \in Edges(stop)
  BY <1>1 DEF Edges
<1>5. Closed(Known, Edges(stop)')
  BY <1>1 DEF Closed, Edges, RepoInv
<1>6. Reach({root}, Edges(stop)') = Reach({root}, Edges(stop))
  <2>1. Edges(stop)' \in SUBSET (CommitId \X CommitId)
    BY DEF Edges
  <2> QED BY <1>2, <1>3, <1>4, <1>5, <2>1, EdgesType, ReachIgnores
<1>7. Visible(b)' = Visible(b)
  <2> DEFINE E == FirstEdges({b})
             F == FirstEdges({b})'
  <2>1. E \subseteq F
    BY <1>1 DEF FirstEdges
  <2>2. \A e \in F : e[1] \in Known => e \in E
    BY <1>1 DEF FirstEdges
  <2>3. Closed(Known, F)
    BY <1>1 DEF Closed, FirstEdges, FirstParentOf, ParentsOf, RepoInv
  <2>4. E \in SUBSET (CommitId \X CommitId) /\ F \in SUBSET (CommitId \X CommitId)
    BY DEF FirstEdges
  <2>5. CASE head = None
    BY <2>5 DEF Visible
  <2>6. CASE head # None
    <3>1. {head} \subseteq Known
      BY <2>6 DEF RepoInv, HeadWhole, Whole
    <3> HIDE DEF E, F
    <3>2. Reach({head}, F) = Reach({head}, E)
      BY <3>1, <1>2, <2>1, <2>2, <2>3, <2>4, ReachIgnores
    <3> QED BY <3>2, <2>6 DEF Visible, E, F
  <2> QED BY <2>5, <2>6
<1> QED BY <1>6, <1>7

-----------------------------------------------------------------------------
(* The inductive invariant. *)

\* RepoInv without its types, conjunct by conjunct.
Ordered == \A c \in Known : ParentsOf(content[c]) \subseteq Known
Stored == present \cap CommitId \subseteq Known
Locked == /\ lock = None <=> gc.phase = "idle"
          /\ gc.phase # "idle" => floor # None
          /\ floor # None => head # None
NothingRemoved == floor = None => \A c \in Client : acked[c] \subseteq present
Marked == gc.phase # "idle" =>
             \A c \in Visible(floor) : {c} \cup Tree(content[c]) \subseteq gc.marked

\* The parts of the repository's inductive invariant, one name each.
LEMMA RepoInvParts ==
    RepoInv <=> /\ TypeOK /\ HeadWhole /\ Ordered /\ Stored /\ Locked
                /\ NothingRemoved /\ Marked
BY DEF RepoInv, Ordered, Stored, Locked, NothingRemoved, Marked

\* Uploads only add files: put_blob and get_blob keep the invariant.
LEMMA BlobStep ==
    ASSUME RepoInv, TypeOK', NEW c \in Client, NEW b \in Blob,
           PutBlob(c, b) \/ GetBlob(c, b)
    PROVE  RepoInv'
<1>1. /\ present \subseteq present' /\ present' \subseteq present \cup {b}
      /\ UNCHANGED <<head, floor, lock, gc, content>>
  BY DEF PutBlob, GetBlob, Store
<1>2. Known' = Known /\ Visible(floor)' = Visible(floor)
  BY <1>1 DEF Known, Visible, FirstEdges
<1>3. HeadWhole'
  BY <1>1, <1>2 DEF RepoInv, HeadWhole, Whole
<1>4. Ordered'
  BY <1>1, <1>2, RepoInvParts DEF Ordered
<1>5. Stored'
  BY <1>1, <1>2, HashAssumption, RepoInvParts DEF Stored
<1>6. Locked' /\ Marked'
  BY <1>1, <1>2, RepoInvParts DEF Locked, Marked
<1>7. NothingRemoved'
  BY <1>1, RepoInvParts
     DEF NothingRemoved, PutBlob, GetBlob, Store, Acknowledge, TypeOK
<1> QED
  BY <1>3, <1>4, <1>5, <1>6, <1>7
     DEF RepoInv, Ordered, Stored, Locked, NothingRemoved, Marked

\* put_commit gives a hash its meaning and never takes one away.
LEMMA CommitStep ==
    ASSUME RepoInv, TypeOK', NEW c \in Client, NEW id \in CommitId,
           NEW k \in Commit, PutCommit(c, id, k)
    PROVE  RepoInv'
<1>1. /\ present' = present \cup {id}
      /\ UNCHANGED <<head, floor, lock, gc>>
      /\ content' = [content EXCEPT ![id] = k]
      /\ content[id] \in {None, k}
      /\ ParentsOf(k) \subseteq Known
  BY DEF PutCommit, Store
<1>2. /\ \A x \in Known : content'[x] = content[x] /\ x \in Known'
      /\ content'[id] = k
      /\ \A x \in Known' : x = id \/ x \in Known
  BY <1>1 DEF RepoInv, TypeOK, Known
<1>3. k # None
  BY NoneAssumption
<1>4. Known' = Known \cup {id}
  BY <1>2, <1>3 DEF Known
<1>5. Visible(floor)' = Visible(floor)
  <2>1. PICK b : b = floor
    OBVIOUS
  <2>2. CASE head = None
    BY <1>1, <2>2 DEF Visible
  <2>3. CASE head # None
    <3>1. head \in Known
      BY <2>3 DEF RepoInv, HeadWhole, Whole
    <3>2. Visible(b)' = Visible(b)
      BY <1>1, <3>1, WalksStable
    <3> QED BY <1>1, <2>1, <3>2 DEF Visible, FirstEdges
  <2> QED BY <2>2, <2>3
<1>6. HeadWhole'
  BY <1>1, <1>2 DEF RepoInv, HeadWhole, Whole
<1>7. Ordered'
  BY <1>1, <1>2, <1>4 DEF RepoInv, Ordered
<1>8. Stored'
  BY <1>1, <1>4 DEF RepoInv, Stored
<1>9. Locked'
  BY <1>1 DEF RepoInv, Locked
<1>10. Marked'
  <2>1. Visible(floor) \subseteq Known
    BY VisibleKnown DEF RepoInv, HeadWhole, Whole
  <2> QED BY <1>1, <1>2, <1>5, <2>1 DEF RepoInv, Marked
<1>11. NothingRemoved'
  BY <1>1 DEF RepoInv, NothingRemoved, PutCommit, Acknowledge, TypeOK
<1> QED
  BY <1>6, <1>7, <1>8, <1>9, <1>10, <1>11
     DEF RepoInv, Ordered, Stored, Locked, NothingRemoved, Marked

\* advance_head installs only a version that is whole: before the first
\* retention pass because nothing it was told of was removed, later because
\* it looks.
LEMMA HeadStep ==
    ASSUME RepoInv, TypeOK', NEW c \in Client, NEW from \in CommitId \cup {None},
           NEW to \in CommitId, Publish(c, from, to)
    PROVE  RepoInv'
<1>1. /\ lock = None /\ head' = to
      /\ floor # None => Whole(to)
      /\ to \in Known /\ {to} \cup Tree(content[to]) \subseteq acked[c]
      /\ UNCHANGED <<floor, present, mtime, now, lock, gc, content, acked>>
  BY DEF Publish, AdvanceHead, ValidForHead
<1>2. Known' = Known /\ to # None
  BY <1>1, NoneAssumption DEF Known, Object
<1>3. Whole(to)
  BY <1>1 DEF RepoInv, Whole
<1>4. HeadWhole'
  BY <1>1, <1>2, <1>3 DEF HeadWhole, Whole
<1>5. gc.phase = "idle" /\ gc'.phase = "idle"
  BY <1>1 DEF RepoInv
<1> QED BY <1>1, <1>2, <1>4, <1>5 DEF RepoInv

\* A retention pass marks every version it keeps, HEAD among them, before it
\* removes anything, and by then the floor is written.
LEMMA PruneStep ==
    ASSUME RepoInv, TypeOK', NEW c \in Client, NEW f \in Visible(floor),
           NEW protected \in Roots, PruneBegin(c, f, protected)
    PROVE  RepoInv'
<1> DEFINE graph == RetentionGraph(f, protected.commits)
<1>1. /\ floor' = f /\ lock' = c
      /\ UNCHANGED <<head, present, mtime, now, content, acked>>
      /\ gc'.phase = "blobs"
      /\ \A g \in graph : {g} \cup Tree(content[g]) \subseteq gc'.marked
  BY DEF PruneBegin
<1>2. f \in CommitId /\ f # None /\ c # None
  BY ReachType, NoneAssumption DEF Visible, Object
<1>3. head # None /\ head \in CommitId
  BY DEF Visible, RepoInv, TypeOK
<1>4. Known' = Known /\ Visible(floor)' = Visible(f)
  BY <1>1 DEF Known, Visible, FirstEdges
<1>5. Visible(f) \subseteq graph
  <2>1. Visible(f) \cup protected.commits \in SUBSET CommitId
    BY ReachType, RootsAssumption DEF Visible
  <2> QED BY <2>1, ReachRoots DEF RetentionGraph
<1> HIDE DEF graph
<1>6. HeadWhole' /\ Ordered' /\ Stored'
  BY <1>1, <1>4 DEF RepoInv, HeadWhole, Whole, Ordered, Stored
<1>7. Locked' /\ NothingRemoved'
  BY <1>1, <1>2, <1>3 DEF Locked, NothingRemoved
<1>8. Marked'
  BY <1>1, <1>4, <1>5 DEF Marked
<1> QED
  BY <1>6, <1>7, <1>8 DEF RepoInv, Ordered, Stored, Locked, NothingRemoved, Marked

\* Removing one unmarked file keeps the invariant: HEAD's tree is marked.
LEMMA GcStep ==
    ASSUME RepoInv, TypeOK', NEW o \in Object, GcRemove(o), gc.phase # "idle"
    PROVE  RepoInv'
<1>1. /\ o \notin gc.marked /\ present' = present \ {o}
      /\ UNCHANGED <<head, floor, now, lock, gc, content, acked>>
  BY DEF GcRemove, Collectable
<1>2. Known' = Known /\ Visible(floor)' = Visible(floor)
  BY <1>1 DEF Known, Visible, FirstEdges
<1>3. head # None /\ head \in CommitId /\ floor # None
  BY DEF RepoInv, TypeOK
<1>4. {head} \cup Tree(content[head]) \subseteq gc.marked
  BY <1>3, HeadVisible DEF RepoInv
<1>5. HeadWhole'
  BY <1>1, <1>2, <1>4 DEF RepoInv, HeadWhole, Whole
<1> QED BY <1>1, <1>2, <1>3, <1>5 DEF RepoInv

\* The invariant is inductive.
LEMMA RepoStep ==
    RepoInv /\ [RepoNext]_repoVars => RepoInv'
<1> SUFFICES ASSUME RepoInv, [RepoNext]_repoVars PROVE RepoInv'
  OBVIOUS
<1>0. TypeOK'
  BY TypeStep DEF RepoInv
<1>1. ASSUME NEW c \in Client, NEW b \in Blob, PutBlob(c, b) \/ GetBlob(c, b)
      PROVE  RepoInv'
  BY <1>0, <1>1, BlobStep
<1>2. ASSUME NEW c \in Client, NEW id \in CommitId, NEW k \in Commit,
             Submit(c, id, k)
      PROVE  RepoInv'
  BY <1>0, <1>2, CommitStep DEF Submit
<1>3. ASSUME NEW c \in Client, NEW from \in CommitId \cup {None},
             NEW to \in CommitId, Publish(c, from, to)
      PROVE  RepoInv'
  BY <1>0, <1>3, HeadStep
<1>4. ASSUME NEW f \in Visible(floor), NEW c \in Client, NEW protected \in Roots,
             PruneBegin(c, f, protected)
      PROVE  RepoInv'
  BY <1>0, <1>4, PruneStep
<1>5. ASSUME NEW o \in Object, GcRemove(o), gc.phase # "idle"
      PROVE  RepoInv'
  BY <1>0, <1>5, GcStep
<1>6. CASE GcCommits
  <2>1. /\ UNCHANGED <<head, floor, present, mtime, now, lock, content, acked>>
        /\ gc.phase = "blobs" /\ gc'.phase = "commits" /\ gc'.marked = gc.marked
    BY <1>6 DEF GcCommits, RepoInv, TypeOK
  <2>2. Known' = Known /\ Visible(floor)' = Visible(floor)
    BY <2>1 DEF Known, Visible, FirstEdges
  <2>3. HeadWhole'
    BY <2>1, <2>2 DEF RepoInv, HeadWhole, Whole
  <2> QED BY <1>0, <2>1, <2>2, <2>3 DEF RepoInv
<1>7. ASSUME NEW c \in Client, PruneEnd(c)
      PROVE  RepoInv'
  <2>1. /\ UNCHANGED <<head, floor, present, mtime, now, content, acked>>
        /\ lock' = None /\ gc'.phase = "idle"
    BY <1>7 DEF PruneEnd, NoGc
  <2>2. Known' = Known
    BY <2>1 DEF Known
  <2>3. HeadWhole'
    BY <2>1, <2>2 DEF RepoInv, HeadWhole, Whole
  <2> QED BY <1>0, <2>1, <2>2, <2>3 DEF RepoInv
<1>8. ASSUME \/ \E c \in Client : Forget(c)
             \/ Tick
             \/ UNCHANGED repoVars
      PROVE  RepoInv'
  <2>1. /\ UNCHANGED <<head, floor, present, lock, gc, content>>
        /\ \A c \in Client : acked'[c] \subseteq acked[c]
    BY <1>8 DEF Forget, Tick, repoVars, RepoInv, TypeOK
  <2>2. Known' = Known /\ Visible(floor)' = Visible(floor)
    BY <2>1 DEF Known, Visible, FirstEdges
  <2>3. HeadWhole'
    BY <2>1, <2>2 DEF RepoInv, HeadWhole, Whole
  <2> QED BY <1>0, <2>1, <2>2, <2>3 DEF RepoInv
<1> QED
  BY <1>1, <1>2, <1>3, <1>4, <1>5, <1>6, <1>7, <1>8
     DEF RepoNext, GcBlob, GcCommit, Object

\* The invariant holds of an empty repository.
LEMMA RepoStart == RepoInit => RepoInv
BY BoundAssumption
   DEF RepoInit, RepoInv, TypeOK, NoGc, HeadWhole, Known, Visible

\* RepoInv holds in every state of the repository.
THEOREM RepoInvariant == RepoSpec => []RepoInv
<1> QED BY RepoStart, RepoStep, PTL DEF RepoSpec

\* HEAD can always be restored completely.
THEOREM HeadAlwaysWhole == RepoSpec => []HeadWhole
<1>1. RepoInv => HeadWhole
  BY DEF RepoInv
<1> QED BY <1>1, RepoInvariant, PTL

-----------------------------------------------------------------------------
(* Retention and the versions it keeps. *)

\* What a step does to files and hashes: only a retention pass removes a
\* file, an unmarked one, and no step changes what a hash names.
LEMMA StepEffect ==
    ASSUME RepoInv, [RepoNext]_repoVars
    PROVE  /\ \A c \in Known : content'[c] = content[c] /\ c \in Known'
           /\ \/ present \subseteq present'
              \/ /\ gc.phase # "idle"
                 /\ present \ present' \subseteq Object \ gc.marked
<1>1. ASSUME NEW c \in Client, NEW id \in CommitId, NEW k \in Commit,
             Submit(c, id, k)
      PROVE  /\ \A x \in Known : content'[x] = content[x] /\ x \in Known'
             /\ present \subseteq present'
  BY <1>1 DEF Submit, PutCommit, Store, RepoInv, TypeOK, Known
<1>2. ASSUME NEW o \in Object, GcRemove(o), gc.phase # "idle"
      PROVE  content' = content /\ present \ present' \subseteq Object \ gc.marked
  BY <1>2 DEF GcRemove, Collectable
<1>3. ASSUME \/ \E c \in Client, b \in Blob : PutBlob(c, b) \/ GetBlob(c, b)
             \/ \E c \in Client, from \in CommitId \cup {None}, to \in CommitId :
                   Publish(c, from, to)
             \/ \E f \in Visible(floor) : \E c \in Client, protected \in Roots :
                   PruneBegin(c, f, protected)
             \/ GcCommits \/ Tick \/ UNCHANGED repoVars
             \/ \E c \in Client : PruneEnd(c) \/ Forget(c)
      PROVE  content' = content /\ present \subseteq present'
  BY <1>3 DEF PutBlob, GetBlob, Store, Publish, AdvanceHead, PruneBegin, GcCommits,
              Tick, repoVars, PruneEnd, Forget
<1> QED
  BY <1>1, <1>2, <1>3 DEF RepoNext, GcBlob, GcCommit, Object, Known

\* A listed version that can be restored survives every step: only unmarked
\* files are removed and its files are marked.
LEMMA WholeStays ==
    ASSUME RepoInv, [RepoNext]_repoVars, NEW c \in Visible(floor), Whole(c)
    PROVE  Whole(c)'
<1>1. content'[c] = content[c] /\ c \in Known'
  BY StepEffect DEF Whole
<1>2. CASE present \subseteq present'
  BY <1>1, <1>2 DEF Whole
<1>3. CASE gc.phase # "idle" /\ present \ present' \subseteq Object \ gc.marked
  <2>1. {c} \cup Tree(content[c]) \subseteq gc.marked
    BY <1>3 DEF RepoInv
  <2> QED BY <1>1, <1>3, <2>1 DEF Whole
<1> QED BY <1>2, <1>3, StepEffect

\* A version the history lists and that can be restored is never damaged
\* while it is listed: no retention pass, complete or cut short, removes a
\* file of it.
THEOREM RetentionKeeps == RepoSpec => KeptVersionsStay
<1>1. ASSUME RepoInv, [RepoNext]_repoVars
      PROVE  [\A c \in Visible(floor) :
                 (Whole(c) /\ c \in Visible(floor)') => Whole(c)']_repoVars
  BY <1>1, WholeStays
<1> QED BY <1>1, RepoInvariant, PTL DEF RepoSpec, KeptVersionsStay

-----------------------------------------------------------------------------
(* Linear histories. *)

\* A commit has at most one first parent.
LEMMA OneFirstParent ==
    ASSUME NEW k, NEW d \in FirstParentOf(k), NEW e \in FirstParentOf(k)
    PROVE  d = e
BY DEF FirstParentOf

\* Raising the floor to a listed version lists no version that was not listed
\* before: write_history_floor only ever shortens the history.
LEMMA PruneShrinks ==
    ASSUME TypeOK, NEW f \in Visible(floor)
    PROVE  Visible(f) \subseteq Visible(floor)
<1> DEFINE E == FirstEdges({floor})
           F == FirstEdges({f})
           V == Reach({head}, E)
           S == {c \in V : f \in Reach({c}, E)}
<1>1. head # None /\ head \in CommitId /\ Visible(floor) = V
      /\ Visible(f) = Reach({head}, F)
  BY DEF Visible, TypeOK
<1>2. E \in SUBSET (CommitId \X CommitId) /\ V \in SUBSET CommitId
  BY EdgesType, ReachType
<1>3. head \in V /\ Closed(V, E)
  BY <1>1, <1>2, ReachRoots, ReachClosed
<1>4. S \in SUBSET CommitId /\ {head} \subseteq S
  BY <1>1, <1>2, <1>3
<1>5. ASSUME NEW e \in F, e[1] \in S
      PROVE  e[2] \in S
  <2> DEFINE c == e[1]
             d == e[2]
             T == {c} \cup Reach({d}, E)
  <2>1. /\ c \in Known /\ c # f /\ d \in FirstParentOf(content[c])
        /\ c \in CommitId /\ d \in CommitId /\ e = <<c, d>>
    BY DEF FirstEdges
  <2>2. c \in V /\ f \in Reach({c}, E)
    BY <1>5
  <2>3. c # floor
    <3>1. SUFFICES ASSUME c = floor PROVE FALSE
      OBVIOUS
    <3>2. {c} \in SUBSET CommitId /\ Closed({c}, E)
      BY <2>1, <3>1 DEF Closed, FirstEdges
    <3>3. Reach({c}, E) \subseteq {c}
      BY <3>2, ReachLeast
    <3> QED BY <2>1, <2>2, <3>3
  <2>4. e \in E
    BY <2>1, <2>3 DEF FirstEdges
  <2>5. d \in V
    BY <1>3, <2>2, <2>4 DEF Closed
  <2>6. Closed(T, E)
    <3>1. Closed(Reach({d}, E), E) /\ d \in Reach({d}, E)
      BY <1>2, <2>1, ReachClosed, ReachRoots
    <3>2. \A g \in E : g[1] = c => g[2] = d
      BY <2>1, OneFirstParent DEF FirstEdges
    <3> QED BY <3>1, <3>2 DEF Closed
  <2>7. T \in SUBSET CommitId
    BY <2>1, ReachType
  <2>8. Reach({c}, E) \subseteq T
    BY <2>6, <2>7, ReachLeast
  <2>9. f \in Reach({d}, E)
    BY <2>1, <2>2, <2>8
  <2> QED BY <2>5, <2>9
<1>6. Closed(S, F)
  BY <1>5 DEF Closed
<1> HIDE DEF E, F, V, S
<1>7. Reach({head}, F) \subseteq S
  BY <1>4, <1>6, ReachLeast
<1> QED BY <1>1, <1>7 DEF S

\* While no push merges, the parent a new HEAD names is the old HEAD, so the
\* history grows by the new version and by nothing else.
LEMMA PublishExtends ==
    ASSUME TypeOK, MaxParents = 1, NEW c \in Client,
           NEW from \in CommitId \cup {None}, NEW to \in CommitId,
           Publish(c, from, to)
    PROVE  Visible(floor)' \subseteq {to} \cup Visible(floor)
<1> DEFINE E == FirstEdges({floor})
           U == {to} \cup Visible(floor)
<1>1. /\ head = from /\ head' = to /\ to \in Known /\ to # None
      /\ UNCHANGED <<floor, content>>
      /\ from = None => ParentsOf(content[to]) = {}
      /\ from # None => from \in ParentsOf(content[to])
  BY NoneAssumption DEF Publish, AdvanceHead, HeadMoved, Object
<1>2. Visible(floor)' = Reach({to}, E)
  BY <1>1 DEF Visible, FirstEdges, Known
<1>3. Visible(floor) \in SUBSET CommitId
  BY ReachType DEF Visible
<1>4. Closed(Visible(floor), E)
  <2>1. CASE head = None
    BY <2>1 DEF Visible, Closed
  <2>2. CASE head # None
    BY <2>2, EdgesType, ReachClosed DEF Visible
  <2> QED BY <2>1, <2>2
<1>5. \A d \in FirstParentOf(content[to]) : d \in Visible(floor)
  <2>1. SUFFICES ASSUME NEW d \in FirstParentOf(content[to])
                 PROVE  d \in Visible(floor)
    OBVIOUS
  <2>2. d \in ParentsOf(content[to])
    BY <2>1 DEF FirstParentOf, ParentsOf
  <2>3. from # None /\ from \in ParentsOf(content[to])
    BY <1>1, <2>2
  <2>4. content[to] \in Commit
    BY <1>1 DEF TypeOK, Known
  <2>5. PICK n \in 0..1 : content[to].parents \in [1..n -> CommitId]
    BY <2>4 DEF Commit
  <2>6. from = d
    BY <2>2, <2>3, <2>5 DEF ParentsOf
  <2> QED BY <1>1, <2>3, <2>6, HeadVisible DEF TypeOK
<1>6. Closed(U, E)
  BY <1>4, <1>5 DEF Closed, FirstEdges
<1> HIDE DEF E
<1>7. Reach({to}, E) \subseteq U
  BY <1>3, <1>6, ReachLeast
<1> QED BY <1>2, <1>7

\* What a step does to the listed versions.
LEMMA ListedStep ==
    ASSUME RepoInv, [RepoNext]_repoVars, MaxParents = 1
    PROVE  Visible(floor)' \subseteq Visible(floor) \cup {head'}
<1>1. ASSUME NEW c \in Client, NEW id \in CommitId, NEW k \in Commit,
             Submit(c, id, k)
      PROVE  Visible(floor)' = Visible(floor)
  <2>1. /\ head' = head /\ floor' = floor
        /\ content[id] \in {None, k} /\ ParentsOf(k) \subseteq Known
        /\ content' = [content EXCEPT ![id] = k]
    BY <1>1 DEF Submit, PutCommit
  <2>2. PICK b : b = floor
    OBVIOUS
  <2>3. CASE head = None
    BY <2>1, <2>3 DEF Visible
  <2>4. CASE head # None
    <3>1. head \in Known
      BY <2>4 DEF RepoInv, HeadWhole, Whole
    <3>2. Visible(b)' = Visible(b)
      BY <2>1, <3>1, WalksStable
    <3> QED BY <2>1, <2>2, <3>2 DEF Visible, FirstEdges
  <2> QED BY <2>3, <2>4
<1>2. ASSUME NEW c \in Client, NEW from \in CommitId \cup {None},
             NEW to \in CommitId, Publish(c, from, to)
      PROVE  Visible(floor)' \subseteq Visible(floor) \cup {head'}
  <2>1. head' = to
    BY <1>2 DEF Publish, AdvanceHead
  <2>2. Visible(floor)' \subseteq {to} \cup Visible(floor)
    BY <1>2, PublishExtends DEF RepoInv
  <2> QED BY <2>1, <2>2
<1>3. ASSUME NEW f \in Visible(floor), NEW c \in Client, NEW protected \in Roots,
             PruneBegin(c, f, protected)
      PROVE  Visible(floor)' \subseteq Visible(floor)
  <2>1. head' = head /\ floor' = f /\ content' = content
    BY <1>3 DEF PruneBegin
  <2>2. Visible(floor)' = Visible(f)
    BY <2>1 DEF Visible, FirstEdges, Known
  <2> QED BY <2>2, PruneShrinks DEF RepoInv
<1>4. ASSUME UNCHANGED <<head, floor, content>>
      PROVE  Visible(floor)' = Visible(floor)
  BY <1>4 DEF Visible, FirstEdges, Known
<1>5. \/ \E c \in Client, id \in CommitId, k \in Commit : Submit(c, id, k)
      \/ \E c \in Client, from \in CommitId \cup {None}, to \in CommitId :
            Publish(c, from, to)
      \/ \E f \in Visible(floor), c \in Client, protected \in Roots :
            PruneBegin(c, f, protected)
      \/ UNCHANGED <<head, floor, content>>
  BY DEF RepoNext, repoVars, PutBlob, GetBlob, GcBlob, GcCommit, GcRemove,
         GcCommits, PruneEnd, Forget, Tick
<1> QED BY <1>1, <1>2, <1>3, <1>4, <1>5

\* While no push merges, every version list_history shows can be restored, in
\* every state: the versions shown are those shown before and the new HEAD.
THEOREM LinearHistoriesWhole == RepoSpec => []LinearHistoryWhole
<1>1. RepoInit => LinearHistoryWhole
  BY DEF RepoInit, LinearHistoryWhole, Visible
<1>2. ASSUME RepoInv, RepoInv', [RepoNext]_repoVars, LinearHistoryWhole
      PROVE  LinearHistoryWhole'
  <2>1. SUFFICES ASSUME MaxParents = 1, NEW c \in Visible(floor)'
                 PROVE  Whole(c)'
    BY DEF LinearHistoryWhole
  <2>2. CASE c \in Visible(floor)
    BY <1>2, <2>1, <2>2, WholeStays DEF LinearHistoryWhole
  <2>3. CASE c = head'
    <3>1. head' # None
      BY <2>1 DEF Visible
    <3> QED BY <1>2, <2>3, <3>1 DEF RepoInv, HeadWhole, Whole
  <2> QED BY <1>2, <2>1, <2>2, <2>3, ListedStep
<1> QED BY <1>1, <1>2, RepoInvariant, PTL DEF RepoSpec

-----------------------------------------------------------------------------
(* The promise to the user. *)

\* A child's ancestors include those of each of its parents.
LEMMA ParentLine ==
    ASSUME NEW c \in Known, NEW p \in CommitId, p \in ParentsOf(content[c])
    PROVE  Ancestors(p) \cup {c} \subseteq Ancestors(c)
<1> DEFINE S == Reach({c}, Edges({}))
<1>1. c \in CommitId
  BY DEF Known
<1>2. Closed(S, Edges({})) /\ c \in S /\ S \in SUBSET CommitId
  BY <1>1, EdgesType, ReachClosed, ReachRoots, ReachType
<1>3. <<c, p>> \in Edges({})
  BY <1>1 DEF Edges
<1>4. p \in S
  BY <1>2, <1>3 DEF Closed
<1> HIDE DEF S
<1>5. Reach({p}, Edges({})) \subseteq S
  BY <1>2, <1>4, ReachLeast
<1> QED BY <1>2, <1>5 DEF S, Ancestors

\* The ancestry of HEAD changes only when HEAD does.
LEMMA LineStable ==
    ASSUME RepoInv, [RepoNext]_repoVars, head' = head, head # None
    PROVE  Ancestors(head)' = Ancestors(head)
<1>1. head \in Known
  BY DEF RepoInv, HeadWhole, Whole
<1>2. CASE content' = content
  BY <1>2 DEF Ancestors, Edges, Known
<1>3. ASSUME NEW c \in Client, NEW id \in CommitId, NEW k \in Commit,
             Submit(c, id, k)
      PROVE  Ancestors(head)' = Ancestors(head)
  <2>1. PICK h : h = head
    OBVIOUS
  <2>2. Reach({h}, Edges({})') = Reach({h}, Edges({}))
    BY <1>1, <1>3, <2>1, WalksStable DEF Submit, PutCommit
  <2> QED BY <2>1, <2>2 DEF Ancestors
<1>4. content' = content
      \/ \E c \in Client, id \in CommitId, k \in Commit : Submit(c, id, k)
  BY DEF RepoNext, repoVars, PutBlob, GetBlob, Publish, AdvanceHead, PruneBegin,
         GcBlob, GcCommit, GcRemove, GcCommits, PruneEnd, Forget, Tick
<1> QED BY <1>2, <1>3, <1>4

\* HEAD moves only by advance_head.
LEMMA HeadMoves ==
    ASSUME [RepoNext]_repoVars, head' # head
    PROVE  \E c \in Client, from \in CommitId \cup {None}, to \in CommitId :
              Publish(c, from, to)
BY DEF RepoNext, repoVars, PutBlob, GetBlob, Submit, PutCommit, PruneBegin,
       GcBlob, GcCommit, GcRemove, GcCommits, PruneEnd, Forget, Tick

\* The repository implements History: the current version is always whole,
\* and no version that was ever current drops out of its ancestry.
THEOREM PromiseKept == RepoSpec => KeepsPromise
<1>1. RepoInit => Promise!Init
  BY DEF RepoInit, Promise!Init, Whole, Known
<1>2. ASSUME RepoInv, RepoInv', [RepoNext]_repoVars
      PROVE  [Promise!Next]_Promise!vars
  <2>1. CASE head' = head
    <3>1. (IF head = None THEN {} ELSE Ancestors(head))'
             = IF head = None THEN {} ELSE Ancestors(head)
      BY <1>2, <2>1, LineStable
    <3>2. head # None => head \in {c \in CommitId : Whole(c)}'
      BY <1>2, <2>1 DEF RepoInv, TypeOK, HeadWhole
    <3>3. Promise!Churn
      BY <2>1, <3>1, <3>2 DEF Promise!Churn
    <3> QED BY <3>3 DEF Promise!Next
  <2>2. CASE head' # head
    <3>1. PICK c \in Client, from \in CommitId \cup {None}, to \in CommitId :
             Publish(c, from, to)
      BY <1>2, <2>2, HeadMoves
    <3>2. /\ head = from /\ head' = to /\ to \in Known
          /\ UNCHANGED <<present, content>>
          /\ from # None => from \in ParentsOf(content[to])
      BY <3>1 DEF Publish, AdvanceHead, HeadMoved
    <3>3. {x \in CommitId : Whole(x)}' = {x \in CommitId : Whole(x)}
      BY <3>2 DEF Whole, Known
    <3>4. to # None /\ Whole(to)
      BY <1>2, <3>2, NoneAssumption DEF RepoInv, HeadWhole, Whole, Known, Object
    <3>5. Ancestors(head)' = Ancestors(to)
      BY <3>2 DEF Ancestors, Edges, Known
    <3>6. Ancestors(to) \in SUBSET CommitId /\ to \in Ancestors(to)
      BY ReachType, ReachRoots DEF Ancestors
    <3>7. head # None => Ancestors(head) \subseteq Ancestors(to)
      BY <3>2, ParentLine
    <3>8. Promise!Publish
      BY <3>2, <3>3, <3>4, <3>5, <3>6, <3>7 DEF Promise!Publish
    <3> QED BY <3>8 DEF Promise!Next
  <2> QED BY <2>1, <2>2
<1> QED
  BY <1>1, <1>2, RepoInvariant, PTL DEF RepoSpec, KeepsPromise, Promise!Spec

-----------------------------------------------------------------------------
\* THE PUSH COORDINATOR

-----------------------------------------------------------------------------
(* Ancestry. *)

\* The ancestors of a commit are hashes of commits that exist.
LEMMA AncestorsKnown ==
    ASSUME RepoInv, NEW c \in Known
    PROVE  Ancestors(c) \subseteq Known /\ c \in Ancestors(c)
<1>1. Closed(Known, Edges({}))
  BY DEF Closed, Edges, RepoInv
<1>2. Known \in SUBSET CommitId /\ c \in CommitId
  BY DEF Known
<1> QED BY <1>1, <1>2, ReachLeast, ReachRoots DEF Ancestors

\* The ancestors of a commit that exists never change.
LEMMA AncestorsStable ==
    ASSUME RepoInv, [RepoNext]_repoVars, NEW c \in Known
    PROVE  Reach({c}, Edges({})') = Reach({c}, Edges({}))
<1>1. CASE content' = content
  BY <1>1 DEF Edges, Known
<1>2. ASSUME NEW d \in Client, NEW id \in CommitId, NEW k \in Commit,
             Submit(d, id, k)
      PROVE  Reach({c}, Edges({})') = Reach({c}, Edges({}))
  BY <1>2, WalksStable DEF Submit, PutCommit
<1>3. content' = content
      \/ \E d \in Client, id \in CommitId, k \in Commit : Submit(d, id, k)
  BY DEF RepoNext, repoVars, PutBlob, GetBlob, Publish, AdvanceHead, PruneBegin,
         GcBlob, GcCommit, GcRemove, GcCommits, PruneEnd, Forget, Tick
<1> QED BY <1>1, <1>2, <1>3

\* What is in HEAD's line stays there.
LEMMA LineGrows ==
    ASSUME RepoInv, [RepoNext]_repoVars, head # None
    PROVE  head' # None /\ Ancestors(head) \subseteq Ancestors(head)'
<1>1. CASE head' = head
  BY <1>1, LineStable
<1>2. CASE head' # head
  <2>1. PICK c \in Client, from \in CommitId \cup {None}, to \in CommitId :
           Publish(c, from, to)
    BY <1>2, HeadMoves
  <2>2. /\ head = from /\ head' = to /\ to \in Known /\ content' = content
        /\ from \in ParentsOf(content[to])
    BY <2>1 DEF Publish, AdvanceHead, HeadMoved
  <2>3. Ancestors(head)' = Ancestors(to)
    BY <2>2 DEF Ancestors, Edges, Known
  <2>4. Ancestors(head) \subseteq Ancestors(to)
    BY <2>2, ParentLine DEF RepoInv, TypeOK
  <2> QED BY <2>2, <2>3, <2>4, NoneAssumption DEF Known, Object
<1> QED BY <1>1, <1>2

\* The versions the history lists are ancestors of HEAD.
LEMMA VisibleLine ==
    ASSUME head \in CommitId, NEW b
    PROVE  Visible(b) \subseteq Ancestors(head)
<1> DEFINE S == Reach({head}, Edges({}))
<1>1. Closed(S, Edges({})) /\ head \in S /\ S \in SUBSET CommitId
  BY EdgesType, ReachClosed, ReachRoots, ReachType
<1>2. FirstEdges({b}) \subseteq Edges({})
  BY DEF FirstEdges, Edges, FirstParentOf, ParentsOf
<1>3. Closed(S, FirstEdges({b}))
  BY <1>1, <1>2 DEF Closed
<1> HIDE DEF S
<1> QED BY <1>1, <1>3, ReachLeast DEF Visible, Ancestors, S

-----------------------------------------------------------------------------
(* The coordinator is a client of the repository. *)

\* Every step of a machine is a step of the repository or leaves it alone.
LEMMA SimulationStep ==
    SyncInv /\ [SyncNext]_vars => [RepoNext]_repoVars
<1> SUFFICES ASSUME SyncInv, [SyncNext]_vars PROVE [RepoNext]_repoVars
  OBVIOUS
<1> USE DEF SyncInv
<1>1. ASSUME NEW d \in Client, StashBlob(d)
      PROVE  RepoNext
  <2>1. job[d].mine \in Blob
    BY <1>1 DEF StashBlob, DeviceInv, Blob
  <2> QED BY <1>1, <2>1 DEF StashBlob, RepoNext
<1>2. ASSUME NEW d \in Client, Upload(d)
      PROVE  RepoNext
  <2>1. job[d].todo \subseteq Blob
    BY DEF SyncTypeOK
  <2> QED BY <1>2, <2>1 DEF Upload, NextUp, RepoNext
<1>3. ASSUME NEW d \in Client, SendCommit(d)
      PROVE  RepoNext
  <2>1. Submit(d, job[d].id, job[d].commit)
    BY <1>3 DEF SendCommit, Submit, DeviceInv
  <2>2. job[d].id \in CommitId /\ job[d].commit \in Commit
    BY <1>3 DEF SendCommit, DeviceInv
  <2> QED BY <2>1, <2>2 DEF RepoNext
<1>4. ASSUME NEW d \in Client, MoveHead(d)
      PROVE  RepoNext
  <2>1. /\ job[d].id \in CommitId /\ job[d].commit \in Commit
        /\ content[job[d].id] = job[d].commit
        /\ Tree(job[d].commit) \subseteq acked[d] /\ job[d].id \in acked[d]
        /\ ExtendsHead(job[d])
    BY <1>4 DEF MoveHead, DeviceInv
  <2>2. job[d].id \in Known
    BY <2>1, NoneAssumption DEF Known
  <2>3. Publish(d, job[d].from, job[d].id)
    BY <1>4, <2>1, <2>2 DEF MoveHead, Publish, ExtendsHead
  <2>4. job[d].from \in CommitId \cup {None}
    BY DEF SyncTypeOK
  <2> QED BY <2>1, <2>3, <2>4 DEF RepoNext
<1>5. ASSUME NEW d \in Client, Prune(d)
      PROVE  RepoNext
  <2>1. sidecar[d].stash \in Snapshot \cup {None}
    BY DEF SyncTypeOK
  <2>2. {sidecar[d].stash} \ {None} \in {{}} \cup {{s} : s \in Snapshot}
    BY <2>1
  <2>3. Protected(d) \in Roots
    BY <2>2, ProtectedAssumption DEF Protected
  <2> QED BY <1>5, <2>3 DEF Prune, RepoNext
<1>6. ASSUME NEW d \in Client,
             MergeStops(d) \/ HeadRefused(d) \/ Record(d) \/ Crash(d) \/ FinishPrune(d)
      PROVE  RepoNext
  BY <1>6 DEF MergeStops, HeadRefused, Record, Crash, FinishPrune, RepoNext
<1>7. ASSUME NEW d \in Client,
             \/ StartPush(d) \/ StashNote(d) \/ MergeRemote(d) \/ Verify(d)
             \/ NotVerified(d) \/ SkipPrune(d) \/ Confirm(d) \/ Enroll(d)
             \/ DiscardStash(d)
      PROVE  UNCHANGED repoVars
  BY <1>7 DEF StartPush, StashNote, MergeRemote, Verify, NotVerified, SkipPrune,
     Confirm, Enroll, DiscardStash
<1>8. CASE Background
  BY <1>8 DEF Background, RepoNext
<1>9. CASE UNCHANGED vars
  BY <1>9 DEF vars
<1> QED
  BY <1>1, <1>2, <1>3, <1>4, <1>5, <1>6, <1>7, <1>8, <1>9 DEF SyncNext, PushStep

-----------------------------------------------------------------------------
(* Types. *)

Job == [seen : CommitId \cup {None}, from : CommitId \cup {None},
        mine : Snapshot \cup {None}, id : CommitId \cup {None},
        commit : Commit \cup {None}, todo : SUBSET Blob]

SidecarFile == [local_head : CommitId \cup {None}, verified_head : CommitId \cup {None},
                stash : Snapshot \cup {None}]

\* The parent lists the coordinator builds, and the parents they name.
LEMMA ParentLists ==
    ASSUME NEW p \in CommitId, NEW q \in CommitId
    PROVE  /\ {<<>>, <<p>>, <<p, q>>}
                 \subseteq UNION {[1..m -> CommitId] : m \in 0..MaxParents}
           /\ {<<p>>[i] : i \in DOMAIN <<p>>} = {p}
           /\ {<<p, q>>[i] : i \in DOMAIN <<p, q>>} = {p, q}
<1>1. <<>> \in [1..0 -> CommitId] /\ <<p>> \in [1..1 -> CommitId]
      /\ <<p, q>> \in [1..2 -> CommitId]
  OBVIOUS
<1>2. 0 \in 0..MaxParents /\ 1 \in 0..MaxParents /\ 2 \in 0..MaxParents
  BY MergeAssumption
<1> QED BY <1>1, <1>2

\* Planning a commit on at most two parents gives a well-formed push.
LEMMA PlanType ==
    ASSUME SyncTypeOK, NEW d \in Client, NEW j \in Job, NEW s \in Snapshot,
           NEW parents \in UNION {[1..m -> CommitId] : m \in 0..MaxParents},
           NEW from \in CommitId \cup {None}, Plan(d, j, s, parents, from)
    PROVE  /\ job' \in [Client -> Job]
           /\ pc' = [pc EXCEPT ![d] = "upload"]
           /\ job'[d].commit \in Commit
           /\ job'[d].commit.parents = parents
           /\ job'[d].todo = Tree(job'[d].commit)
           /\ job'[d].from = from
           /\ job'[d].id = j.id
           /\ \A e \in Client : e # d => job'[e] = job[e]
<1> DEFINE K(m, i) == [parents |-> parents, snapshot |-> s,
                       samples |-> m, metadata |-> i]
<1>1. PICK samples \in Manifest, metadata \in Info \cup {None} :
         job' = [job EXCEPT ![d] =
                   [seen |-> j.seen, mine |-> j.mine, id |-> j.id, from |-> from,
                    commit |-> K(samples, metadata),
                    todo |-> Tree(K(samples, metadata))]]
  BY DEF Plan
<1> DEFINE k == K(samples, metadata)
           jj == [seen |-> j.seen, mine |-> j.mine, id |-> j.id, from |-> from,
                  commit |-> k, todo |-> Tree(k)]
<1>3. k \in Commit
  BY DEF Commit
<1>4. Tree(k) \in SUBSET Blob
  BY <1>3, TreeType
<1>5. job' = [job EXCEPT ![d] = jj]
  BY <1>1
<1>6. k.parents = parents
  OBVIOUS
<1> HIDE DEF k, K
<1>7. jj \in Job
  BY <1>3, <1>4 DEF Job
<1>8. job \in [Client -> Job]
  BY DEF SyncTypeOK, Job
<1> QED BY <1>3, <1>5, <1>6, <1>7, <1>8 DEF Plan, Goto

\* The fresh hash a push starts with is a commit hash.
LEMMA UnusedType ==
    ASSUME Unused # {}
    PROVE  (CHOOSE c \in Unused : TRUE) \in CommitId
BY DEF Unused

\* Every step keeps the types of sidecars and pushes.
LEMMA SyncTypeStep ==
    SyncInv /\ [SyncNext]_vars => SyncTypeOK'
<1> SUFFICES ASSUME SyncInv, [SyncNext]_vars PROVE SyncTypeOK'
  OBVIOUS
<1> DEFINE SidecarType == sidecar \in [Client -> SidecarFile]
<1>1. TypeOK'
  BY SimulationStep, TypeStep DEF SyncInv, RepoInv
<1>2. /\ SidecarType /\ pc \in [Client -> Label] /\ job \in [Client -> Job]
      /\ \A d \in Client : DeviceInv(d)
  BY DEF SyncInv, SyncTypeOK, Job, SidecarFile
<1>3. head \in CommitId \cup {None} /\ Known \subseteq CommitId
  BY DEF SyncInv, RepoInv, TypeOK, Known
<1>4. NoJob \in Job
  BY DEF NoJob, Job
<1>5. ASSUME NEW d \in Client, StartPush(d)
      PROVE  SidecarType' /\ pc' \in [Client -> Label] /\ job' \in [Client -> Job]
  <2>1. PICK s \in Snapshot :
          LET local == sidecar[d].local_head
              j == [seen |-> head, mine |-> s, id |-> CHOOSE c \in Unused : TRUE,
                    from |-> None, commit |-> None, todo |-> {}]
          IN  \/ /\ head = local
                 /\ Plan(d, j, s, IF local = None THEN <<>> ELSE <<local>>, local)
              \/ /\ head # local
                 /\ local = None
                 /\ Plan(d, j, s, <<>>, None)
              \/ /\ head # local
                 /\ local # None
                 /\ head # None
                 /\ job' = [job EXCEPT ![d] = j]
                 /\ Goto(d, "stash")
    BY <1>5 DEF StartPush
  <2> DEFINE local == sidecar[d].local_head
             j == [seen |-> head, mine |-> s, id |-> CHOOSE c \in Unused : TRUE,
                   from |-> None, commit |-> None, todo |-> {}]
  <2>2. j \in Job
    BY <1>3, <1>5, UnusedType DEF Job, StartPush
  <2>3. local \in CommitId \cup {None}
    BY <1>2 DEF SidecarFile
  <2> HIDE DEF j, local
  <2>4. UNCHANGED sidecar
    BY <1>5 DEF StartPush
  <2>5. SyncTypeOK
    BY DEF SyncInv
  <2>6. CASE Plan(d, j, s, <<>>, None) \/ (local = None /\ Plan(d, j, s, <<>>, local))
    <3>1. <<>> \in UNION {[1..m -> CommitId] : m \in 0..MaxParents}
      <4>1. <<>> \in [1..0 -> CommitId] /\ 0 \in 0..MaxParents
        BY MergeAssumption
      <4> QED BY <4>1
    <3> QED BY <1>2, <2>2, <2>4, <2>5, <2>6, <3>1, PlanType DEF Label
  <2>7. CASE local # None /\ Plan(d, j, s, <<local>>, local)
    <3>1. <<local>> \in UNION {[1..m -> CommitId] : m \in 0..MaxParents}
      BY <2>3, <2>7, ParentLists
    <3> QED BY <1>2, <2>2, <2>3, <2>4, <2>5, <2>7, <3>1, PlanType DEF Label
  <2>8. CASE job' = [job EXCEPT ![d] = j] /\ Goto(d, "stash")
    BY <1>2, <2>2, <2>4, <2>8 DEF Goto, Label
  <2> QED BY <2>1, <2>6, <2>7, <2>8 DEF j, local
<1>6. ASSUME NEW d \in Client, MergeRemote(d)
      PROVE  SidecarType' /\ pc' \in [Client -> Label] /\ job' \in [Client -> Job]
  <2>1. /\ UNCHANGED sidecar
        /\ sidecar[d].local_head \in CommitId /\ job[d].seen \in CommitId
    BY <1>2, <1>3, <1>6, ReachType DEF MergeRemote, DeviceInv, Ancestors
  <2>2. <<sidecar[d].local_head, job[d].seen>>
           \in UNION {[1..m -> CommitId] : m \in 0..MaxParents}
    BY <2>1, ParentLists
  <2>3. job[d] \in Job /\ SyncTypeOK
    BY <1>2 DEF SyncInv
  <2> QED BY <1>2, <1>6, <2>1, <2>2, <2>3, PlanType DEF MergeRemote, Label
<1>7. ASSUME NEW d \in Client,
             \/ StashBlob(d) \/ SendCommit(d) \/ MoveHead(d) \/ Prune(d) \/ Verify(d)
             \/ SkipPrune(d) \/ FinishPrune(d)
      PROVE  SidecarType' /\ pc' \in [Client -> Label] /\ job' \in [Client -> Job]
  BY <1>2, <1>7 DEF StashBlob, SendCommit, MoveHead, Prune, Verify, SkipPrune,
     FinishPrune, Goto, Label
<1>8. ASSUME NEW d \in Client,
             MergeStops(d) \/ HeadRefused(d) \/ Crash(d) \/ NotVerified(d)
      PROVE  SidecarType' /\ pc' \in [Client -> Label] /\ job' \in [Client -> Job]
  BY <1>2, <1>4, <1>8 DEF MergeStops, HeadRefused, Crash, NotVerified, Return, Goto, Label
<1>13. ASSUME NEW d \in Client, StashNote(d) \/ DiscardStash(d) \/ Confirm(d)
       PROVE  SidecarType' /\ pc' \in [Client -> Label] /\ job' \in [Client -> Job]
  <2>1. /\ job[d].mine \in Snapshot \cup {None} /\ job[d].id \in CommitId \cup {None}
        /\ sidecar[d] \in SidecarFile
    BY <1>2 DEF Job
  <2>2. /\ [sidecar[d] EXCEPT !.stash = job[d].mine] \in SidecarFile
        /\ [sidecar[d] EXCEPT !.stash = None] \in SidecarFile
        /\ [sidecar[d] EXCEPT !.verified_head = job[d].id] \in SidecarFile
    BY <2>1 DEF SidecarFile
  <2>3. SidecarType'
    BY <1>2, <1>13, <2>2 DEF StashNote, DiscardStash, Confirm
  <2> QED BY <1>2, <1>4, <1>13, <2>3 DEF StashNote, DiscardStash, Confirm, Return, Goto,
             Label
<1>9. ASSUME NEW d \in Client, Upload(d)
      PROVE  SidecarType' /\ pc' \in [Client -> Label] /\ job' \in [Client -> Job]
  <2>1. PICK b \in NextUp(job[d].todo) :
           /\ job' = [job EXCEPT ![d].todo = @ \ {b}]
           /\ Goto(d, IF job[d].todo = {b} THEN "commit" ELSE "upload")
           /\ UNCHANGED sidecar
    BY <1>9 DEF Upload
  <2>2. job[d] \in Job /\ job[d].todo \ {b} \in SUBSET Blob
    BY <1>2 DEF Job
  <2>3. [job[d] EXCEPT !.todo = @ \ {b}] \in Job
    BY <2>2 DEF Job
  <2>4. job' \in [Client -> Job]
    BY <1>2, <2>1, <2>3
  <2> QED BY <1>2, <2>1, <2>4 DEF Goto, Label
<1>10. ASSUME NEW d \in Client, Record(d) \/ Enroll(d)
       PROVE  SidecarType' /\ pc' \in [Client -> Label] /\ job' \in [Client -> Job]
  <2>1. job[d].id \in CommitId \cup {None} /\ Visible(floor) \subseteq CommitId
    BY <1>2, ReachType DEF Job, Visible
  <2>2. sidecar[d].verified_head \in CommitId \cup {None}
    BY <1>2 DEF SidecarFile
  <2> QED BY <1>2, <1>10, <2>1, <2>2 DEF Record, Enroll, Goto, Label, SidecarFile
<1>11. ASSUME Background \/ UNCHANGED vars
       PROVE  SidecarType' /\ pc' \in [Client -> Label] /\ job' \in [Client -> Job]
  BY <1>2, <1>11 DEF Background, vars, syncVars
<1>12. SidecarType' /\ pc' \in [Client -> Label] /\ job' \in [Client -> Job]
  BY <1>5, <1>6, <1>7, <1>8, <1>9, <1>10, <1>11, <1>13 DEF SyncNext, PushStep
<1> QED BY <1>1, <1>12 DEF SyncTypeOK, Job, SidecarFile

-----------------------------------------------------------------------------
(* The invariant of the machines. *)

\* The versions a machine recorded are commits that exist, and their ancestors
\* never change.
LEMMA OwnLine ==
    ASSUME SyncInv, [RepoNext]_repoVars, NEW d \in Client,
           sidecar[d].local_head # None
    PROVE  /\ sidecar[d].local_head \in Known
           /\ Reach({sidecar[d].local_head}, Edges({})')
                 = Reach({sidecar[d].local_head}, Edges({}))
<1>1. RepoInv /\ DeviceInv(d) /\ head \in CommitId \cup {None}
  BY DEF SyncInv, RepoInv, TypeOK
<1>2. head # None /\ sidecar[d].local_head \in Ancestors(head)
  BY <1>1 DEF DeviceInv, Recorded
<1>3. head \in Known
  BY <1>1, <1>2 DEF RepoInv, HeadWhole, Whole
<1>4. sidecar[d].local_head \in Known
  BY <1>1, <1>2, <1>3, AncestorsKnown
<1> QED BY <1>1, <1>4, AncestorsStable

\* What a machine has recorded stays true while its sidecar says the same.
LEMMA RecordedStays ==
    ASSUME SyncInv, [RepoNext]_repoVars, NEW d \in Client,
           sidecar'[d].local_head = sidecar[d].local_head,
           sidecar'[d].verified_head = sidecar[d].verified_head
    PROVE  Recorded(d)'
<1>1. RepoInv /\ Recorded(d)
  BY DEF SyncInv, DeviceInv
<1>2. head # None => head' # None /\ Ancestors(head) \subseteq Ancestors(head)'
  BY <1>1, LineGrows
<1>3. sidecar[d].local_head # None =>
         Ancestors(sidecar[d].local_head)' = Ancestors(sidecar[d].local_head)
  BY OwnLine DEF Ancestors
<1> QED BY <1>1, <1>2, <1>3 DEF Recorded

\* The ancestors of a commit that a machine's push refers to never change.
LEMMA JobLine ==
    ASSUME SyncInv, [RepoNext]_repoVars, NEW c, c \in Known
    PROVE  c \in Known' /\ Reach({c}, Edges({})') = Reach({c}, Edges({}))
BY AncestorsStable, StepEffect DEF SyncInv

\* A machine that does not move keeps its part of the invariant, whatever the
\* others and retention do to the repository meanwhile.
LEMMA OtherDevice ==
    ASSUME SyncInv, [RepoNext]_repoVars, NEW e \in Client,
           pc'[e] = pc[e], job'[e] = job[e], sidecar'[e] = sidecar[e],
           acked'[e] = acked[e]
    PROVE  DeviceInv(e)'
<1>1. RepoInv /\ DeviceInv(e)
  BY DEF SyncInv
<1>2. /\ \A c \in Known : content'[c] = content[c] /\ c \in Known'
      /\ Known \subseteq Known'
  BY <1>1, StepEffect
<1>3. head # None => head' # None /\ Ancestors(head) \subseteq Ancestors(head)'
  BY <1>1, LineGrows
<1>4. job[e].seen \in Known => Ancestors(job[e].seen)' = Ancestors(job[e].seen)
  BY JobLine DEF Ancestors
<1>5. pc[e] = "advance" => job[e].id \in Known
  BY <1>1, NoneAssumption DEF DeviceInv, Known
<1>6. pc[e] = "record" => job[e].id \in Known
  <2>1. pc[e] = "record" => head \in Known /\ job[e].id \in Ancestors(head)
    BY <1>1 DEF DeviceInv, RepoInv, HeadWhole, Whole
  <2> QED BY <1>1, <2>1, AncestorsKnown
<1>7. job[e].id \in Known => Ancestors(job[e].id)' = Ancestors(job[e].id)
  BY JobLine DEF Ancestors
<1>8. Recorded(e)'
  BY RecordedStays
<1> QED BY <1>1, <1>2, <1>3, <1>4, <1>5, <1>6, <1>7, <1>8 DEF DeviceInv

\* A machine between pushes has only what it recorded to account for; one past
\* the save of its sidecar has also recorded the version it pushed.
LEMMA QuietDevice ==
    ASSUME SyncInv, [RepoNext]_repoVars, NEW d \in Client,
           sidecar'[d].local_head = sidecar[d].local_head,
           sidecar'[d].verified_head = sidecar[d].verified_head,
           \/ pc'[d] = "idle"
           \/ /\ {pc[d], pc'[d]} \subseteq {"verify", "prune", "sweep", "confirm"}
              /\ job' = job
    PROVE  DeviceInv(d)'
<1>1. Recorded(d)' /\ DeviceInv(d)
  BY RecordedStays DEF SyncInv
<1> QED BY <1>1 DEF DeviceInv

\* A planned push: its commit is well formed, sits on known parents and on
\* the HEAD it replaces, and everything of it is still to be stored.
LEMMA PlannedDevice ==
    ASSUME SyncInv, NEW d \in Client, NEW j \in Job, j.id \in CommitId,
           NEW s \in Snapshot,
           NEW parents \in UNION {[1..m -> CommitId] : m \in 0..MaxParents},
           NEW from \in CommitId \cup {None}, Plan(d, j, s, parents, from),
           {parents[i] : i \in DOMAIN parents} \subseteq Known,
           IF from = None THEN {parents[i] : i \in DOMAIN parents} = {}
                          ELSE from \in {parents[i] : i \in DOMAIN parents},
           sidecar[d].local_head \in {parents[i] : i \in DOMAIN parents} \cup {None},
           UNCHANGED <<repoVars, sidecar>>
    PROVE  DeviceInv(d)'
<1>1. /\ pc'[d] = "upload"
      /\ job'[d].commit \in Commit
      /\ job'[d].commit.parents = parents
      /\ job'[d].todo = Tree(job'[d].commit)
      /\ job'[d].from = from
      /\ job'[d].id = j.id
  BY PlanType DEF SyncInv, SyncTypeOK
<1>2. Known' = Known /\ head' = head /\ Ancestors(head)' = Ancestors(head)
  BY DEF repoVars, Known, Ancestors, Edges
<1>3. ParentsOf(job'[d].commit) = {parents[i] : i \in DOMAIN parents}
  BY <1>1 DEF ParentsOf
<1>4. Recorded(d)'
  BY RecordedStays
<1> QED BY <1>1, <1>2, <1>3, <1>4 DEF SyncInv, DeviceInv, ExtendsHead

\* Starting a push.
LEMMA StartDevice ==
    ASSUME SyncInv, NEW d \in Client, StartPush(d)
    PROVE  DeviceInv(d)'
<1> DEFINE local == sidecar[d].local_head
           J(s) == [seen |-> head, mine |-> s, id |-> CHOOSE c \in Unused : TRUE,
                    from |-> None, commit |-> None, todo |-> {}]
<1>1. PICK s \in Snapshot :
         \/ /\ head = local
            /\ Plan(d, J(s), s, IF local = None THEN <<>> ELSE <<local>>, local)
         \/ /\ head # local
            /\ local = None
            /\ Plan(d, J(s), s, <<>>, None)
         \/ /\ head # local
            /\ local # None
            /\ head # None
            /\ job' = [job EXCEPT ![d] = J(s)]
            /\ Goto(d, "stash")
  BY DEF StartPush
<1>2. UNCHANGED <<repoVars, sidecar>> /\ Unused # {}
  BY DEF StartPush
<1>3. J(s) \in Job /\ J(s).id \in CommitId
  BY <1>2, UnusedType DEF Job, SyncInv, RepoInv, TypeOK
<1>4. RepoInv /\ DeviceInv(d) /\ local \in CommitId \cup {None}
  BY DEF SyncInv, SyncTypeOK
<1>5. head # None => head \in Known
  BY <1>4 DEF RepoInv, HeadWhole, Whole
<1>6. local # None => local \in Known
  <2>1. local # None => head # None /\ local \in Ancestors(head)
    BY <1>4 DEF DeviceInv, Recorded
  <2> QED BY <1>4, <1>5, <2>1, AncestorsKnown
<1>7. CASE local = None /\ (Plan(d, J(s), s, <<>>, None) \/ Plan(d, J(s), s, <<>>, local))
  <2>1. <<>> \in UNION {[1..m -> CommitId] : m \in 0..MaxParents}
    <3>1. <<>> \in [1..0 -> CommitId] /\ 0 \in 0..MaxParents
      BY MergeAssumption
    <3> QED BY <3>1
  <2>2. {<<>>[i] : i \in DOMAIN <<>>} = {}
    OBVIOUS
  <2>3. sidecar[d].local_head = None
    BY <1>7
  <2> HIDE DEF J, local
  <2> QED BY <1>2, <1>3, <1>7, <2>1, <2>2, <2>3, PlannedDevice
<1>8. CASE local # None /\ Plan(d, J(s), s, <<local>>, local)
  <2> DEFINE ps == <<local>>
  <2>1. /\ ps \in UNION {[1..m -> CommitId] : m \in 0..MaxParents}
        /\ {ps[i] : i \in DOMAIN ps} = {local}
    BY <1>4, <1>8, ParentLists
  <2>2. local \in Known
    BY <1>6, <1>8
  <2>3. Plan(d, J(s), s, ps, local) /\ local # None /\ SyncInv
        /\ sidecar[d].local_head = local
    BY <1>8
  <2> HIDE DEF J, local, ps
  <2> QED BY <1>2, <1>3, <1>4, <2>1, <2>2, <2>3, PlannedDevice
<1>9. CASE local # None /\ head # None /\ job' = [job EXCEPT ![d] = J(s)]
           /\ Goto(d, "stash")
  <2>1. /\ pc'[d] = "stash" /\ sidecar'[d] = sidecar[d]
        /\ job'[d].seen = head /\ job'[d].mine = s /\ job'[d].id = J(s).id
    BY <1>2, <1>9 DEF Goto, SyncInv, SyncTypeOK
  <2>2. Known' = Known /\ head' = head
        /\ Ancestors(head)' = Ancestors(head)
    BY <1>2 DEF repoVars, Known, Ancestors, Edges
  <2>3. Ancestors(job[d].seen)' = Ancestors(head)
    BY <1>2, <2>1 DEF repoVars, Known, Ancestors, Edges
  <2>4. local \in Ancestors(head) /\ head \in Known /\ J(s).id \in CommitId
    BY <1>3, <1>4, <1>5, <1>9 DEF DeviceInv, Recorded
  <2>5. Recorded(d)'
    BY <1>2, <2>1, RecordedStays
  <2> HIDE DEF J
  <2> QED BY <1>9, <2>1, <2>2, <2>3, <2>4, <2>5 DEF DeviceInv
<1> QED BY <1>1, <1>7, <1>8, <1>9

\* Merging: both parents are known and the replaced HEAD is one of them.
LEMMA MergeDevice ==
    ASSUME SyncInv, NEW d \in Client, MergeRemote(d)
    PROVE  DeviceInv(d)'
<1> DEFINE p == sidecar[d].local_head
           q == job[d].seen
<1>1. /\ q \in Known /\ p \in Ancestors(q) /\ job[d].id \in CommitId
      /\ RepoInv /\ job[d] \in Job
  BY DEF SyncInv, SyncTypeOK, MergeRemote, DeviceInv, Job
<1>2. p \in Known /\ p \in CommitId /\ q \in CommitId
  BY <1>1, AncestorsKnown DEF Known
<1>3. /\ <<p, q>> \in UNION {[1..m -> CommitId] : m \in 0..MaxParents}
      /\ {<<p, q>>[i] : i \in DOMAIN <<p, q>>} = {p, q}
  BY <1>2, ParentLists
<1>4. q # None
  BY <1>2, NoneAssumption DEF Object
<1>5. PICK merged \in Snapshot : Plan(d, job[d], merged, <<p, q>>, q)
  BY DEF MergeRemote
<1>6. UNCHANGED <<repoVars, sidecar>> /\ sidecar[d].local_head = p
  BY DEF MergeRemote
<1> HIDE DEF p, q
<1> QED BY <1>1, <1>2, <1>3, <1>4, <1>5, <1>6, PlannedDevice

\* The stash is stored, then recorded; neither touches what the merge will use.
LEMMA StashDevice ==
    ASSUME SyncInv, [RepoNext]_repoVars, NEW d \in Client,
           StashBlob(d) \/ StashNote(d)
    PROVE  DeviceInv(d)'
<1>1. RepoInv /\ DeviceInv(d)
  BY DEF SyncInv
<1>2. /\ job' = job /\ pc'[d] \in {"note", "merge"}
      /\ sidecar'[d].local_head = sidecar[d].local_head
      /\ sidecar'[d].verified_head = sidecar[d].verified_head
      /\ pc[d] \in {"stash", "note"}
  BY DEF StashBlob, StashNote, Goto, SyncInv, SyncTypeOK
<1>3. Recorded(d)'
  BY <1>2, RecordedStays
<1>4. job[d].seen \in Known
  BY <1>1, <1>2 DEF DeviceInv
<1>5. job[d].seen \in Known' /\ Ancestors(job[d].seen)' = Ancestors(job[d].seen)
  BY <1>2, <1>4, JobLine DEF Ancestors
<1> QED BY <1>1, <1>2, <1>3, <1>4, <1>5 DEF DeviceInv

\* An upload moves one blob from the blobs to store to the stored ones.
LEMMA UploadDevice ==
    ASSUME SyncInv, [RepoNext]_repoVars, NEW d \in Client, Upload(d)
    PROVE  DeviceInv(d)'
<1>1. RepoInv /\ DeviceInv(d) /\ job \in [Client -> Job] /\ pc \in [Client -> Label]
      /\ acked \in [Client -> SUBSET Object]
  BY DEF SyncInv, SyncTypeOK, Job, TypeOK
<1>2. PICK b \in NextUp(job[d].todo) :
         /\ acked' = [acked EXCEPT ![d] = @ \cup {b}]
         /\ job' = [job EXCEPT ![d].todo = @ \ {b}]
         /\ pc' = [pc EXCEPT ![d] = IF job[d].todo = {b} THEN "commit" ELSE "upload"]
         /\ pc[d] = "upload" /\ UNCHANGED <<sidecar, content>>
  BY DEF Upload, PutBlob, GetBlob, Acknowledge, Goto
<1>3. /\ job'[d].commit = job[d].commit /\ job'[d].id = job[d].id
      /\ job'[d].from = job[d].from /\ job'[d].todo = job[d].todo \ {b}
  BY <1>1, <1>2 DEF Job
<1>4. acked'[d] = acked[d] \cup {b}
  BY <1>1, <1>2
<1>5. Recorded(d)'
  BY <1>2, RecordedStays
<1>6. Known' = Known
  BY <1>2 DEF Known
<1>7. Tree(job[d].commit) \subseteq acked'[d] \cup job'[d].todo
  BY <1>1, <1>2, <1>3, <1>4 DEF DeviceInv
<1>8. CASE job[d].todo = {b}
  <2>1. pc'[d] = "commit" /\ job'[d].todo = {}
    BY <1>1, <1>2, <1>3, <1>8
  <2>2. Tree(job[d].commit) \subseteq acked'[d]
    BY <1>7, <2>1
  <2> QED BY <1>1, <1>2, <1>3, <1>5, <1>6, <2>1, <2>2
          DEF DeviceInv, ExtendsHead
<1>9. CASE job[d].todo # {b}
  <2>1. pc'[d] = "upload"
    BY <1>1, <1>2, <1>9
  <2> QED BY <1>1, <1>2, <1>3, <1>5, <1>6, <1>7, <2>1 DEF DeviceInv, ExtendsHead
<1> QED BY <1>8, <1>9

\* Storing the commit: its hash now names what the push planned.
LEMMA CommitDevice ==
    ASSUME SyncInv, [RepoNext]_repoVars, NEW d \in Client, SendCommit(d)
    PROVE  DeviceInv(d)'
<1>1. RepoInv /\ DeviceInv(d) /\ pc \in [Client -> Label]
      /\ acked \in [Client -> SUBSET Object] /\ content \in [CommitId -> Commit \cup {None}]
  BY DEF SyncInv, SyncTypeOK, TypeOK
<1>2. /\ pc[d] = "commit" /\ pc'[d] = "advance" /\ UNCHANGED <<sidecar, job>>
      /\ content' = [content EXCEPT ![job[d].id] = job[d].commit]
      /\ acked' = [acked EXCEPT ![d] = @ \cup {job[d].id}]
  BY <1>1 DEF SendCommit, PutCommit, Acknowledge, Goto
<1>3. Recorded(d)'
  BY <1>2, RecordedStays
<1>4. Known \subseteq Known'
  BY <1>1, StepEffect
<1>5. job[d].id \in CommitId
  BY <1>1, <1>2 DEF DeviceInv
<1> QED BY <1>1, <1>2, <1>3, <1>4, <1>5 DEF DeviceInv, ExtendsHead

\* Moving HEAD: the push has landed and is in HEAD's line.
LEMMA HeadDevice ==
    ASSUME SyncInv, [RepoNext]_repoVars, NEW d \in Client, MoveHead(d)
    PROVE  DeviceInv(d)'
<1>1. RepoInv /\ DeviceInv(d) /\ pc \in [Client -> Label]
  BY DEF SyncInv, SyncTypeOK
<1>2. /\ pc[d] = "advance" /\ pc'[d] = "record" /\ UNCHANGED <<sidecar, job, content>>
      /\ head' = job[d].id
  BY <1>1 DEF MoveHead, AdvanceHead, Goto
<1>3. Recorded(d)'
  BY <1>2, RecordedStays
<1>4. job[d].id \in Known /\ job[d].id # None
      /\ content[job[d].id] = job[d].commit
      /\ sidecar[d].local_head \in ParentsOf(job[d].commit) \cup {None}
  BY <1>1, <1>2, NoneAssumption DEF DeviceInv, Known, Object
<1>5. job[d].id \in Ancestors(job[d].id)
  BY <1>1, <1>4, AncestorsKnown
<1>6. sidecar[d].local_head \in Ancestors(job[d].id) \cup {None}
  <2>1. CASE sidecar[d].local_head = None
    BY <2>1
  <2>2. CASE sidecar[d].local_head # None
    <3>1. sidecar[d].local_head \in Known
      BY <2>2, OwnLine
    <3>2. Ancestors(sidecar[d].local_head) \subseteq Ancestors(job[d].id)
      BY <1>1, <1>4, <2>2, <3>1, ParentLine DEF RepoInv, Known
    <3> QED BY <1>1, <3>1, <3>2, AncestorsKnown
  <2> QED BY <2>1, <2>2
<1>7. Ancestors(job[d].id)' = Ancestors(job[d].id) /\ Ancestors(head)' = Ancestors(job[d].id)
  BY <1>2 DEF Ancestors, Edges, Known
<1> QED BY <1>1, <1>2, <1>3, <1>4, <1>5, <1>6, <1>7 DEF DeviceInv

\* Ancestry is transitive: a version in the line of a version of c's line is
\* in c's line.
LEMMA AncestorsTransitive ==
    ASSUME RepoInv, NEW c \in CommitId, NEW a \in Ancestors(c)
    PROVE  Ancestors(a) \subseteq Ancestors(c)
<1>1. Closed(Ancestors(c), Edges({})) /\ Ancestors(c) \in SUBSET CommitId
  BY EdgesType, ReachClosed, ReachType DEF Ancestors
<1> QED BY <1>1, ReachLeast DEF Ancestors

\* Saving the sidecar, of a landed push or of a restored version.
LEMMA RecordDevice ==
    ASSUME SyncInv, [RepoNext]_repoVars, NEW d \in Client, Record(d) \/ Enroll(d)
    PROVE  DeviceInv(d)'
<1>1. RepoInv /\ DeviceInv(d) /\ pc \in [Client -> Label]
      /\ DOMAIN sidecar = Client /\ head \in CommitId \cup {None}
  BY DEF SyncInv, SyncTypeOK, RepoInv, TypeOK
<1>2. head' = head /\ content' = content
  BY DEF Record, Enroll, Forget, repoVars
<1>3. Ancestors(head)' = Ancestors(head)
  BY <1>2 DEF Ancestors, Edges, Known
<1>4. head # None => head \in Known
  BY <1>1 DEF RepoInv, HeadWhole, Whole
<1>5. CASE Record(d)
  <2>1. /\ pc'[d] = "verify" /\ sidecar'[d].local_head = job[d].id
        /\ sidecar'[d].verified_head = sidecar[d].verified_head
        /\ pc[d] = "record" /\ job' = job
    BY <1>1, <1>5 DEF Record, Goto
  <2>2. /\ head # None /\ job[d].id \in Ancestors(head)
        /\ sidecar[d].local_head \in Ancestors(job[d].id) \cup {None}
        /\ sidecar[d].verified_head # None =>
             /\ sidecar[d].local_head # None
             /\ sidecar[d].verified_head \in Ancestors(sidecar[d].local_head)
    BY <1>1, <2>1 DEF DeviceInv, Recorded
  <2>3. job[d].id \in CommitId /\ job[d].id # None
    BY <1>1, <1>4, <2>2, AncestorsKnown, NoneAssumption DEF Known, Object
  <2>4. sidecar[d].verified_head # None =>
           sidecar[d].verified_head \in Ancestors(job[d].id)
    BY <1>1, <2>2, <2>3, AncestorsTransitive
  <2>5. Ancestors(sidecar[d].local_head)' = Ancestors(job[d].id)
    BY <1>2, <2>1 DEF Ancestors, Edges, Known
  <2> QED BY <1>2, <1>3, <2>1, <2>2, <2>3, <2>4, <2>5 DEF DeviceInv, Recorded
<1>6. CASE Enroll(d)
  <2>1. PICK c \in Visible(floor) :
           sidecar' = [sidecar EXCEPT ![d] =
                         [local_head |-> c, verified_head |-> c, stash |-> None]]
    BY <1>6 DEF Enroll
  <2>2. head # None /\ head \in CommitId
    BY <1>1, <2>1 DEF Visible
  <2>3. c \in Ancestors(head)
    BY <2>1, <2>2, VisibleLine
  <2>4. pc'[d] = "idle" /\ sidecar'[d].local_head = c /\ sidecar'[d].verified_head = c
    BY <1>1, <1>6, <2>1 DEF Enroll
  <2>5. c \in Known /\ c \in Ancestors(c) /\ c # None
    BY <1>1, <1>4, <2>2, <2>3, AncestorsKnown, NoneAssumption DEF Known, Object
  <2>6. Ancestors(sidecar[d].local_head)' = Ancestors(c)
    BY <1>2, <2>4 DEF Ancestors, Edges, Known
  <2> QED BY <1>2, <1>3, <2>2, <2>3, <2>4, <2>5, <2>6 DEF DeviceInv, Recorded
<1> QED BY <1>5, <1>6

\* Marking the backup verified: it is the version the machine recorded.
LEMMA ConfirmDevice ==
    ASSUME SyncInv, [RepoNext]_repoVars, NEW d \in Client, Confirm(d)
    PROVE  DeviceInv(d)'
<1>1. RepoInv /\ DeviceInv(d) /\ pc \in [Client -> Label]
      /\ sidecar \in [Client -> SidecarFile]
  BY DEF SyncInv, SyncTypeOK, SidecarFile
<1>2. job[d].id \in CommitId /\ job[d].id = sidecar[d].local_head /\ job[d].id # None
  BY <1>1, NoneAssumption DEF Confirm, DeviceInv, Object
<1>3. /\ pc'[d] = "idle" /\ sidecar'[d].local_head = sidecar[d].local_head
      /\ sidecar'[d].verified_head \in {sidecar[d].verified_head, job[d].id}
      /\ UNCHANGED repoVars
  BY <1>1 DEF Confirm, Return, Goto, SidecarFile
<1>4. CASE sidecar'[d].verified_head = sidecar[d].verified_head
  BY <1>3, <1>4, QuietDevice
<1>5. CASE sidecar'[d].verified_head = job[d].id
  <2>1. Ancestors(head)' = Ancestors(head) /\ head' = head
        /\ Ancestors(sidecar[d].local_head)' = Ancestors(job[d].id)
    BY <1>2, <1>3 DEF repoVars, Ancestors, Edges, Known
  <2>2. job[d].id \in Known
    BY <1>2, OwnLine
  <2>3. job[d].id \in Ancestors(job[d].id)
    BY <1>1, <2>2, AncestorsKnown
  <2>4. head # None /\ sidecar[d].local_head \in Ancestors(head)
    BY <1>1, <1>2 DEF DeviceInv, Recorded
  <2> QED BY <1>2, <1>3, <1>5, <2>1, <2>3, <2>4 DEF DeviceInv, Recorded
<1> QED BY <1>3, <1>4, <1>5

-----------------------------------------------------------------------------
(* The theorems. *)

\* A step of one machine leaves the push, the sidecar and the acknowledged
\* objects of every other machine alone; Background those of all.
LEMMA OneMachineMoves ==
    ASSUME SyncInv, NEW d \in Client, NEW e \in Client, e # d,
           StartPush(d) \/ PushStep(d) \/ Prune(d) \/ Crash(d)
           \/ Enroll(d) \/ DiscardStash(d)
    PROVE  pc'[e] = pc[e] /\ job'[e] = job[e] /\ sidecar'[e] = sidecar[e]
           /\ acked'[e] = acked[e]
<1>1. pc \in [Client -> Label] /\ DOMAIN job = Client /\ DOMAIN sidecar = Client
      /\ DOMAIN acked = Client
  BY DEF SyncInv, SyncTypeOK, TypeOK
<1>2. CASE StartPush(d)
  BY <1>1, <1>2 DEF StartPush, Plan, Goto, repoVars
<1>3. CASE MergeRemote(d)
  BY <1>1, <1>3 DEF MergeRemote, Plan, Goto, repoVars
<1>4. CASE StashBlob(d) \/ StashNote(d) \/ MergeStops(d) \/ Upload(d) \/ SendCommit(d)
  BY <1>1, <1>4 DEF StashBlob, StashNote, MergeStops, Upload, SendCommit, Goto, Return,
     repoVars, PutBlob, GetBlob, PutCommit, Acknowledge, Forget
<1>5. CASE \/ MoveHead(d) \/ HeadRefused(d) \/ Record(d) \/ Verify(d)
           \/ NotVerified(d) \/ Prune(d)
  BY <1>1, <1>5 DEF MoveHead, HeadRefused, Record, Verify, NotVerified, Prune, Goto,
     Return, repoVars, AdvanceHead, Forget, PruneBegin
<1>6. CASE \/ SkipPrune(d) \/ FinishPrune(d) \/ Confirm(d) \/ Crash(d) \/ Enroll(d)
           \/ DiscardStash(d)
  BY <1>1, <1>6 DEF SkipPrune, FinishPrune, Confirm, Crash, Enroll, DiscardStash, Goto,
     Return, repoVars, PruneEnd, Forget
<1> QED BY <1>2, <1>3, <1>4, <1>5, <1>6 DEF PushStep

\* The machine that moves keeps its part of the invariant.
LEMMA MovingDevice ==
    ASSUME SyncInv, [RepoNext]_repoVars, NEW d \in Client,
           StartPush(d) \/ PushStep(d) \/ Prune(d) \/ Crash(d)
           \/ Enroll(d) \/ DiscardStash(d)
    PROVE  DeviceInv(d)'
<1>1. pc \in [Client -> Label] /\ DOMAIN sidecar = Client
  BY DEF SyncInv, SyncTypeOK
<1>2. CASE MergeStops(d) \/ HeadRefused(d) \/ Crash(d) \/ NotVerified(d)
  <2>1. sidecar' = sidecar /\ pc'[d] = "idle"
    BY <1>1, <1>2 DEF MergeStops, HeadRefused, Crash, NotVerified, Return, Goto
  <2> QED BY <2>1, QuietDevice
<1>3. CASE Verify(d) \/ Prune(d) \/ SkipPrune(d) \/ FinishPrune(d)
  <2>1. /\ sidecar' = sidecar /\ job' = job
        /\ {pc[d], pc'[d]} \subseteq {"verify", "prune", "sweep", "confirm"}
    BY <1>1, <1>3 DEF Verify, Prune, SkipPrune, FinishPrune, Goto
  <2> QED BY <2>1, QuietDevice
<1>4. CASE DiscardStash(d)
  <2>1. sidecar'[d].local_head = sidecar[d].local_head /\ pc'[d] = "idle"
        /\ sidecar'[d].verified_head = sidecar[d].verified_head
    BY <1>1, <1>4 DEF DiscardStash, SyncInv, SyncTypeOK
  <2> QED BY <2>1, QuietDevice
<1> QED BY <1>2, <1>3, <1>4, StartDevice, MergeDevice, StashDevice, UploadDevice,
           CommitDevice, HeadDevice, RecordDevice, ConfirmDevice DEF PushStep

\* SyncInv is inductive.
LEMMA SyncStep == SyncInv /\ [SyncNext]_vars => SyncInv'
<1> SUFFICES ASSUME SyncInv, [SyncNext]_vars PROVE SyncInv'
  OBVIOUS
<1>1. [RepoNext]_repoVars
  BY SimulationStep
<1>2. RepoInv' /\ SyncTypeOK'
  BY <1>1, RepoStep, SyncTypeStep DEF SyncInv
<1>3. ASSUME NEW e \in Client PROVE DeviceInv(e)'
  <2>1. CASE Background \/ UNCHANGED vars
    <3>1. UNCHANGED syncVars /\ acked' = acked
      BY <2>1 DEF Background, vars, repoVars, GcBlob, GcCommit, GcRemove, GcCommits, Tick
    <3> QED BY <1>1, <3>1, OtherDevice DEF syncVars
  <2>2. ASSUME NEW d \in Client,
               StartPush(d) \/ PushStep(d) \/ Prune(d) \/ Crash(d)
           \/ Enroll(d) \/ DiscardStash(d)
        PROVE  DeviceInv(e)'
    <3>1. CASE e = d
      BY <1>1, <2>2, <3>1, MovingDevice
    <3>2. CASE e # d
      BY <1>1, <2>2, <3>2, OneMachineMoves, OtherDevice
    <3> QED BY <3>1, <3>2
  <2> QED BY <2>1, <2>2 DEF SyncNext
<1> QED BY <1>2, <1>3 DEF SyncInv

\* The invariant holds at the start.
LEMMA SyncStart == SyncInit => SyncInv
<1> SUFFICES ASSUME SyncInit PROVE SyncInv
  OBVIOUS
<1>1. RepoInv
  BY RepoStart DEF SyncInit
<1>2. NoJob \in Job
  BY DEF NoJob, Job
<1>3. SyncTypeOK
  BY <1>1, <1>2 DEF SyncInit, SyncTypeOK, RepoInv, Job, Label, Default
<1>4. ASSUME NEW d \in Client PROVE DeviceInv(d)
  BY DEF SyncInit, DeviceInv, Recorded, Default
<1> QED BY <1>1, <1>3, <1>4 DEF SyncInv

\* The inductive invariant of pushing machines, with every machine count,
\* history length and interleaving.
THEOREM SyncInvariant == SyncSpec => []SyncInv
<1> QED BY SyncStart, SyncStep, PTL DEF SyncSpec

\* Pushing machines keep the contract of the repository's clients: the push
\* coordinator with the desktop flow implements Repository.
THEOREM SyncImplementsRepository == SyncSpec => RepoSpec
<1>1. SyncInit => RepoInit
  BY DEF SyncInit
<1> QED BY <1>1, SimulationStep, SyncInvariant, PTL DEF SyncSpec, RepoSpec

\* HEAD can always be restored while machines push, merge, crash and prune.
THEOREM SyncHeadWhole == SyncSpec => []HeadWhole
<1> QED BY SyncImplementsRepository, HeadAlwaysWhole, PTL

\* No retention pass of one machine damages a version that stays listed while
\* other machines push, merge and crash.
THEOREM SyncRetentionKeeps == SyncSpec => KeptVersionsStay
<1> QED BY SyncImplementsRepository, RetentionKeeps, PTL

\* Pushing machines keep the promise of History: the current version is whole,
\* and no version that was ever current drops out of its ancestry.
THEOREM SyncKeepsPromise == SyncSpec => KeepsPromise
<1> QED BY SyncImplementsRepository, PromiseKept, PTL

\* No recorded backup ever leaves the ancestry of HEAD.
THEOREM BackupsStay == SyncSpec => []NoBackupLost
<1>1. SyncInv => NoBackupLost
  BY DEF SyncInv, DeviceInv, Recorded, NoBackupLost
<1> QED BY <1>1, SyncInvariant, PTL

\* A merge always has a true common ancestor as its base.
THEOREM MergeBase == SyncSpec => []MergeBaseIsAncestor
<1>1. SyncInv => MergeBaseIsAncestor
  BY DEF SyncInv, DeviceInv, MergeBaseIsAncestor
<1> QED BY <1>1, SyncInvariant, PTL

\* A push that landed stays in HEAD's line until its sidecar is saved.
THEOREM LandedStays == SyncSpec => []LandedIsInLine
<1>1. SyncInv => LandedIsInLine
  BY DEF SyncInv, DeviceInv, LandedIsInLine
<1> QED BY <1>1, SyncInvariant, PTL

\* The version a machine calls verified is in the line of its own backups.
THEOREM VerifiedStays == SyncSpec => []VerifiedIsInLine
<1>1. SyncInv => VerifiedIsInLine
  BY DEF SyncInv, DeviceInv, Recorded, VerifiedIsInLine
<1> QED BY <1>1, SyncInvariant, PTL
=============================================================================
