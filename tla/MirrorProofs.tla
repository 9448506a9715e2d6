---------------------------- MODULE MirrorProofs ----------------------------
(***************************************************************************)
(* Proofs about the mirrors, for any providers, any number of commits and  *)
(* any number of failed calls and crashes: what a provider advertises it   *)
(* can serve, and a commit some mirror missed stays queued.                *)
(***************************************************************************)
EXTENDS Mirror, TLAPS

-----------------------------------------------------------------------------
\* Membership in a queue.

\* Appending adds one commit to a queue: what a push queues is found there.
LEMMA InAppend ==
    ASSUME NEW S, NEW s \in Seq(S), NEW e \in S, NEW x
    PROVE  Contains(Append(s, e), x) <=> Contains(s, x) \/ x = e
<1>1. Append(s, e) \in Seq(S) /\ Len(Append(s, e)) = Len(s) + 1 /\ Len(s) \in Nat
  OBVIOUS
<1>2. \A i \in 1..Len(s) : Append(s, e)[i] = s[i]
  OBVIOUS
<1>3. Append(s, e)[Len(s) + 1] = e
  OBVIOUS
<1>4. \A i \in 1..Len(Append(s, e)) : i \in 1..Len(s) \/ i = Len(s) + 1
  BY <1>1
<1>5. ASSUME Contains(Append(s, e), x) PROVE Contains(s, x) \/ x = e
  BY <1>2, <1>3, <1>4, <1>5 DEF Contains
<1>6. ASSUME Contains(s, x) PROVE Contains(Append(s, e), x)
  BY <1>1, <1>2, <1>6 DEF Contains
<1>7. ASSUME x = e PROVE Contains(Append(s, e), x)
  BY <1>1, <1>3, <1>7 DEF Contains
<1> QED BY <1>5, <1>6, <1>7

\* Taking the head off a queue loses that commit only.
LEMMA InTail ==
    ASSUME NEW S, NEW s \in Seq(S), s # <<>>, NEW x, Contains(s, x)
    PROVE  x = Head(s) \/ Contains(Tail(s), x)
<1>1. PICK i \in 1..Len(s) : s[i] = x
  BY DEF Contains
<1>2. CASE i = 1
  BY <1>1, <1>2
<1>3. CASE i # 1
  <2>1. i - 1 \in 1..Len(Tail(s)) /\ Tail(s)[i - 1] = s[i]
    BY <1>1, <1>3
  <2> QED BY <1>1, <2>1 DEF Contains
<1> QED BY <1>2, <1>3

-----------------------------------------------------------------------------
\* Calls to one provider.

\* No provider loses a commit.
Growing ==
    \A n \in Provider, d \in Commit :
        "commit" \in stored[n][d] => "commit" \in stored'[n][d]

\* What the calls to a provider keep of the stored objects.
StoreOK ==
    /\ stored \in [Provider -> [Commit -> SUBSET Everything]]
    /\ head \in [Provider -> 0..MaxCommit]
    /\ Servable

\* A delivery sends samples before the manifest, the tree before the commit and
\* the commit before HEAD, so each provider can serve what it has.
LEMMA DeliversKeeps ==
    ASSUME StoreOK, NEW m \in Provider, NEW c \in Commit,
           NEW blobs \in {Tree, Tree \ {"snapshot"}}, m \notin Server => blobs = Tree,
           Delivers(m, c, blobs)
    PROVE  StoreOK' /\ Growing /\ "commit" \in stored'[m][c] /\ faults' = faults
<1> DEFINE new == stored[m][c] \cup blobs \cup {"commit"}
<1>1. new \in SUBSET Everything /\ stored[m][c] \subseteq new /\ "commit" \in new
      /\ "sample" \in new
  BY DEF StoreOK, Everything, Tree
<1>2. Tree \subseteq new
  BY DEF Delivers, Accepts
<1>3. stored' = [stored EXCEPT ![m][c] = new]
  BY DEF Delivers
<1>4. /\ stored' \in [Provider -> [Commit -> SUBSET Everything]]
      /\ stored'[m][c] = new
      /\ \A n \in Provider, d \in Commit : <<n, d>> # <<m, c>> => stored'[n][d] = stored[n][d]
  <2> HIDE DEF new
  <2> QED BY <1>1, <1>3 DEF StoreOK
<1>5. Growing
  BY <1>1, <1>4 DEF Growing
<1>6. /\ head' \in [Provider -> 0..MaxCommit]
      /\ \A n \in Provider : head'[n] = head[n] \/ (n = m /\ head'[n] = c)
  BY DEF Delivers, AdvanceHead, StoreOK, Commit
<1>7. Servable'
  <2> HIDE DEF new
  <2>1. ASSUME NEW n \in Provider, NEW d \in Commit
        PROVE  /\ "manifest" \in stored'[n][d] => "sample" \in stored'[n][d]
               /\ "commit" \in stored'[n][d] => Tree \subseteq stored'[n][d]
    <3>1. CASE n = m /\ d = c
      BY <1>1, <1>2, <1>4, <3>1
    <3>2. CASE <<n, d>> # <<m, c>>
      BY <1>4, <3>2 DEF StoreOK, Servable
    <3> QED BY <3>1, <3>2
  <2>2. ASSUME NEW n \in Provider, head'[n] # 0 PROVE "commit" \in stored'[n][head'[n]]
    BY <1>1, <1>4, <1>5, <1>6, <2>2 DEF StoreOK, Servable, Growing, Commit
  <2> QED BY <2>1, <2>2 DEF Servable
<1> QED BY <1>1, <1>4, <1>5, <1>6, <1>7 DEF StoreOK, Delivers

\* What is stored before a call fails.
Partial == {Prefix(0), Prefix(1), Prefix(2), Prefix(3), Tree \ {"snapshot"}}

\* Whatever was sent before a call failed is part of a tree, without a manifest
\* whose sample is missing.
LEMMA PartialIsSound ==
    ASSUME NEW blobs \in Partial
    PROVE  /\ blobs \in SUBSET Tree
           /\ "manifest" \in blobs => "sample" \in blobs
<1>1. Prefix(0) = {}
  BY DEF Prefix
<1>2. Prefix(1) = {"snapshot"}
  BY DEF Prefix, Order
<1>3. Prefix(2) = {"snapshot", "sample"}
  BY DEF Prefix, Order
<1>4. Prefix(3) = {"snapshot", "sample", "manifest"}
  BY DEF Prefix, Order
<1> QED BY <1>1, <1>2, <1>3, <1>4 DEF Partial, Tree

\* A failed delivery leaves the provider with something it can serve.
LEMMA FailsKeeps ==
    ASSUME StoreOK, faults \in Nat, NEW m \in Provider, NEW c \in Commit,
           NEW blobs \in Partial, NEW refused, Fails(m, c, blobs, refused)
    PROVE  StoreOK' /\ Growing /\ faults' \in Nat
<1> DEFINE new == stored[m][c] \cup blobs
<1>1. new \in SUBSET Everything /\ stored[m][c] \subseteq new /\ "commit" \notin blobs
  BY PartialIsSound DEF StoreOK, Everything, Tree
<1>2. /\ "manifest" \in new => "sample" \in new
      /\ "commit" \in new => Tree \subseteq new
  BY <1>1, PartialIsSound DEF StoreOK, Servable
<1>3. stored' = [stored EXCEPT ![m][c] = new]
  BY DEF Fails
<1>4. /\ stored' \in [Provider -> [Commit -> SUBSET Everything]]
      /\ stored'[m][c] = new
      /\ \A n \in Provider, d \in Commit : <<n, d>> # <<m, c>> => stored'[n][d] = stored[n][d]
  <2> HIDE DEF new
  <2> QED BY <1>1, <1>3 DEF StoreOK
<1>5. Growing
  BY <1>1, <1>4 DEF Growing
<1>6. head' = head /\ faults' \in Nat
  BY DEF Fails, Fault
<1>7. Servable'
  <2> HIDE DEF new
  <2>1. ASSUME NEW n \in Provider, NEW d \in Commit
        PROVE  /\ "manifest" \in stored'[n][d] => "sample" \in stored'[n][d]
               /\ "commit" \in stored'[n][d] => Tree \subseteq stored'[n][d]
    <3>1. CASE n = m /\ d = c
      BY <1>1, <1>2, <1>4, <3>1
    <3>2. CASE <<n, d>> # <<m, c>>
      BY <1>4, <3>2 DEF StoreOK, Servable
    <3> QED BY <3>1, <3>2
  <2>2. ASSUME NEW n \in Provider, head'[n] # 0 PROVE "commit" \in stored'[n][head'[n]]
    BY <1>5, <1>6, <2>2 DEF StoreOK, Servable, Growing, Commit
  <2> QED BY <2>1, <2>2 DEF Servable
<1> QED BY <1>4, <1>5, <1>6, <1>7 DEF StoreOK

-----------------------------------------------------------------------------
\* The steps of a push.

\* Commits stored meanwhile leave what is accounted for as it was.
LEMMA GrowingKeeps ==
    ASSUME MirrorTypeOK, Growing, UNCHANGED <<queue, done, overlapped>>,
           UndeliveredIsQueued
    PROVE  UndeliveredIsQueued' /\ \A c \in Commit : Everywhere(c) => Everywhere(c)'
BY DEF MirrorTypeOK, Growing, UndeliveredIsQueued, Everywhere

\* push stores the commit at the primary and sets out for the mirrors.
LEMMA PushCommitKeeps ==
    ASSUME MirrorInv, PushCommit
    PROVE  MirrorInv'
<1> DEFINE c == made + 1
           new == Everything \ (IF c \in WithInfo THEN {} ELSE {"info"})
<1>1. c \in Commit /\ c # 0 /\ Primary \in Provider
  BY MirrorAssumption DEF MirrorInv, MirrorTypeOK, PushCommit, Commit
<1>2. new \in SUBSET Everything /\ Tree \cup {"commit"} \subseteq new
  BY DEF Everything, Tree
<1>3. /\ stored' = [stored EXCEPT ![Primary][c] = new]
      /\ head' = [head EXCEPT ![Primary] = c]
      /\ push' = [commit |-> c, todo |-> Provider \ {Primary}, failed |-> FALSE]
      /\ made' = c /\ UNCHANGED <<queue, drain, done, faults>>
      /\ overlapped' = (overlapped \/ drain.running)
  BY DEF PushCommit
<1> HIDE DEF new
<1>4. /\ stored' \in [Provider -> [Commit -> SUBSET Everything]]
      /\ stored'[Primary][c] = new
      /\ \A n \in Provider, d \in Commit :
            <<n, d>> # <<Primary, c>> => stored'[n][d] = stored[n][d]
  BY <1>1, <1>2, <1>3 DEF MirrorInv, MirrorTypeOK
<1>5. Growing
  BY <1>2, <1>4 DEF Growing
<1>6. /\ head' \in [Provider -> 0..MaxCommit]
      /\ \A n \in Provider : head'[n] = head[n] \/ (n = Primary /\ head'[n] = c)
  BY <1>1, <1>3 DEF MirrorInv, MirrorTypeOK, Commit
<1>7. MirrorTypeOK'
  <2>1. push' \in [commit : 0..MaxCommit, todo : SUBSET Provider, failed : BOOLEAN]
        /\ push'.commit # 0
    BY <1>1, <1>3 DEF Commit
  <2> QED BY <1>1, <1>3, <1>4, <1>6, <2>1 DEF MirrorInv, MirrorTypeOK, Commit
<1>8. Servable'
  <2>1. ASSUME NEW n \in Provider, NEW d \in Commit
        PROVE  /\ "manifest" \in stored'[n][d] => "sample" \in stored'[n][d]
               /\ "commit" \in stored'[n][d] => Tree \subseteq stored'[n][d]
    <3>1. CASE n = Primary /\ d = c
      BY <1>2, <1>4, <3>1 DEF Tree
    <3>2. CASE <<n, d>> # <<Primary, c>>
      BY <1>4, <3>2 DEF MirrorInv, Servable
    <3> QED BY <3>1, <3>2
  <2>2. ASSUME NEW n \in Provider, head'[n] # 0 PROVE "commit" \in stored'[n][head'[n]]
    <3>1. CASE head'[n] = head[n]
      BY <1>5, <2>2, <3>1 DEF MirrorInv, MirrorTypeOK, Servable, Growing, Commit
    <3>2. CASE n = Primary /\ head'[n] = c
      BY <1>2, <1>4, <3>2
    <3> QED BY <1>6, <3>1, <3>2
  <2> QED BY <2>1, <2>2 DEF Servable
<1>9. overlapped' \/ (Accounted' /\ ~overlapped /\ overlapped' = overlapped)
  <2> SUFFICES ASSUME ~overlapped' PROVE Accounted' /\ ~overlapped /\ overlapped' = overlapped
    OBVIOUS
  <2>1. ~overlapped /\ ~drain.running /\ overlapped' = overlapped
    BY <1>3 DEF MirrorInv, MirrorTypeOK
  <2>2. drain.providers = {}
    BY <2>1 DEF MirrorInv, MirrorTypeOK
  <2>3. \A m \in Provider \ push'.todo : "commit" \in stored'[m][push'.commit]
    BY <1>2, <1>3, <1>4
  <2> QED BY <1>3, <2>1, <2>2, <2>3 DEF Accounted
<1>10. UndeliveredIsQueued'
  <2>1. CASE overlapped'
    BY <2>1 DEF UndeliveredIsQueued
  <2>2. CASE ~overlapped'
    BY <1>3, <1>5, <1>9, <2>2, GrowingKeeps DEF MirrorInv
  <2> QED BY <2>1, <2>2
<1> QED BY <1>7, <1>8, <1>9, <1>10 DEF MirrorInv

\* A delivery to a mirror, successful or not, is one step of the fan-out.
LEMMA PushedKeeps ==
    ASSUME MirrorInv, NEW m \in push.todo, StoreOK', Growing, faults' \in Nat,
           UNCHANGED <<made, queue, drain, done, overlapped>>,
           \/ push' = [push EXCEPT !.todo = @ \ {m}] /\ "commit" \in stored'[m][push.commit]
           \/ push' = [push EXCEPT !.todo = @ \ {m}, !.failed = TRUE]
    PROVE  MirrorInv'
<1>1. push # NoPush /\ push.commit \in Commit /\ push.commit # 0
  BY DEF MirrorInv, MirrorTypeOK, NoPush, Commit
<1>2. /\ push' \in [commit : 0..MaxCommit, todo : SUBSET Provider, failed : BOOLEAN]
      /\ push'.commit = push.commit /\ push'.todo = push.todo \ {m}
      /\ push'.failed \/ (push'.failed = push.failed /\ "commit" \in stored'[m][push.commit])
  BY DEF MirrorInv, MirrorTypeOK
<1>3. MirrorTypeOK' /\ Servable'
  BY <1>1, <1>2 DEF MirrorInv, MirrorTypeOK, StoreOK
<1>4. overlapped \/ Accounted'
  <2> SUFFICES ASSUME ~overlapped PROVE Accounted'
    OBVIOUS
  <2>1. Accounted
    BY DEF MirrorInv
  <2>2. ~drain.running /\ drain.providers = {}
    BY <1>1, <2>1 DEF Accounted, MirrorInv, MirrorTypeOK
  <2>3. ASSUME ~push'.failed, NEW n \in Provider \ push'.todo
        PROVE  "commit" \in stored'[n][push'.commit]
    <3>1. CASE n = m
      BY <1>2, <2>3, <3>1
    <3>2. CASE n # m
      BY <1>1, <1>2, <2>1, <2>3, <3>2 DEF Accounted, Growing
    <3> QED BY <3>1, <3>2
  <2> QED BY <2>2, <2>3 DEF Accounted
<1> QED BY <1>3, <1>4, GrowingKeeps DEF MirrorInv

\* The fan-out to one mirror delivers, or is remembered as failed.
LEMMA PushToMirrorKeeps ==
    ASSUME MirrorInv, NEW m \in Provider, PushToMirror(m) \/ PushToMirrorFails(m)
    PROVE  MirrorInv'
<1>1. m \in push.todo /\ UNCHANGED <<made, queue, drain, done, overlapped>>
  BY DEF PushToMirror, PushToMirrorFails
<1>2. push.commit \in Commit /\ StoreOK /\ faults \in Nat
  BY <1>1 DEF MirrorInv, MirrorTypeOK, NoPush, Commit, StoreOK
<1>3. CASE PushToMirror(m)
  <2>1. StoreOK' /\ Growing /\ "commit" \in stored'[m][push.commit] /\ faults' = faults
    BY <1>2, <1>3, DeliversKeeps DEF PushToMirror
  <2> QED BY <1>1, <1>2, <1>3, <2>1, PushedKeeps DEF PushToMirror
<1>4. CASE PushToMirrorFails(m)
  <2>1. PICK k \in 0..3 : Fails(m, push.commit, Prefix(k),
                k = 3 /\ ~Accepts(m, push.commit, stored[m][push.commit] \cup Tree))
    BY <1>4 DEF PushToMirrorFails
  <2>2. Prefix(k) \in Partial
    <3>1. k = 0 \/ k = 1 \/ k = 2 \/ k = 3
      BY <2>1
    <3> QED BY <3>1 DEF Partial
  <2>3. StoreOK' /\ Growing /\ faults' \in Nat
    BY <1>2, <2>1, <2>2, FailsKeeps
  <2> QED BY <1>1, <1>4, <2>3, PushedKeeps DEF PushToMirrorFails
<1> QED BY <1>3, <1>4

\* A push returns when no mirror is left, and queues its commit if one failed.
LEMMA PushDoneKeeps ==
    ASSUME MirrorInv, PushDone
    PROVE  MirrorInv'
<1>1. /\ push # NoPush /\ push.todo = {} /\ push' = NoPush
      /\ done' = done \cup {push.commit}
      /\ UNCHANGED <<made, stored, head, drain, overlapped, faults>>
  BY DEF PushDone
<1>2. push.commit \in Commit
  BY <1>1 DEF MirrorInv, MirrorTypeOK, Commit
<1>3. queue' \in Seq(Commit) /\ \A c \in Commit : Contains(queue, c) => Contains(queue', c)
  BY <1>2, InAppend DEF PushDone, MirrorInv, MirrorTypeOK
<1>4. push.failed => Contains(queue', push.commit)
  BY <1>2, InAppend DEF PushDone, MirrorInv, MirrorTypeOK
<1>5. MirrorTypeOK' /\ Servable'
  <2>1. NoPush \in [commit : 0..MaxCommit, todo : SUBSET Provider, failed : BOOLEAN]
    BY MirrorAssumption DEF NoPush
  <2> QED BY <1>1, <1>2, <1>3, <2>1 DEF MirrorInv, MirrorTypeOK, Servable
<1>6. overlapped \/ (Accounted' /\ UndeliveredIsQueued')
  <2> SUFFICES ASSUME ~overlapped PROVE Accounted' /\ UndeliveredIsQueued'
    OBVIOUS
  <2>1. Accounted
    BY DEF MirrorInv
  <2>2. ~drain.running /\ drain.providers = {}
    BY <1>1, <2>1 DEF Accounted, MirrorInv, MirrorTypeOK
  <2>3. ASSUME NEW c \in done', NEW m \in Provider
        PROVE  "commit" \in stored[m][c] \/ Contains(queue', c)
    <3>1. CASE c \in done
      BY <1>3, <3>1 DEF MirrorInv, MirrorTypeOK, UndeliveredIsQueued
    <3>2. CASE c = push.commit
      BY <1>1, <1>4, <2>1, <3>2 DEF Accounted, MirrorInv, MirrorTypeOK
    <3> QED BY <1>1, <3>1, <3>2
  <2> QED BY <1>1, <2>2, <2>3 DEF Accounted, UndeliveredIsQueued
<1> QED BY <1>1, <1>5, <1>6 DEF MirrorInv, UndeliveredIsQueued

-----------------------------------------------------------------------------
\* The steps of a drain.

\* drain_pending_pushes loads the queue; a push under way counts as overlap.
LEMMA DrainStartKeeps ==
    ASSUME MirrorInv, DrainStart
    PROVE  MirrorInv'
<1>1. /\ drain' = [running |-> TRUE, todo |-> queue, still |-> <<>>, drained |-> 0,
                   providers |-> {}, ok |-> TRUE]
      /\ overlapped' = (overlapped \/ push # NoPush)
      /\ UNCHANGED <<made, stored, head, queue, push, done, faults>>
  BY DEF DrainStart, NoDrain
<1>2. MirrorTypeOK' /\ Servable'
  <2>1. <<>> \in Seq(Commit) /\ queue \in Seq(Commit)
    BY DEF MirrorInv, MirrorTypeOK
  <2>2. drain' \in [running : BOOLEAN, todo : Seq(Commit), still : Seq(Commit),
                    drained : Nat, providers : SUBSET Provider, ok : BOOLEAN]
        /\ drain'.providers = {}
    BY <1>1, <2>1
  <2> QED BY <1>1, <2>2 DEF MirrorInv, MirrorTypeOK, Servable
<1>3. overlapped' \/ (Accounted' /\ UndeliveredIsQueued')
  <2> SUFFICES ASSUME ~overlapped' PROVE Accounted' /\ UndeliveredIsQueued'
    OBVIOUS
  <2>1. ~overlapped /\ push = NoPush
    BY <1>1
  <2>2. UndeliveredIsQueued'
    BY <1>1, <2>1 DEF MirrorInv, UndeliveredIsQueued
  <2> QED BY <1>1, <2>1, <2>2 DEF Accounted
<1> QED BY <1>2, <1>3 DEF MirrorInv, UndeliveredIsQueued

DrainRecord == [running : BOOLEAN, todo : Seq(Commit), still : Seq(Commit),
                drained : Nat, providers : SUBSET Provider, ok : BOOLEAN]

\* A drain takes up the next commit and sets out for all providers.
LEMMA DrainFetchKeeps ==
    ASSUME MirrorInv, DrainFetch
    PROVE  MirrorInv'
<1>1. /\ drain.running /\ drain.todo # <<>> /\ drain.providers = {}
      /\ drain' = [drain EXCEPT !.providers = Provider, !.ok = TRUE]
      /\ UNCHANGED <<made, stored, head, queue, push, done, overlapped, faults>>
  BY DEF DrainFetch, Seeking
<1>2. /\ drain' \in DrainRecord
      /\ drain'.running = drain.running /\ drain'.todo = drain.todo
      /\ drain'.still = drain.still /\ drain'.providers = Provider
  BY <1>1 DEF MirrorInv, MirrorTypeOK, DrainRecord
<1>3. MirrorTypeOK' /\ Servable'
  BY <1>1, <1>2 DEF MirrorInv, MirrorTypeOK, Servable, DrainRecord
<1>4. overlapped \/ Accounted'
  BY <1>1, <1>2 DEF MirrorInv, Accounted, Everywhere
<1> QED BY <1>1, <1>3, <1>4 DEF MirrorInv, UndeliveredIsQueued

\* The first commit of a drain leaves it: it stays queued or is everywhere.
LEMMA DrainedOneKeeps ==
    ASSUME MirrorInv, drain.running, drain.todo # <<>>, StoreOK', Growing, faults' \in Nat,
           UNCHANGED <<made, queue, push, done, overlapped>>,
           drain' \in DrainRecord, drain'.running, drain'.providers = {},
           drain'.todo = Tail(drain.todo),
           \/ drain'.still = Append(drain.still, Head(drain.todo))
           \/ /\ drain'.still = drain.still
              /\ ~overlapped => \A m \in Provider : "commit" \in stored'[m][Head(drain.todo)]
    PROVE  MirrorInv'
<1>1. MirrorTypeOK' /\ Servable'
  BY DEF MirrorInv, MirrorTypeOK, StoreOK, DrainRecord
<1>2. UndeliveredIsQueued' /\ \A c \in Commit : Everywhere(c) => Everywhere(c)'
  BY GrowingKeeps DEF MirrorInv
<1>3. overlapped \/ Accounted'
  <2> SUFFICES ASSUME ~overlapped PROVE Accounted'
    OBVIOUS
  <2>1. Accounted /\ push = NoPush
    BY DEF MirrorInv, Accounted
  <2>2. drain.todo \in Seq(Commit) /\ drain.still \in Seq(Commit) /\ Head(drain.todo) \in Commit
    BY DEF MirrorInv, MirrorTypeOK
  <2>a. \A c \in Commit : Contains(Append(drain.still, Head(drain.todo)), c)
                            <=> Contains(drain.still, c) \/ c = Head(drain.todo)
    BY <2>2, InAppend
  <2>3. ASSUME NEW c \in Commit, Contains(queue, c)
        PROVE  Contains(drain'.todo, c) \/ Contains(drain'.still, c) \/ Everywhere(c)'
    <3>1. CASE Contains(drain.still, c)
      BY <2>a, <2>2, <3>1
    <3>2. CASE Everywhere(c)
      BY <1>2, <3>2
    <3>3. CASE Contains(drain.todo, c)
      <4>1. Contains(Tail(drain.todo), c) \/ c = Head(drain.todo)
        BY <2>2, <3>3, InTail
      <4>2. CASE c = Head(drain.todo)
        BY <2>2, <2>a, <4>2 DEF Everywhere
      <4> QED BY <4>1, <4>2
    <3> QED BY <2>1, <2>3, <3>1, <3>2, <3>3 DEF Accounted
  <2> QED BY <2>1, <2>3 DEF Accounted
<1> QED BY <1>1, <1>2, <1>3 DEF MirrorInv

\* A commit that cannot be fetched for the drain stays in hand.
LEMMA DrainFetchFailsKeeps ==
    ASSUME MirrorInv, DrainFetchFails
    PROVE  MirrorInv'
<1>1. /\ drain.running /\ drain.todo # <<>> /\ drain.providers = {}
      /\ drain' = [drain EXCEPT !.todo = Tail(drain.todo),
                                !.still = Append(drain.still, Head(drain.todo))]
      /\ UNCHANGED <<made, stored, head, queue, push, done, overlapped>>
  BY DEF DrainFetchFails, Seeking
<1>2. faults' \in Nat
  BY DEF DrainFetchFails, Fault, MirrorInv, MirrorTypeOK
<1>3. Head(drain.todo) \in Commit /\ Tail(drain.todo) \in Seq(Commit)
      /\ Append(drain.still, Head(drain.todo)) \in Seq(Commit)
  BY <1>1 DEF MirrorInv, MirrorTypeOK
<1>4. /\ drain' \in DrainRecord /\ drain'.running /\ drain'.providers = {}
      /\ drain'.todo = Tail(drain.todo)
      /\ drain'.still = Append(drain.still, Head(drain.todo))
  BY <1>1, <1>3 DEF MirrorInv, MirrorTypeOK, DrainRecord
<1>5. StoreOK' /\ Growing
  BY <1>1 DEF MirrorInv, MirrorTypeOK, StoreOK, Growing, Servable
<1> QED BY <1>1, <1>2, <1>4, <1>5, DrainedOneKeeps

\* A drain drops a commit only after its last provider has it.
LEMMA AfterProviderKeeps ==
    ASSUME MirrorInv, NEW m \in drain.providers, StoreOK', Growing, faults' \in Nat,
           UNCHANGED <<made, queue, push, done, overlapped>>,
           NEW ok \in BOOLEAN, AfterProvider(m, ok),
           ok => "commit" \in stored'[m][Head(drain.todo)]
    PROVE  MirrorInv'
<1>1. drain.running /\ drain.todo # <<>> /\ drain.providers # {}
  BY DEF MirrorInv, MirrorTypeOK
<1>2. Head(drain.todo) \in Commit /\ Tail(drain.todo) \in Seq(Commit)
      /\ Append(drain.still, Head(drain.todo)) \in Seq(Commit)
  BY <1>1 DEF MirrorInv, MirrorTypeOK
<1>3. drain \in DrainRecord
  BY DEF MirrorInv, MirrorTypeOK, DrainRecord
<1> DEFINE rest == drain.providers \ {m}
           all == drain.ok /\ ok
<1>4. all \in BOOLEAN /\ rest \in SUBSET Provider
  BY <1>3 DEF DrainRecord
<1>5. ASSUME all, ~overlapped, NEW n \in Provider \ rest
      PROVE  "commit" \in stored'[n][Head(drain.todo)]
  <2>1. CASE n = m
    BY <1>5, <2>1
  <2>2. CASE n # m
    BY <1>1, <1>2, <1>5, <2>2 DEF MirrorInv, Accounted, Growing
  <2> QED BY <2>1, <2>2
<1>6. CASE rest # {}
  <2>1. drain' = [drain EXCEPT !.providers = rest, !.ok = all]
    BY <1>6 DEF AfterProvider
  <2> HIDE DEF rest, all
  <2>2. /\ drain' \in DrainRecord
        /\ drain'.running = drain.running /\ drain'.todo = drain.todo
        /\ drain'.still = drain.still /\ drain'.providers = rest /\ drain'.ok = all
    BY <1>3, <1>4, <2>1 DEF DrainRecord
  <2>3. MirrorTypeOK' /\ Servable'
    BY <1>1, <2>2 DEF MirrorInv, MirrorTypeOK, StoreOK, DrainRecord
  <2>4. UndeliveredIsQueued' /\ \A c \in Commit : Everywhere(c) => Everywhere(c)'
    BY GrowingKeeps DEF MirrorInv
  <2>5. overlapped \/ Accounted'
    <3> SUFFICES ASSUME ~overlapped PROVE Accounted'
      OBVIOUS
    <3>1. push = NoPush /\ \A c \in Commit :
             Contains(queue, c) => \/ Contains(drain.todo, c) \/ Contains(drain.still, c)
                                   \/ Everywhere(c)
      BY <1>1 DEF MirrorInv, Accounted
    <3> QED BY <1>5, <2>2, <2>4, <3>1 DEF Accounted
  <2> QED BY <2>3, <2>4, <2>5 DEF MirrorInv
<1>7. CASE rest = {} /\ all
  <2>1. drain' = [drain EXCEPT !.providers = {}, !.todo = Tail(drain.todo),
                               !.drained = drain.drained + 1, !.still = drain.still]
    BY <1>7 DEF AfterProvider
  <2> HIDE DEF rest, all
  <2>2. /\ drain' \in DrainRecord /\ drain'.running /\ drain'.providers = {}
        /\ drain'.todo = Tail(drain.todo) /\ drain'.still = drain.still
    <3>1. drain.drained + 1 \in Nat
      BY <1>3 DEF DrainRecord
    <3> QED BY <1>1, <1>2, <1>3, <2>1, <3>1 DEF DrainRecord
  <2> QED BY <1>1, <1>5, <1>7, <2>2, DrainedOneKeeps
<1>8. CASE rest = {} /\ ~all
  <2>1. drain' = [drain EXCEPT !.providers = {}, !.todo = Tail(drain.todo),
                               !.drained = drain.drained,
                               !.still = Append(drain.still, Head(drain.todo))]
    BY <1>8 DEF AfterProvider
  <2> HIDE DEF rest, all
  <2>2. /\ drain' \in DrainRecord /\ drain'.running /\ drain'.providers = {}
        /\ drain'.todo = Tail(drain.todo)
        /\ drain'.still = Append(drain.still, Head(drain.todo))
    BY <1>1, <1>2, <1>3, <2>1 DEF DrainRecord
  <2> QED BY <1>1, <2>2, DrainedOneKeeps
<1> QED BY <1>6, <1>7, <1>8

\* A drain's delivery to one provider succeeds or fails.
LEMMA DrainToKeeps ==
    ASSUME MirrorInv, NEW m \in Provider, DrainTo(m) \/ DrainToFails(m)
    PROVE  MirrorInv'
<1>1. m \in drain.providers /\ UNCHANGED <<made, queue, push, done, overlapped>>
  BY DEF DrainTo, DrainToFails
<1>2. Head(drain.todo) \in Commit /\ StoreOK /\ faults \in Nat
  <2>1. drain.todo # <<>>
    BY <1>1 DEF MirrorInv, MirrorTypeOK
  <2> QED BY <2>1 DEF MirrorInv, MirrorTypeOK, StoreOK
<1>3. CASE DrainTo(m)
  <2>1. PICK blobs \in IF m \in Server THEN {Tree, Tree \ {"snapshot"}} ELSE {Tree} :
           Delivers(m, Head(drain.todo), blobs)
    BY <1>3 DEF DrainTo
  <2>2. blobs \in {Tree, Tree \ {"snapshot"}} /\ (m \notin Server => blobs = Tree)
    BY <2>1
  <2>3. StoreOK' /\ Growing /\ "commit" \in stored'[m][Head(drain.todo)] /\ faults' = faults
    BY <1>2, <2>1, <2>2, DeliversKeeps
  <2>4. AfterProvider(m, TRUE)
    BY <1>3 DEF DrainTo
  <2> QED BY <1>1, <1>2, <2>3, <2>4, AfterProviderKeeps
<1>4. CASE DrainToFails(m)
  <2>1. \E blobs \in Partial, refused \in BOOLEAN : Fails(m, Head(drain.todo), blobs, refused)
    <3>1. ASSUME NEW k \in 0..3,
                 Fails(m, Head(drain.todo), Prefix(k),
                   k = 3 /\ ~Accepts(m, Head(drain.todo), stored[m][Head(drain.todo)] \cup Tree))
          PROVE  \E blobs \in Partial, refused \in BOOLEAN :
                    Fails(m, Head(drain.todo), blobs, refused)
      <4>1. k = 0 \/ k = 1 \/ k = 2 \/ k = 3
        BY <3>1
      <4>2. Prefix(k) \in Partial
        BY <4>1 DEF Partial
      <4>3. (k = 3 /\ ~Accepts(m, Head(drain.todo), stored[m][Head(drain.todo)] \cup Tree))
              \in BOOLEAN
        OBVIOUS
      <4> QED BY <3>1, <4>2, <4>3
    <3>2. ASSUME Fails(m, Head(drain.todo), Tree \ {"snapshot"}, FALSE)
          PROVE  \E blobs \in Partial, refused \in BOOLEAN :
                    Fails(m, Head(drain.todo), blobs, refused)
      <4>1. Tree \ {"snapshot"} \in Partial
        BY DEF Partial
      <4> QED BY <3>2, <4>1
    <3> QED BY <1>4, <3>1, <3>2 DEF DrainToFails
  <2>2. StoreOK' /\ Growing /\ faults' \in Nat
    BY <1>2, <2>1, FailsKeeps
  <2>3. AfterProvider(m, FALSE)
    BY <1>4 DEF DrainToFails
  <2> QED BY <1>1, <2>2, <2>3, AfterProviderKeeps
<1> QED BY <1>3, <1>4

\* The drain ends, or the application stops: nothing is in hand any more.
LEMMA NoDrainKeeps ==
    ASSUME MirrorInv, drain' = NoDrain, faults' \in Nat, push' \in {push, NoPush},
           UNCHANGED <<made, stored, head, done, overlapped>>, queue' \in Seq(Commit),
           ~overlapped => \A c \in Commit :
              Contains(queue, c) => Contains(queue', c) \/ Everywhere(c)
    PROVE  MirrorInv'
<1>1. /\ NoPush \in [commit : 0..MaxCommit, todo : SUBSET Provider, failed : BOOLEAN]
      /\ NoDrain \in DrainRecord /\ NoDrain.providers = {} /\ ~NoDrain.running
  <2>1. <<>> \in Seq(Commit)
    OBVIOUS
  <2> QED BY <2>1, MirrorAssumption DEF NoPush, NoDrain, DrainRecord
<1>2. MirrorTypeOK' /\ Servable'
  BY <1>1 DEF MirrorInv, MirrorTypeOK, Servable, DrainRecord
<1>3. overlapped \/ Accounted'
  BY <1>1 DEF MirrorInv, Accounted
<1>4. UndeliveredIsQueued'
  BY DEF MirrorInv, MirrorTypeOK, UndeliveredIsQueued, Everywhere
<1> QED BY <1>2, <1>3, <1>4 DEF MirrorInv

\* A drain writes back what is still undelivered, which is all that is.
LEMMA DrainDoneKeeps ==
    ASSUME MirrorInv, DrainDone
    PROVE  MirrorInv'
<1>1. /\ drain.running /\ drain.todo = <<>> /\ drain' = NoDrain
      /\ queue' \in {drain.still, queue}
      /\ UNCHANGED <<made, stored, head, push, done, overlapped, faults>>
  BY DEF DrainDone
<1>2. queue' \in Seq(Commit) /\ faults' \in Nat
  BY <1>1 DEF MirrorInv, MirrorTypeOK
<1>3. ASSUME ~overlapped, NEW c \in Commit, Contains(queue, c)
      PROVE  Contains(queue', c) \/ Everywhere(c)
  <2>1. ~Contains(drain.todo, c)
    BY <1>1 DEF Contains
  <2> QED BY <1>1, <1>3, <2>1 DEF MirrorInv, Accounted
<1> QED BY <1>1, <1>2, <1>3, NoDrainKeeps

\* What a provider advertises and what the queue accounts for hold together in
\* every state, whatever calls fail and wherever the application stops.
THEOREM MirrorInvariant == MirrorSpec => []MirrorInv
<1>1. MirrorInit => MirrorInv
  <2> SUFFICES ASSUME MirrorInit PROVE MirrorInv
    OBVIOUS
  <2>1. /\ NoPush \in [commit : 0..MaxCommit, todo : SUBSET Provider, failed : BOOLEAN]
        /\ NoDrain \in DrainRecord /\ NoDrain.providers = {} /\ ~NoDrain.running
    <3>1. <<>> \in Seq(Commit)
      OBVIOUS
    <3> QED BY <3>1, MirrorAssumption DEF NoPush, NoDrain, DrainRecord
  <2>2. MirrorTypeOK
    <3>1. 0 \in 0..MaxCommit /\ <<>> \in Seq(Commit) /\ {} \in SUBSET Everything
      BY MirrorAssumption
    <3> QED BY <2>1, <3>1 DEF MirrorInit, MirrorTypeOK, DrainRecord
  <2>3. Servable /\ Accounted /\ UndeliveredIsQueued
    BY <2>1 DEF MirrorInit, Servable, Accounted, UndeliveredIsQueued
  <2> QED BY <2>2, <2>3 DEF MirrorInv
<1>2. MirrorInv /\ [MirrorNext]_mirrorVars => MirrorInv'
  <2> SUFFICES ASSUME MirrorInv, [MirrorNext]_mirrorVars PROVE MirrorInv'
    OBVIOUS
  <2>1. CASE PushCommit
    BY <2>1, PushCommitKeeps
  <2>2. CASE PushDone
    BY <2>2, PushDoneKeeps
  <2>3. CASE DrainStart
    BY <2>3, DrainStartKeeps
  <2>4. CASE DrainFetch
    BY <2>4, DrainFetchKeeps
  <2>5. CASE DrainFetchFails
    BY <2>5, DrainFetchFailsKeeps
  <2>6. CASE DrainDone
    BY <2>6, DrainDoneKeeps
  <2>7. CASE Crash
    <3>1. faults' \in Nat /\ queue' = queue /\ queue \in Seq(Commit)
      BY <2>7 DEF Crash, Fault, MirrorInv, MirrorTypeOK
    <3> QED BY <2>7, <3>1, NoDrainKeeps DEF Crash
  <2>8. ASSUME NEW m \in Provider, PushToMirror(m) \/ PushToMirrorFails(m) PROVE MirrorInv'
    BY <2>8, PushToMirrorKeeps
  <2>9. ASSUME NEW m \in Provider, DrainTo(m) \/ DrainToFails(m) PROVE MirrorInv'
    BY <2>9, DrainToKeeps
  <2>10. CASE UNCHANGED mirrorVars
    BY <2>10 DEF mirrorVars, MirrorInv, MirrorTypeOK, Servable, Accounted,
       UndeliveredIsQueued, Everywhere
  <2> QED BY <2>1, <2>2, <2>3, <2>4, <2>5, <2>6, <2>7, <2>8, <2>9, <2>10 DEF MirrorNext
<1> QED BY <1>1, <1>2, PTL DEF MirrorSpec

\* No provider, mirror or primary, ever advertises a manifest without its
\* samples, a commit without its tree, or a HEAD without its commit: the order
\* in which push_to_mirror and drain_pending_pushes store objects suffices.
THEOREM ProvidersServe == MirrorSpec => []Servable
<1>1. MirrorInv => Servable
  BY DEF MirrorInv
<1> QED BY <1>1, MirrorInvariant, PTL

\* Without an overlap, a commit whose push returned is at every provider or in
\* pending_pushes, however often a drain fails, is refused or is cut short.
THEOREM NothingForgotten == MirrorSpec => []UndeliveredIsQueued
<1>1. MirrorInv => UndeliveredIsQueued
  BY DEF MirrorInv
<1> QED BY <1>1, MirrorInvariant, PTL
=============================================================================
