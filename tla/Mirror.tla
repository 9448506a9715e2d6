------------------------------- MODULE Mirror -------------------------------
(***************************************************************************)
(* The mirrors of a project: the fan-out at the end of a push and the      *)
(* queue of commits some mirror has not received                           *)
(* (crates/auru-pm/src/sync.rs, sidecar.rs).                               *)
(*                                                                         *)
(* A provider is a folder, which stores what it is given, or a server,     *)
(* which refuses a commit whose parent or objects it does not have.  What  *)
(* a call sequence to one provider stores before it fails is a prefix of   *)
(* the order the code stores objects in, so the sequence is one step.      *)
(***************************************************************************)
EXTENDS Integers, Sequences, SequencesExt

CONSTANTS
    Provider,   \* the primary and the mirrors
    Primary,    \* the provider pushes commit to first
    Server,     \* providers that validate a commit
    MaxCommit,  \* bounds the commits
    WithInfo,   \* commits that name a project summary
    MaxFaults   \* bounds failed calls, refused fetches and crashes

ASSUME MirrorAssumption ==
    /\ Primary \in Provider
    /\ Server \subseteq Provider
    /\ MaxCommit \in Nat
    /\ MaxFaults \in Nat

Commit == 1..MaxCommit

VARIABLES
    made,        \* commits on the primary, each the parent of the next
    stored,      \* per provider and commit, the kinds of its objects stored there
    head,        \* per provider, HEAD; 0 is none
    queue,       \* the sidecar's pending_pushes
    push,        \* the fan-out of a push: its commit, the mirrors to do, failures
    drain,       \* a drain of the queue
    done,        \* history: commits whose push returned to its caller
    overlapped,  \* history: a drain and a push ran at one time
    faults       \* failed calls and crashes so far

mirrorVars == <<made, stored, head, queue, push, drain, done, overlapped, faults>>

NoPush == [commit |-> 0, todo |-> {}, failed |-> FALSE]

NoDrain == [running |-> FALSE, todo |-> <<>>, still |-> <<>>, drained |-> 0,
            providers |-> {}, ok |-> TRUE]

Everything == {"snapshot", "sample", "manifest", "commit", "info"}

\* What makes a stored commit restorable.
Tree == {"snapshot", "sample", "manifest"}

MirrorInit ==
    /\ made = 0
    /\ stored = [m \in Provider |-> [c \in Commit |-> {}]]
    /\ head = [m \in Provider |-> 0]
    /\ queue = <<>>
    /\ push = NoPush
    /\ drain = NoDrain
    /\ done = {}
    /\ overlapped = FALSE
    /\ faults = 0

Fault == faults < MaxFaults /\ faults' = faults + 1

\* Wrong variant: the manifest is stored before the samples it lists.
ManifestFirst == <<"snapshot", "manifest", "sample", "commit">>

\* The order in which push_to_mirror and drain_pending_pushes store objects.
\* The project summary a commit may name is not among them.
Order == <<"snapshot", "sample", "manifest", "commit">>

Prefix(k) == {Order[j] : j \in 1..k}

\* put_commit of c at m once have is stored there: a server wants the parent,
\* the tree and the project summary.
Accepts(m, c, have) ==
    m \in Server =>
        /\ c > 1 => "commit" \in stored[m][c - 1]
        /\ Tree \subseteq have
        /\ c \in WithInfo => "info" \in have

\* advance_head(None, c), whose conflict and failure are ignored alike.
AdvanceHead(m, c) ==
    head' \in {head, [head EXCEPT ![m] = IF @ = 0 THEN c ELSE @]}

\* All calls for c at m succeed; blobs are those it stores first.
Delivers(m, c, blobs) ==
    /\ Accepts(m, c, stored[m][c] \cup blobs)
    /\ stored' = [stored EXCEPT ![m][c] = @ \cup blobs \cup {"commit"}]
    /\ AdvanceHead(m, c)
    /\ UNCHANGED faults

\* A call fails, or the provider refuses the commit, after blobs are stored.
Fails(m, c, blobs, refused) ==
    /\ stored' = [stored EXCEPT ![m][c] = @ \cup blobs]
    /\ IF refused THEN UNCHANGED faults ELSE Fault
    /\ UNCHANGED head

-----------------------------------------------------------------------------

\* The push has committed to the primary; the mirrors are next.
PushCommit ==
    /\ push = NoPush
    /\ made < MaxCommit
    /\ made' = made + 1
    /\ stored' = [stored EXCEPT ![Primary][made + 1] =
                    Everything \ (IF made + 1 \in WithInfo THEN {} ELSE {"info"})]
    /\ head' = [head EXCEPT ![Primary] = made + 1]
    /\ push' = [commit |-> made + 1, todo |-> Provider \ {Primary}, failed |-> FALSE]
    /\ overlapped' = (overlapped \/ drain.running)
    /\ UNCHANGED <<queue, drain, done, faults>>

\* push_to_mirror succeeds.
PushToMirror(m) ==
    /\ m \in push.todo
    /\ Delivers(m, push.commit, Tree)
    /\ push' = [push EXCEPT !.todo = @ \ {m}]
    /\ UNCHANGED <<made, queue, drain, done, overlapped>>

\* push_to_mirror fails after k calls.
PushToMirrorFails(m) ==
    /\ m \in push.todo
    /\ \E k \in 0..3 :
          Fails(m, push.commit, Prefix(k),
                k = 3 /\ ~Accepts(m, push.commit, stored[m][push.commit] \cup Tree))
    /\ push' = [push EXCEPT !.todo = @ \ {m}, !.failed = TRUE]
    /\ UNCHANGED <<made, queue, drain, done, overlapped>>

\* Wrong variant: the commit is queued only if no mirror has it.
PushDoneUnlessStored ==
    /\ push # NoPush
    /\ push.todo = {}
    /\ queue' = IF push.failed /\ (\A m \in Provider \ {Primary} :
                                       "commit" \notin stored[m][push.commit])
                THEN Append(queue, push.commit) ELSE queue
    /\ done' = done \cup {push.commit}
    /\ push' = NoPush
    /\ UNCHANGED <<made, stored, head, drain, overlapped, faults>>

\* The sidecar is updated: a commit some mirror missed joins the queue.
PushDone ==
    /\ push # NoPush
    /\ push.todo = {}
    /\ queue' = IF push.failed /\ ~Contains(queue, push.commit)
                THEN Append(queue, push.commit) ELSE queue
    /\ done' = done \cup {push.commit}
    /\ push' = NoPush
    /\ UNCHANGED <<made, stored, head, drain, overlapped, faults>>

\* drain_pending_pushes loads the queue.
DrainStart ==
    /\ ~drain.running
    /\ queue # <<>>
    /\ drain' = [NoDrain EXCEPT !.running = TRUE, !.todo = queue]
    /\ overlapped' = (overlapped \/ push # NoPush)
    /\ UNCHANGED <<made, stored, head, queue, push, done, faults>>

\* The next commit of the queue, and whether the drain is looking for it.
Seeking == drain.running /\ drain.todo # <<>> /\ drain.providers = {}

\* The commit and all its objects are read from some provider.
DrainFetch ==
    /\ Seeking
    /\ \E m \in Provider : Tree \cup {"commit"} \subseteq stored[m][Head(drain.todo)]
    /\ drain' = [drain EXCEPT !.providers = Provider, !.ok = TRUE]
    /\ UNCHANGED <<made, stored, head, queue, push, done, overlapped, faults>>

\* No reachable provider has all of it: it stays in the queue.
DrainFetchFails ==
    /\ Seeking
    /\ Fault
    /\ drain' = [drain EXCEPT !.todo = Tail(@), !.still = Append(@, Head(drain.todo))]
    /\ UNCHANGED <<made, stored, head, queue, push, done, overlapped>>

\* Wrong variant: a failure leaves the commit counted as delivered.
AfterProviderLenient(m, ok) ==
    LET rest == drain.providers \ {m}
        c == Head(drain.todo)
    IN  drain' = IF rest # {} THEN [drain EXCEPT !.providers = rest]
                 ELSE [drain EXCEPT !.providers = {}, !.todo = Tail(@),
                                    !.drained = @ + 1]

\* The last provider of a commit decides whether it stays queued.
AfterProvider(m, ok) ==
    LET rest == drain.providers \ {m}
        all == drain.ok /\ ok
        c == Head(drain.todo)
    IN  drain' = IF rest # {} THEN [drain EXCEPT !.providers = rest, !.ok = all]
                 ELSE [drain EXCEPT !.providers = {}, !.todo = Tail(@),
                                    !.drained = IF all THEN @ + 1 ELSE @,
                                    !.still = IF all THEN @ ELSE Append(@, c)]

\* The commit is stored at m.  A server whose has_blobs fails is not given the
\* snapshot; a folder always answers.
DrainTo(m) ==
    /\ m \in drain.providers
    /\ \E blobs \in IF m \in Server THEN {Tree, Tree \ {"snapshot"}} ELSE {Tree} :
          Delivers(m, Head(drain.todo), blobs)
    /\ AfterProvider(m, TRUE)
    /\ UNCHANGED <<made, queue, push, done, overlapped>>

\* A call to m fails, or m refuses the commit.
DrainToFails(m) ==
    LET c == Head(drain.todo)
    IN  /\ m \in drain.providers
        /\ \/ \E k \in 0..3 :
                 Fails(m, c, Prefix(k), k = 3 /\ ~Accepts(m, c, stored[m][c] \cup Tree))
           \/ /\ m \in Server
              /\ Fails(m, c, Tree \ {"snapshot"}, FALSE)
        /\ AfterProvider(m, FALSE)
        /\ UNCHANGED <<made, queue, push, done, overlapped>>

\* The queue becomes what is still pending, if anything was delivered.
DrainDone ==
    /\ drain.running
    /\ drain.todo = <<>>
    /\ queue' = IF drain.drained > 0 THEN drain.still ELSE queue
    /\ drain' = NoDrain
    /\ UNCHANGED <<made, stored, head, push, done, overlapped, faults>>

\* The application stops; the sidecar and the providers keep what they have.
Crash ==
    /\ Fault
    /\ push # NoPush \/ drain.running
    /\ push' = NoPush
    /\ drain' = NoDrain
    /\ UNCHANGED <<made, stored, head, queue, done, overlapped>>

MirrorNext ==
    \/ PushCommit \/ PushDone \/ DrainStart \/ DrainFetch \/ DrainFetchFails
    \/ DrainDone \/ Crash
    \/ \E m \in Provider : \/ PushToMirror(m) \/ PushToMirrorFails(m)
                           \/ DrainTo(m) \/ DrainToFails(m)

MirrorSpec == MirrorInit /\ [][MirrorNext]_mirrorVars

\* Pushes and drains end, and the queue is drained again and again.
MirrorFairness ==
    /\ WF_mirrorVars(PushDone) /\ WF_mirrorVars(DrainStart) /\ WF_mirrorVars(DrainFetch)
    /\ WF_mirrorVars(DrainDone)
    /\ \A m \in Provider : WF_mirrorVars(PushToMirror(m) \/ PushToMirrorFails(m))
                           /\ WF_mirrorVars(DrainTo(m) \/ DrainToFails(m))

FairMirrorSpec == MirrorSpec /\ MirrorFairness

-----------------------------------------------------------------------------

\* A provider never advertises what it cannot serve: a manifest is there with
\* its samples, a commit with its whole tree, HEAD with its commit, whatever
\* calls failed and although a drain may skip the snapshot.
Servable ==
    \A m \in Provider :
        /\ \A c \in Commit :
              /\ "manifest" \in stored[m][c] => "sample" \in stored[m][c]
              /\ "commit" \in stored[m][c] => Tree \subseteq stored[m][c]
        /\ head[m] # 0 => "commit" \in stored[m][head[m]]

\* A commit whose push returned is at every mirror or waits in the queue,
\* across crashes, unless a drain overlapped a push: it then writes back a
\* queue it loaded before the push queued its commit.
UndeliveredIsQueued ==
    overlapped \/ \A c \in done, m \in Provider :
                     "commit" \in stored[m][c] \/ Contains(queue, c)

\* A folder receives every commit in the end, although a server in the same
\* list refuses it for ever.
FoldersCatchUp ==
    \A c \in Commit, m \in Provider \ Server :
        c \in done ~> "commit" \in stored[m][c] \/ overlapped

-----------------------------------------------------------------------------

\* Every variable holds a value of its type, and a push or a drain has work to
\* do only while it runs.
MirrorTypeOK ==
    /\ made \in 0..MaxCommit
    /\ stored \in [Provider -> [Commit -> SUBSET Everything]]
    /\ head \in [Provider -> 0..MaxCommit]
    /\ queue \in Seq(Commit)
    /\ push \in [commit : 0..MaxCommit, todo : SUBSET Provider, failed : BOOLEAN]
    /\ push.commit = 0 => push = NoPush
    /\ drain \in [running : BOOLEAN, todo : Seq(Commit), still : Seq(Commit),
                  drained : Nat, providers : SUBSET Provider, ok : BOOLEAN]
    /\ drain.providers # {} => drain.running /\ drain.todo # <<>>
    /\ done \in SUBSET Commit
    /\ overlapped \in BOOLEAN
    /\ faults \in Nat

Everywhere(c) == \A m \in Provider : "commit" \in stored[m][c]

\* What a push and a drain know of the providers they have been to, as long as
\* no drain has overlapped a push: a push without a failure has delivered to
\* every provider it has left; a drain keeps every queued commit in hand until
\* all providers have it.
Accounted ==
    /\ push # NoPush /\ ~push.failed =>
          \A m \in Provider \ push.todo : "commit" \in stored[m][push.commit]
    /\ drain.running => push = NoPush
    /\ drain.running => \A c \in Commit :
          Contains(queue, c) => \/ Contains(drain.todo, c) \/ Contains(drain.still, c)
                                \/ Everywhere(c)
    /\ drain.providers # {} /\ drain.ok =>
          \A m \in Provider \ drain.providers : "commit" \in stored[m][Head(drain.todo)]

\* The inductive invariant behind Servable and UndeliveredIsQueued.
MirrorInv ==
    /\ MirrorTypeOK
    /\ Servable
    /\ overlapped \/ Accounted
    /\ UndeliveredIsQueued
=============================================================================
