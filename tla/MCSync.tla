------------------------------ MODULE MCSync ------------------------------
(* Small instances of Sync for TLC. *)
EXTENDS Sync, TLC
CONSTANTS m1

MCEntries == (m1 :> Asset)

\* Machines are interchangeable; commits are not, since a push picks its hash
\* with CHOOSE.
Machines == Permutations(Client)

\* What the desktop protects: nothing, or its own stash.
NoRoots ==
    {[commits |-> {}, blobs |-> {}]}
       \cup {[commits |-> {}, blobs |-> {s}] : s \in Snapshot}
=============================================================================
