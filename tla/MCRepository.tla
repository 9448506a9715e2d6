--------------------------- MODULE MCRepository ---------------------------
(* Small instances of Repository for TLC. *)
EXTENDS Repository, TLC
CONSTANT m1

MCEntries == (m1 :> {})

\* Nothing protected, one queued commit, or a stashed snapshot.
MCRoots ==
    {[commits |-> {}, blobs |-> {}], [commits |-> {}, blobs |-> Snapshot]}
       \cup {[commits |-> {c}, blobs |-> {}] : c \in CommitId}

Symmetry == Permutations(CommitId)
=============================================================================
