----------------------------- MODULE MCServer -----------------------------
(* Small instances of Server for TLC. *)
EXTENDS Server, TLC
CONSTANTS c1, c2, c3, s1, m1, a1

\* A version, its successor and a merge of both, with the same snapshot and
\* manifest.
MCContent ==
    (c1 :> [parents |-> <<>>, snapshot |-> s1, samples |-> m1, metadata |-> None])
    @@ (c2 :> [parents |-> <<c1>>, snapshot |-> s1, samples |-> m1, metadata |-> None])
    @@ (c3 :> [parents |-> <<c1, c2>>, snapshot |-> s1, samples |-> m1, metadata |-> None])

MCEntries == (m1 :> {a1})

Symmetry == Permutations(Owner) \cup Permutations(Request)
=============================================================================
