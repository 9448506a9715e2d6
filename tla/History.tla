------------------------------ MODULE History ------------------------------
(***************************************************************************)
(* What a project's provider promises to the people who back up to it: a   *)
(* current version that can always be restored, and that always descends   *)
(* from every version that was current before.  Everything else - blobs,   *)
(* locks, retention, crashes - is hidden.                                  *)
(***************************************************************************)
CONSTANTS CommitId, None

VARIABLES
    head,   \* the current version
    line,   \* the versions head descends from, head included
    whole   \* the versions that can be restored at this moment

vars == <<head, line, whole>>

Init == head = None /\ line = {} /\ whole = {}

\* A restorable version becomes current and inherits the whole line.
Publish ==
    /\ head' \in whole
    /\ line' \in SUBSET CommitId
    /\ line \cup {head'} \subseteq line'
    /\ UNCHANGED whole

\* Versions become restorable or are given up, never the current one.
Churn ==
    /\ whole' \in SUBSET CommitId
    /\ head # None => head \in whole'
    /\ UNCHANGED <<head, line>>

Next == Publish \/ Churn

Spec == Init /\ [][Next]_vars
=============================================================================
