----------------------------- MODULE MCRestore -----------------------------
\* Model-checking instance of the library while restores run, and while labels
\* are edited, saved and refreshed.  The two share no state: each behaviour is
\* about one of them, and the other rests.
EXTENDS Restore, Labels, TLC

VARIABLE topic

libraryVars == <<topic, vars, labelVars>>

LibraryInit ==
    \/ topic = "restore" /\ RestoreInit /\ LabelsInit
    \/ /\ topic = "labels" /\ RestoreInit /\ LabelsInit
       /\ ~Exists(Requested) /\ remoteRow = "none" /\ watched

LibraryNext ==
    \/ topic = "restore" /\ RestoreNext /\ UNCHANGED <<topic, labelVars>>
    \/ topic = "labels" /\ LabelsNext /\ UNCHANGED <<topic, vars>>

LibrarySpec == LibraryInit /\ [][LibraryNext]_libraryVars

Exchangeable == Permutations(Task) \cup Permutations(Saver)
=============================================================================
