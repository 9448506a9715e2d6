----------------------------- MODULE MCStorage ------------------------------
\* Model-checking instance of the files below the repository: one object of
\* the content-addressed store, and one control file.  They share no state:
\* each behaviour is about one of them, and the other stays in its initial
\* state.
EXTENDS Cas, ControlFile

VARIABLE topic

storageVars == <<topic, casVars, fileVars>>

StorageInit == topic \in {"object", "control file"} /\ CasInit /\ FileInit

StorageNext ==
    \/ topic = "object" /\ CasNext /\ UNCHANGED <<topic, fileVars>>
    \/ topic = "control file" /\ FileNext /\ UNCHANGED <<topic, casVars>>

\* The fairness of Cas, where its steps exist.
PutsRun ==
    \A w \in Writer :
        WF_storageVars(topic = "object" /\ PutStep(w) /\ UNCHANGED <<topic, fileVars>>)

StorageSpec == StorageInit /\ [][StorageNext]_storageVars /\ PutsRun
=============================================================================
