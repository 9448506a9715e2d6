-------------------------------- MODULE Cas --------------------------------
(***************************************************************************)
(* One object of the content-addressed store of crates/auru-pm/src/cas.rs, *)
(* below the atomic Store step of Repository: Cas::put writes <hash>.tmp   *)
(* and renames it.  All machines that put the same hash use the same       *)
(* temporary name, and they take no lock.                                  *)
(***************************************************************************)
CONSTANTS
    Writer,   \* machines that put the object
    Inode,    \* files the file system can hold
    NoFile    \* no file

ASSUME InodeAssumption == NoFile \notin Inode

VARIABLES
    final, \* the file under the object's final name
    part,  \* the file under its temporary name
    data,  \* per file: "torn" (empty or partly written) or "whole"
    pc,    \* per writer: the step of put it is at
    fd,    \* per writer: the file it has open
    cut    \* history: a put ended between truncating its file and filling it

casVars == <<final, part, data, pc, fd, cut>>

CasInit ==
    /\ final = NoFile
    /\ part = NoFile
    /\ data = [i \in Inode |-> "torn"]
    /\ pc = [w \in Writer |-> "idle"]
    /\ fd = [w \in Writer |-> NoFile]
    /\ cut = FALSE

Free == {i \in Inode : i \notin {final, part} /\ \A w \in Writer : fd[w] # i}

\* put starts: an object that exists is not written again.
Begin(w) ==
    /\ pc[w] = "idle"
    /\ pc' = [pc EXCEPT ![w] = IF final = NoFile THEN "create" ELSE "ok"]
    /\ UNCHANGED <<final, part, data, fd, cut>>

\* Wrong variant: renames a file it has not written.
CreateOnly(w) ==
    /\ pc[w] = "create"
    /\ \E i \in IF part = NoFile THEN Free ELSE {part} :
          /\ part' = i
          /\ data' = [data EXCEPT ![i] = "torn"]
    /\ pc' = [pc EXCEPT ![w] = "rename"]
    /\ UNCHANGED <<final, fd, cut>>

\* fs::write opens the temporary name and truncates what is there ...
Create(w) ==
    /\ pc[w] = "create"
    /\ \E i \in IF part = NoFile THEN Free ELSE {part} :
          /\ part' = i
          /\ data' = [data EXCEPT ![i] = "torn"]
          /\ fd' = [fd EXCEPT ![w] = i]
    /\ pc' = [pc EXCEPT ![w] = "write"]
    /\ UNCHANGED <<final, cut>>

\* Wrong variant: a short write is taken for a whole one.
WriteShort(w) ==
    /\ pc[w] = "write"
    /\ fd' = [fd EXCEPT ![w] = NoFile]
    /\ pc' = [pc EXCEPT ![w] = "rename"]
    /\ UNCHANGED <<final, part, data, cut>>

\* ... and writes the frame into the file it opened, whatever its name is now.
Write(w) ==
    /\ pc[w] = "write"
    /\ data' = [data EXCEPT ![fd[w]] = "whole"]
    /\ fd' = [fd EXCEPT ![w] = NoFile]
    /\ pc' = [pc EXCEPT ![w] = "rename"]
    /\ UNCHANGED <<final, part, cut>>

\* fs::rename: moves whatever file the temporary name has; without one, put
\* reports an error.
Rename(w) ==
    /\ pc[w] = "rename"
    /\ \/ part # NoFile /\ final' = part /\ pc' = [pc EXCEPT ![w] = "ok"]
       \/ part = NoFile /\ final' = final /\ pc' = [pc EXCEPT ![w] = "idle"]
    /\ part' = NoFile
    /\ UNCHANGED <<data, fd, cut>>

\* put returned Ok; the caller goes on.
Finish(w) ==
    /\ pc[w] = "ok"
    /\ pc' = [pc EXCEPT ![w] = "idle"]
    /\ UNCHANGED <<final, part, data, fd, cut>>

\* The machine dies, or the disk is full: the temporary file stays.
Stop(w) ==
    /\ pc[w] \in {"create", "write", "rename"}
    /\ pc' = [pc EXCEPT ![w] = "idle"]
    /\ fd' = [fd EXCEPT ![w] = NoFile]
    /\ cut' = (cut \/ pc[w] = "write")
    /\ UNCHANGED <<final, part, data>>

\* Cas::gc deletes the object; temporary names are skipped.
Collect ==
    /\ final # NoFile
    /\ final' = NoFile
    /\ UNCHANGED <<part, data, pc, fd, cut>>

PutStep(w) == Create(w) \/ Write(w) \/ Rename(w)

CasNext ==
    \/ \E w \in Writer : Begin(w) \/ PutStep(w) \/ Finish(w) \/ Stop(w)
    \/ Collect

CasSpec == CasInit /\ [][CasNext]_casVars

\* The operating system runs a put to its end.
FairCas == CasSpec /\ \A w \in Writer : WF_casVars(PutStep(w))

-----------------------------------------------------------------------------
(* Properties. *)

\* The shapes of names, files and puts.
CasTypeOK ==
    /\ {final, part} \subseteq Inode \cup {NoFile}
    /\ data \in [Inode -> {"torn", "whole"}]
    /\ pc \in [Writer -> {"idle", "create", "write", "rename", "ok"}]
    /\ fd \in [Writer -> Inode \cup {NoFile}]
    /\ cut \in BOOLEAN

Torn == final # NoFile /\ data[final] = "torn"

\* Unless a put ended half way, an object that cannot be read is one that a
\* machine is just writing: overlapping puts alone lose nothing for good.
TornIsBeingWritten ==
    Torn => cut \/ \E w \in Writer : pc[w] = "write" /\ fd[w] = final

\* The inductive strengthening of TornIsBeingWritten.
Accounted(i) ==
    (i # NoFile /\ data[i] = "torn") =>
        cut \/ \E w \in Writer : pc[w] = "write" /\ fd[w] = i

CasInv ==
    /\ CasTypeOK
    /\ part # NoFile => part # final
    /\ \A w \in Writer : pc[w] = "write" => fd[w] \in Inode
    /\ Accounted(final)
    /\ Accounted(part)

\* ... so it becomes readable (or is collected) in the end.
TornHeals == Torn ~> (~Torn \/ cut)

\* "Atomic write: tmp file in the same directory, then rename": an object
\* under its final name is whole.
PutIsAtomic == ~Torn
=============================================================================
