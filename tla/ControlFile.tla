---------------------------- MODULE ControlFile ----------------------------
(***************************************************************************)
(* The HEAD and HISTORY_FLOOR files of crates/auru-pm/src/filesystem.rs,   *)
(* below the atomic reads and writes of Repository: replace_control_file   *)
(* goes through two more names, <file>.tmp and <file>.old, because a       *)
(* rename may refuse to replace an existing file, and read_control_file    *)
(* tries the names in turn.                                                *)
(*                                                                         *)
(* Writers hold the LOCK file, so there is one at a time.  list_projects   *)
(* reads HEAD without the lock, so a reader may run beside a writer.  Any  *)
(* file operation may fail and the writer may die between any two.         *)
(***************************************************************************)
CONSTANTS
    Value,  \* commit hashes
    None    \* no such file

ASSUME NoneAssumption == None \notin Value

VARIABLES
    path, old, tmp,  \* the content of the three names
    wpc, target,     \* the writer's next operation and the value it writes
    report,          \* what the last write returned
    rpc, answer,     \* the reader's next operation and what it found
    current          \* history: the values the file had during the read

diskVars == <<path, old, tmp>>
writerVars == <<wpc, target, report>>
fileVars == <<diskVars, writerVars, rpc, answer, current>>

\* What read_control_file returns when no writer runs beside it.
Content == IF path # None THEN path ELSE old

FileInit ==
    /\ path = None /\ old = None /\ tmp = None
    /\ wpc = "idle" /\ target = None /\ report = "none"
    /\ rpc = "idle" /\ answer = None /\ current = {}

\* Every step of the writer leaves the reader where it is.
Watch == current' = current \cup {Content'} /\ UNCHANGED <<rpc, answer>>

EndWrite(r) == wpc' = "idle" /\ target' = None /\ report' = r

-----------------------------------------------------------------------------
(* replace_control_file *)

WriteTmp ==
    /\ wpc = "idle"
    /\ target' \in Value
    /\ tmp' = target'
    /\ report' = "none"
    /\ wpc' = "replace"
    /\ UNCHANGED <<path, old>>
    /\ Watch

\* The first rename replaces the file, or is refused.
Replace ==
    /\ wpc = "replace"
    /\ \/ /\ path' = tmp /\ tmp' = None
          /\ wpc' = "clean" /\ UNCHANGED <<old, target, report>>
       \/ /\ path # None
          /\ wpc' = "aside" /\ UNCHANGED <<diskVars, target, report>>
       \/ /\ path = None
          /\ tmp' = None /\ EndWrite("error") /\ UNCHANGED <<path, old>>
    /\ Watch

\* remove_file(.old), whose failure is ignored.
DropOld ==
    /\ wpc = "aside"
    /\ old' \in {None, old}
    /\ wpc' = "move"
    /\ UNCHANGED <<path, tmp, target, report>>
    /\ Watch

\* Wrong variant: removes the last valid value instead of moving it aside.
DeleteFirst ==
    /\ wpc = "move"
    /\ path' = None
    /\ wpc' = "install"
    /\ UNCHANGED <<old, tmp, target, report>>
    /\ Watch

\* The last valid value moves to .old, or the write fails.
MoveAside ==
    /\ wpc = "move"
    /\ \/ /\ old' = path /\ path' = None
          /\ wpc' = "install" /\ UNCHANGED <<tmp, target, report>>
       \/ tmp' = None /\ EndWrite("error") /\ UNCHANGED <<path, old>>
    /\ Watch

\* The second rename installs the new value, or fails.
Install ==
    /\ wpc = "install"
    /\ \/ /\ path' = tmp /\ tmp' = None
          /\ wpc' = "clean" /\ UNCHANGED <<old, target, report>>
       \/ wpc' = "rollback" /\ UNCHANGED <<diskVars, target, report>>
    /\ Watch

\* The old value moves back, if it can; the write fails.
RollBack ==
    /\ wpc = "rollback"
    /\ \/ path' = old /\ old' = None
       \/ UNCHANGED <<path, old>>
    /\ tmp' = None
    /\ EndWrite("error")
    /\ Watch

\* The new value is in place; .old goes, if it can; the write succeeds.
Clean ==
    /\ wpc = "clean"
    /\ old' \in {None, old}
    /\ EndWrite("ok")
    /\ UNCHANGED <<path, tmp>>
    /\ Watch

\* The writer dies; its files stay as they are.
Die ==
    /\ wpc # "idle"
    /\ EndWrite("none")
    /\ UNCHANGED diskVars
    /\ Watch

WriterStep ==
    \/ WriteTmp \/ Replace \/ DropOld \/ MoveAside \/ Install \/ RollBack
    \/ Clean \/ Die

-----------------------------------------------------------------------------
(* read_control_file without the lock: the file, then .old, then again. *)

ReadBegin ==
    /\ rpc = "idle"
    /\ rpc' = "path"
    /\ answer' = None
    /\ current' = {Content}
    /\ UNCHANGED <<diskVars, writerVars>>

\* Wrong variant: looks at .old first.
ReadOldFirst(label, file, next) ==
    /\ rpc = label
    /\ answer' = IF label = "path" THEN old ELSE IF label = "old" THEN path ELSE file
    /\ rpc' = IF answer' # None THEN "done" ELSE next
    /\ UNCHANGED <<diskVars, writerVars, current>>

\* One read: an answer if the file is there, else the next name.
Read(label, file, next) ==
    /\ rpc = label
    /\ answer' = file
    /\ rpc' = IF file # None THEN "done" ELSE next
    /\ UNCHANGED <<diskVars, writerVars, current>>

ReadEnd ==
    /\ rpc = "done"
    /\ rpc' = "idle"
    /\ answer' = None
    /\ current' = {}
    /\ UNCHANGED <<diskVars, writerVars>>

ReaderStep ==
    \/ ReadBegin
    \/ Read("path", path, "old") \/ Read("old", old, "again")
    \/ Read("again", path, "done")
    \/ ReadEnd

FileNext == WriterStep \/ ReaderStep

FileSpec == FileInit /\ [][FileNext]_fileVars

-----------------------------------------------------------------------------
(* Properties. *)

\* The shapes of files, writer and reader.
FileTypeOK ==
    /\ {path, old, tmp, target, answer} \subseteq Value \cup {None}
    /\ wpc \in {"idle", "replace", "aside", "move", "install", "rollback", "clean"}
    /\ report \in {"none", "ok", "error"}
    /\ rpc \in {"idle", "path", "old", "again", "done"}
    /\ current \subseteq Value \cup {None}

\* Failed renames, crashes and files left behind by earlier crashes included,
\* a control file behaves like one value that a write changes at one moment.
Atomic == INSTANCE Register WITH
    value <- Content,
    phase <- IF wpc = "idle" THEN "idle" ELSE IF wpc = "clean" THEN "after" ELSE "before"

ReplaceIsAtomic == Atomic!Spec

\* An answer that a reader without the lock finds was the file's value at some
\* moment of its read: never one that a finished write had replaced before.
ReadIsFresh == rpc = "done" /\ answer # None => answer \in current

\* The inductive strengthening of both: where the writer's values are, and that
\* whatever the reader may still find is a value of its time.
FileInv ==
    /\ FileTypeOK
    /\ wpc \in {"replace", "aside", "move", "install", "rollback"} =>
          tmp = target /\ target \in Value
    /\ wpc \in {"aside", "move"} => path # None
    /\ wpc \in {"install", "rollback"} => path = None
    /\ wpc = "clean" => path = target /\ target \in Value
    /\ rpc # "idle" => Content \in current
    /\ rpc = "old" => old \in current \cup {None}
    /\ rpc = "done" => answer \in current \cup {None}
=============================================================================
