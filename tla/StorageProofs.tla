--------------------------- MODULE StorageProofs ----------------------------
(***************************************************************************)
(* Proofs about the files below the repository: overlapping puts of one    *)
(* object are harmless as long as none ends half way, for any number of    *)
(* machines and files; and replacing a control file through its .tmp and   *)
(* .old names implements an atomic register, from which a reader without   *)
(* the lock never takes a value that was replaced before it began.         *)
(***************************************************************************)
EXTENDS Cas, ControlFile, TLAPS


-----------------------------------------------------------------------------
\* One object of the content-addressed store.

\* Opening the temporary name truncates a file that its writer will fill.
LEMMA CreateStep ==
    ASSUME CasInv, NEW w \in Writer, Create(w)
    PROVE  CasInv'
<1>1. PICK i \in IF part = NoFile THEN Free ELSE {part} :
         /\ part' = i /\ data' = [data EXCEPT ![i] = "torn"]
         /\ fd' = [fd EXCEPT ![w] = i] /\ pc' = [pc EXCEPT ![w] = "write"]
         /\ UNCHANGED <<final, cut>> /\ pc[w] = "create"
  BY DEF Create
<1>2. i \in Inode /\ i # final
  BY <1>1 DEF CasInv, CasTypeOK, Free
<1>3. CasTypeOK'
  BY <1>1, <1>2 DEF CasInv, CasTypeOK
<1>4. Accounted(part)'
  BY <1>1, <1>2 DEF CasInv, CasTypeOK, Accounted
<1>5. Accounted(final)'
  <2> SUFFICES ASSUME final' # NoFile, data'[final'] = "torn"
               PROVE  cut' \/ \E x \in Writer : pc'[x] = "write" /\ fd'[x] = final'
    BY DEF Accounted
  <2>1. data[final] = "torn" /\ final # NoFile /\ final \in Inode
    BY <1>1, <1>2 DEF CasInv, CasTypeOK
  <2>2. cut \/ \E x \in Writer : pc[x] = "write" /\ fd[x] = final
    BY <2>1 DEF CasInv, Accounted
  <2>3. ASSUME NEW x \in Writer, pc[x] = "write", fd[x] = final
        PROVE  pc'[x] = "write" /\ fd'[x] = final'
    BY <1>1, <2>3 DEF CasInv, CasTypeOK
  <2> QED BY <1>1, <2>2, <2>3
<1>6. \A x \in Writer : pc'[x] = "write" => fd'[x] \in Inode
  BY <1>1, <1>2 DEF CasInv, CasTypeOK
<1> QED BY <1>1, <1>2, <1>3, <1>4, <1>5, <1>6 DEF CasInv

\* A write makes its file whole and leaves every other file's writer alone.
LEMMA WriteStep ==
    ASSUME CasInv, NEW w \in Writer, Write(w)
    PROVE  CasInv'
<1>1. /\ pc[w] = "write" /\ fd[w] \in Inode
      /\ data' = [data EXCEPT ![fd[w]] = "whole"]
      /\ fd' = [fd EXCEPT ![w] = NoFile] /\ pc' = [pc EXCEPT ![w] = "rename"]
      /\ UNCHANGED <<final, part, cut>>
  BY DEF CasInv, Write
<1>2. CasTypeOK'
  BY <1>1 DEF CasInv, CasTypeOK
<1>3. ASSUME NEW i \in {final, part}, i # NoFile, data'[i] = "torn"
      PROVE  cut' \/ \E x \in Writer : pc'[x] = "write" /\ fd'[x] = i
  <2>1. i # fd[w] /\ data[i] = "torn"
    BY <1>1, <1>3 DEF CasInv, CasTypeOK
  <2>2. cut \/ \E x \in Writer : pc[x] = "write" /\ fd[x] = i
    BY <1>3, <2>1 DEF CasInv, Accounted
  <2>3. ASSUME NEW x \in Writer, pc[x] = "write", fd[x] = i
        PROVE  pc'[x] = "write" /\ fd'[x] = i
    BY <1>1, <2>1, <2>3 DEF CasInv, CasTypeOK
  <2> QED BY <1>1, <2>2, <2>3
<1>4. Accounted(final)' /\ Accounted(part)'
  BY <1>1, <1>3 DEF Accounted
<1>5. \A x \in Writer : pc'[x] = "write" => fd'[x] \in Inode
  BY <1>1 DEF CasInv, CasTypeOK
<1> QED BY <1>1, <1>2, <1>4, <1>5 DEF CasInv

\* Every other step leaves file contents alone and, unless a put is cut short,
\* every writer at its file.
LEMMA OtherStep ==
    ASSUME CasInv,
           \/ \E w \in Writer : Begin(w) \/ Rename(w) \/ Finish(w) \/ Stop(w)
           \/ Collect
           \/ UNCHANGED casVars
    PROVE  CasInv'
<1>1. CasTypeOK' /\ data' = data /\ {final', part'} \subseteq {final, part, NoFile}
      /\ (part' # NoFile => part' # final')
  BY DEF CasInv, CasTypeOK, Begin, Rename, Finish, Stop, Collect, casVars
<1>2. \A w \in Writer : pc'[w] = "write" => pc[w] = "write" /\ fd'[w] = fd[w]
  BY DEF CasInv, CasTypeOK, Begin, Rename, Finish, Stop, Collect, casVars
<1>3. \/ cut'
      \/ /\ cut' = cut
         /\ \A w \in Writer : pc[w] = "write" => pc'[w] = "write" /\ fd'[w] = fd[w]
  BY DEF CasInv, CasTypeOK, Begin, Rename, Finish, Stop, Collect, casVars
<1>4. Accounted(final)' /\ Accounted(part)'
  BY <1>1, <1>3 DEF CasInv, Accounted
<1> QED BY <1>1, <1>2, <1>4 DEF CasInv

\* CasInv holds in every state of the store.
THEOREM CasInvariant == CasSpec => []CasInv
<1>1. CasInit => CasInv
  BY DEF CasInit, CasInv, CasTypeOK, Accounted
<1>2. CasInv /\ [CasNext]_casVars => CasInv'
  BY CreateStep, WriteStep, OtherStep DEF CasNext, PutStep
<1> QED BY <1>1, <1>2, PTL DEF CasSpec

\* An unreadable object is being written, unless a put was cut short.
THEOREM OverlapIsHarmless == CasSpec => []TornIsBeingWritten
<1>1. CasInv => TornIsBeingWritten
  BY DEF CasInv, Accounted, TornIsBeingWritten, Torn
<1> QED BY <1>1, CasInvariant, PTL

-----------------------------------------------------------------------------
\* One control file.

\* The writer keeps the invariant, whatever operation fails.
LEMMA WriterKeeps == FileInv /\ WriterStep => FileInv'
<1> SUFFICES ASSUME FileInv, WriterStep PROVE FileInv'
  OBVIOUS
<1> USE DEF FileInv, FileTypeOK, Content, Watch, EndWrite, diskVars
<1>1. CASE WriteTmp
  BY <1>1, NoneAssumption DEF WriteTmp
<1>2. CASE Replace
  BY <1>2, NoneAssumption DEF Replace
<1>3. CASE DropOld
  BY <1>3, NoneAssumption DEF DropOld
<1>4. CASE MoveAside
  BY <1>4, NoneAssumption DEF MoveAside
<1>5. CASE Install
  BY <1>5, NoneAssumption DEF Install
<1>6. CASE RollBack
  BY <1>6, NoneAssumption DEF RollBack
<1>7. CASE Clean
  BY <1>7, NoneAssumption DEF Clean
<1>8. CASE Die
  BY <1>8, NoneAssumption DEF Die
<1> QED BY <1>1, <1>2, <1>3, <1>4, <1>5, <1>6, <1>7, <1>8 DEF WriterStep

\* So does the reader.
LEMMA ReaderKeeps == FileInv /\ ReaderStep => FileInv'
<1> SUFFICES ASSUME FileInv, ReaderStep PROVE FileInv'
  OBVIOUS
<1> USE DEF FileInv, FileTypeOK, Content, diskVars, writerVars
<1>1. CASE ReadBegin \/ ReadEnd
  BY <1>1 DEF ReadBegin, ReadEnd
<1>2. CASE Read("path", path, "old")
  BY <1>2 DEF Read
<1>3. CASE Read("old", old, "again")
  BY <1>3 DEF Read
<1>4. CASE Read("again", path, "done")
  BY <1>4 DEF Read
<1> QED BY <1>1, <1>2, <1>3, <1>4 DEF ReaderStep

\* FileInv holds in every state.
THEOREM FileInvariant == FileSpec => []FileInv
<1>1. FileInit => FileInv
  BY DEF FileInit, FileInv, FileTypeOK, Content
<1>2. FileInv /\ UNCHANGED fileVars => FileInv'
  BY DEF FileInv, FileTypeOK, Content, fileVars, diskVars, writerVars
<1> QED BY <1>1, <1>2, WriterKeeps, ReaderKeeps, PTL DEF FileSpec, FileNext

\* A reader without the lock never finds a value from before its read.
THEOREM ReadsAreFresh == FileSpec => []ReadIsFresh
<1>1. FileInv => ReadIsFresh
  BY DEF FileInv, ReadIsFresh
<1> QED BY <1>1, FileInvariant, PTL

\* replace_control_file implements an atomic register.
THEOREM ReplaceImplementsRegister == FileSpec => ReplaceIsAtomic
<1>1. FileInit => Atomic!Init
  BY DEF FileInit, Atomic!Init, Content
<1>2. FileInv /\ [FileNext]_fileVars => [Atomic!Next]_(Atomic!vars)
  <2> SUFFICES ASSUME FileInv, [FileNext]_fileVars PROVE [Atomic!Next]_(Atomic!vars)
    OBVIOUS
  <2> USE DEF FileInv, FileTypeOK, Content, EndWrite, diskVars, Atomic!vars
  <2>1. CASE WriteTmp
    BY <2>1 DEF WriteTmp, Atomic!Next, Atomic!Start
  <2>2. CASE Replace
    BY <2>2, NoneAssumption DEF Replace, Atomic!Next, Atomic!Take, Atomic!End
  <2>3. CASE DropOld
    BY <2>3 DEF DropOld
  <2>4. CASE MoveAside
    BY <2>4, NoneAssumption DEF MoveAside, Atomic!Next, Atomic!End
  <2>5. CASE Install
    BY <2>5, NoneAssumption DEF Install, Atomic!Next, Atomic!Take
  <2>6. CASE RollBack
    BY <2>6 DEF RollBack, Atomic!Next, Atomic!End
  <2>7. CASE Clean
    BY <2>7, NoneAssumption DEF Clean, Atomic!Next, Atomic!End
  <2>8. CASE Die
    BY <2>8 DEF Die, Atomic!Next, Atomic!End
  <2>9. CASE ReaderStep \/ UNCHANGED fileVars
    BY <2>9 DEF ReaderStep, ReadBegin, Read, ReadEnd, fileVars, writerVars
  <2> QED BY <2>1, <2>2, <2>3, <2>4, <2>5, <2>6, <2>7, <2>8, <2>9
          DEF FileNext, WriterStep
<1> QED BY <1>1, <1>2, FileInvariant, PTL DEF FileSpec, ReplaceIsAtomic, Atomic!Spec
=============================================================================
