--------------------------- MODULE LibraryProofs ----------------------------
(***************************************************************************)
(* Proofs about the library of the desktop application: restores lose no   *)
(* work and enrol only what is whole, for any number of restores, files,   *)
(* duplicates and failures; labels that are typed stay, and saved ones     *)
(* agree everywhere, for any projects, labels, saves and events.           *)
(***************************************************************************)
EXTENDS Restore, Labels, TLAPS

-----------------------------------------------------------------------------
\* RESTORES
\* Places.

\* The staging folder and the folder set aside are a restore's own and are not in
\* the visible part of the library.
LEMMA Places ==
    /\ Requested \in Root /\ Root \subseteq Place
    /\ \A t \in Task : /\ Staging(t) \in Place /\ Previous(t) \in Place
                       /\ Staging(t) \notin Root /\ Previous(t) \notin Root
    /\ \A t, u \in Task : /\ Staging(t) # Previous(u)
                          /\ Staging(t) = Staging(u) => t = u
                          /\ Previous(t) = Previous(u) => t = u
<1>1. 1 \in 1..(1 + MaxCopy)
  BY RestoreAssumption
<1>2. Requested \in Root
  BY <1>1 DEF Requested, Numbered, Root
<1> QED BY <1>2 DEF Root, Place, Hidden, Staging, Previous

\* A numbered copy is a folder of the library.
LEMMA NumberedPlaces == \A n \in 1..(1 + MaxCopy) : Numbered(n) \in Root
BY DEF Numbered, Root

\* Neither an absent folder nor an empty one has files or a sidecar.
LEMMA NoFolderType == NoFolder \in Folders /\ Empty \in Folders /\ Empty.there /\ ~NoFolder.there
                      /\ NoFolder.sidecar = "none" /\ Empty.sidecar = "none"
                      /\ \A f \in File : NoFolder.files[f] = "absent" /\ Empty.files[f] = "absent"
BY DEF NoFolder, Empty, Folders, Content, Sidecar

-----------------------------------------------------------------------------
\* A step of one restore.

\* Restore t becomes x; its staging folder, what it set aside and the folder
\* it is for become s, p and q.
Does(t, x, s, p, q) ==
    /\ x \in Tasks /\ s \in Folders /\ p \in Folders /\ q \in Folders
    /\ task' = [task EXCEPT ![t] = x]
    /\ folder' \in [Place -> Folders]
    /\ folder'[Staging(t)] = s
    /\ folder'[Previous(t)] = p
    /\ folder'[task[t].to] = q
    /\ \A pl \in Place \ {Staging(t), Previous(t), task[t].to} : folder'[pl] = folder[pl]

\* The same seen by the other restores.
LEMMA Beside ==
    ASSUME Sound, NEW t \in Task, NEW x, NEW s, NEW p, NEW q, Does(t, x, s, p, q)
    PROVE  /\ task' \in [Task -> Tasks] /\ task'[t] = x
           /\ task[t].to \in Root
           /\ \A u \in Task \ {t} : /\ task'[u] = task[u]
                                    /\ folder'[Staging(u)] = folder[Staging(u)]
                                    /\ folder'[Previous(u)] = folder[Previous(u)]
           /\ \A pl \in Root \ {task[t].to} : folder'[pl] = folder[pl]
           /\ \A u \in Task : task[u].to \in Root
<1>1. \A u \in Task : task[u] \in Tasks /\ task[u].to \in Root
  BY DEF Sound, RestoreTypeOK, Tasks
<1>2. task' \in [Task -> Tasks] /\ task'[t] = x /\ \A u \in Task \ {t} : task'[u] = task[u]
  BY DEF Does, Sound, RestoreTypeOK
<1>3. \A u \in Task \ {t} : /\ Staging(u) \in Place \ {Staging(t), Previous(t), task[t].to}
                            /\ Previous(u) \in Place \ {Staging(t), Previous(t), task[t].to}
  <2> SUFFICES ASSUME NEW u \in Task \ {t}
               PROVE  /\ Staging(u) \in Place \ {Staging(t), Previous(t), task[t].to}
                      /\ Previous(u) \in Place \ {Staging(t), Previous(t), task[t].to}
    OBVIOUS
  <2>1. /\ Staging(u) \in Place /\ Previous(u) \in Place
        /\ Staging(u) # task[t].to /\ Previous(u) # task[t].to
    BY <1>1, Places
  <2>2. /\ Staging(u) # Previous(t) /\ Staging(t) # Previous(u)
        /\ Staging(u) # Staging(t) /\ Previous(u) # Previous(t)
    BY Places
  <2> QED BY <2>1, <2>2
<1>4. \A pl \in Root \ {task[t].to} : pl \in Place \ {Staging(t), Previous(t), task[t].to}
  BY <1>1, Places
<1> QED BY <1>1, <1>2, <1>3, <1>4 DEF Does

\* The rest of the state has its type, and overlaps are not forgotten.
LibraryOK ==
    /\ remoteRow \in {"none", "NotDownloaded", "Syncing"}
    /\ rows \subseteq [at : Root, linked : BOOLEAN]
    /\ watched \in BOOLEAN
    /\ refresh \in {"idle", "running", "due"}
    /\ faults \in 0..MaxFaults
    /\ given \in SUBSET MineFile
    /\ overlapped \in BOOLEAN

\* What TaskSound asks of a restore x that has s staged and p set aside.
LocalSound(x, s, p) ==
    /\ x.choice \in Replacing => x.to = Requested
    /\ x.at \in Swapping => x.choice \in Replacing /\ x.files = VersionFile
    /\ x.at \in {"stage", "install", "protect", "replace"} =>
          /\ s.there /\ s.sidecar = "none"
          /\ \A f \in File \ VersionFile : s.files[f] = "absent"
    /\ x.at \in {"idle", "resolve", "stage", "protect"} => p = NoFolder
    /\ x.at \in {"replace", "merge", "confirm", "clean"} => p.there

\* How a restore may change the folder it is for, and enter its states.
Orderly(t, x, q) ==
    /\ x.at \in Holding => q.there /\ x.to = task[t].to
    /\ x.at \in Holding /\ task[t].at \notin Holding => ~Exists(task[t].to)
    /\ x.at \in Swapping /\ task[t].at \notin Swapping => Publishing = {} /\ x.at = "protect"
    /\ x.at = "protect" => /\ q.there /\ x.to = task[t].to /\ x.to = Requested
                           /\ task[t].at \notin Swapping
    /\ \/ q = folder[task[t].to] \/ task[t].at \in Holding \/ task[t].at = "protect"
       \/ ~Exists(task[t].to)

\* A folder that another restore holds, or is about to set aside, is left alone.
LEMMA LeftAlone ==
    ASSUME Sound, ~overlapped, NEW t \in Task, NEW x, NEW q, Orderly(t, x, q),
           NEW u \in Task \ {t},
           \/ task[u].at \in Holding /\ task[u].to = task[t].to
           \/ task[u].at = "protect" /\ task[t].to = Requested
    PROVE  q = folder[task[t].to] /\ Exists(task[t].to)
<1>1. Exclusive
  BY DEF Sound
<1>2. task[t].at = "protect" => task[t].to = Requested
  BY DEF Sound, TaskSound, Swapping
<1>3. CASE task[u].at \in Holding /\ task[u].to = task[t].to
  BY <1>1, <1>2, <1>3 DEF Exclusive, Orderly
<1>4. CASE task[u].at = "protect" /\ task[t].to = Requested
  BY <1>1, <1>4 DEF Exclusive, Orderly, Swapping
<1> QED BY <1>3, <1>4

\* An orderly step of one restore leaves each folder to one restore.
LEMMA StepKeepsExclusive ==
    ASSUME Sound, ~overlapped, NEW t \in Task, NEW x, NEW s, NEW p, NEW q,
           Does(t, x, s, p, q), Orderly(t, x, q)
    PROVE  Exclusive'
<1>1. Exclusive
  BY DEF Sound
<1>2. /\ task'[t] = x /\ folder'[task[t].to] = q
      /\ \A u \in Task \ {t} : task'[u] = task[u]
      /\ \A pl \in Root \ {task[t].to} : folder'[pl] = folder[pl]
      /\ \A u \in Task : task[u].to \in Root
  BY Beside DEF Does
<1>3. \A u \in Task \ {t} : task[u].at \in Holding /\ task[u].to = task[t].to
                               => q = folder[task[t].to] /\ Exists(task[t].to)
  BY LeftAlone
<1>4. \A u \in Task \ {t} : task[u].at = "protect" /\ task[t].to = Requested
                               => q = folder[task[t].to] /\ Exists(task[t].to)
  BY LeftAlone
<1>5. ASSUME NEW u \in Task, task'[u].at \in Holding PROVE Exists(task[u].to)'
  <2>1. CASE u = t
    BY <1>2, <1>5, <2>1 DEF Orderly, Exists
  <2>2. CASE u # t
    <3>1. task[u].at \in Holding /\ Exists(task[u].to)
      BY <1>1, <1>2, <1>5, <2>2 DEF Exclusive
    <3> QED BY <1>2, <1>3, <2>2, <3>1 DEF Exists
  <2> QED BY <2>1, <2>2
<1>6. ASSUME NEW u \in Task \ {t}, task'[u].at \in Holding, x.at \in Holding
      PROVE  task'[u].to # x.to
  <2>1. task[u].at \in Holding /\ task'[u].to = task[u].to /\ Exists(task[u].to)
    BY <1>1, <1>2, <1>6 DEF Exclusive
  <2>2. CASE task[t].at \in Holding
    BY <1>1, <1>6, <2>1, <2>2 DEF Exclusive, Orderly
  <2>3. CASE task[t].at \notin Holding
    BY <1>6, <2>1, <2>3 DEF Orderly
  <2> QED BY <2>2, <2>3
<1>7. ASSUME NEW u \in Task \ {t}, task'[u].at \in Swapping, x.at \in Swapping
      PROVE  FALSE
  <2>1. task[u].at \in Swapping
    BY <1>2, <1>7
  <2>2. u \in Publishing
    BY <2>1 DEF Publishing, Swapping
  <2> QED BY <1>1, <1>7, <2>1, <2>2 DEF Orderly, Exclusive
<1>8. ASSUME NEW w \in Task, task'[w].at = "protect"
      PROVE  /\ Exists(Requested)'
             /\ \A u \in Task : task'[u].at \in Holding => task'[u].to # Requested
  <2>1. CASE w = t
    <3>1. /\ q.there /\ task[t].to = Requested /\ Publishing = {} /\ x.at = "protect"
      BY <1>2, <1>8, <2>1 DEF Orderly, Swapping
    <3>2. \A u \in Task \ {t} : task[u].at \notin Holding
      BY <3>1 DEF Publishing, Holding
    <3> QED BY <1>2, <3>1, <3>2 DEF Exists, Holding
  <2>2. CASE w # t
    <3>1. task[w].at = "protect"
      BY <1>2, <1>8, <2>2
    <3>2. Exists(Requested) /\ \A u \in Task : task[u].at \in Holding => task[u].to # Requested
      BY <1>1, <3>1 DEF Exclusive
    <3>3. folder'[Requested] = folder[Requested]
      BY <1>2, <1>4, <2>2, <3>1, Places
    <3>4. x.at \in Holding => x.to # Requested
      BY <3>2 DEF Orderly
    <3> QED BY <1>2, <3>2, <3>3, <3>4 DEF Exists
  <2> QED BY <2>1, <2>2
<1>9. \A u, w \in Task : task'[u].at \in Holding /\ task'[w].at \in Holding
                            /\ task'[u].to = task'[w].to => u = w
  BY <1>1, <1>2, <1>6 DEF Exclusive
<1>10. \A u, w \in Task : task'[u].at \in Swapping /\ task'[w].at \in Swapping => u = w
  BY <1>1, <1>2, <1>7 DEF Exclusive
<1>11. \A u \in Task : task'[u].at \in Holding => Exists(task[u].to)'
  BY <1>5
<1> QED BY <1>8, <1>9, <1>10, <1>11 DEF Exclusive

\* A step that is sound for its own restore is sound for all of them: restores
\* touch their own folders and the one they are for.
LEMMA StepKeepsSound ==
    ASSUME Sound, NEW t \in Task, NEW x, NEW s, NEW p, NEW q,
           Does(t, x, s, p, q), LibraryOK', overlapped => overlapped',
           ~s.there => s = NoFolder, ~p.there => p = NoFolder, ~q.there => q = NoFolder,
           LocalSound(x, s, p), ~overlapped' => Orderly(t, x, q)
    PROVE  Sound'
<1>1. /\ task' \in [Task -> Tasks] /\ task'[t] = x
      /\ \A u \in Task \ {t} : /\ task'[u] = task[u]
                               /\ folder'[Staging(u)] = folder[Staging(u)]
                               /\ folder'[Previous(u)] = folder[Previous(u)]
  BY Beside
<1>2. RestoreTypeOK'
  BY <1>1 DEF Does, LibraryOK, RestoreTypeOK
<1>3. \A pl \in Place : ~Exists(pl)' => folder'[pl] = NoFolder
  BY DEF Does, Sound, Exists
<1>4. ASSUME NEW u \in Task PROVE TaskSound(u)'
  <2>1. CASE u = t
    BY <1>1, <2>1 DEF LocalSound, TaskSound, Does, Exists
  <2>2. CASE u # t
    BY <1>1, <2>2 DEF Sound, TaskSound, Exists
  <2> QED BY <2>1, <2>2
<1>5. ~overlapped' => Exclusive'
  BY StepKeepsExclusive
<1> QED BY <1>2, <1>3, <1>4, <1>5 DEF Sound

\* Files of the user's that restore t can lose are kept by its step.
Keeps(t, x, p, q) ==
    \A f \in MineFile \ given' :
        \/ folder[Previous(t)].files[f] = "mine" /\ task[t].at # "clean"
        \/ task[t].to = Requested /\ folder[Requested].files[f] = "mine" /\ Settled
        => \/ p.files[f] = "mine" /\ x.at # "clean"
           \/ task[t].to = Requested /\ q.files[f] = "mine" /\ Settled'

\* What Overwritten asks of a restore x with p set aside and q in its place.
LocalOverwritten(x, p, q) ==
    \A f \in MineFile \ VersionFile :
        /\ x.at = "merge" => q.files[f] = "absent"
        /\ x.at \in {"confirm", "clean"} /\ x.choice = "Overwrite"
              => (p.files[f] = "mine" => q.files[f] = "mine")

\* A step keeps the user's files if its own restore does.
LEMMA StepKeepsOldWork ==
    ASSUME Sound, OldWorkInv, ~overlapped, NEW t \in Task, NEW x, NEW s, NEW p, NEW q,
           Does(t, x, s, p, q), LocalSound(x, s, p), Orderly(t, x, q),
           given \subseteq given', Keeps(t, x, p, q), LocalOverwritten(x, p, q)
    PROVE  OldWorkInv'
<1>1. /\ task'[t] = x /\ folder'[task[t].to] = q /\ folder'[Previous(t)] = p
      /\ \A u \in Task \ {t} : task'[u] = task[u] /\ folder'[Previous(u)] = folder[Previous(u)]
      /\ \A pl \in Root \ {task[t].to} : folder'[pl] = folder[pl]
      /\ Requested \in Root
  BY Beside, Places DEF Does
<1>2. ASSUME NEW f \in MineFile \ given' PROVE Kept(f)'
  <2>1. Kept(f)
    BY DEF OldWorkInv
  <2>2. CASE \E u \in Task \ {t} : folder[Previous(u)].files[f] = "mine" /\ task[u].at # "clean"
    BY <1>1, <2>2 DEF Kept
  <2>3. CASE \/ folder[Previous(t)].files[f] = "mine" /\ task[t].at # "clean"
             \/ task[t].to = Requested /\ folder[Requested].files[f] = "mine" /\ Settled
    <3>1. \/ p.files[f] = "mine" /\ x.at # "clean"
          \/ task[t].to = Requested /\ q.files[f] = "mine" /\ Settled'
      BY <2>3 DEF Keeps
    <3> QED BY <1>1, <3>1 DEF Kept
  <2>4. CASE task[t].to # Requested /\ folder[Requested].files[f] = "mine" /\ Settled
    <3>1. folder'[Requested] = folder[Requested]
      BY <1>1, <2>4
    <3>2. Settled'
      BY <1>1, <2>4 DEF Settled, Orderly, Holding
    <3> QED BY <2>4, <3>1, <3>2 DEF Kept
  <2> QED BY <2>1, <2>2, <2>3, <2>4 DEF Kept
<1>3. ASSUME NEW u \in Task PROVE Overwritten(u)'
  <2>1. CASE task'[u].at \notin {"merge", "confirm", "clean"}
    BY <2>1 DEF Overwritten
  <2>2. CASE u = t /\ x.at \in {"merge", "confirm", "clean"}
    <3>1. task[t].to = Requested
      BY <2>2 DEF LocalSound, Orderly, Swapping, Holding
    <3> QED BY <1>1, <2>2, <3>1 DEF LocalOverwritten, Overwritten
  <2>3. CASE u # t /\ task[u].at \in {"merge", "confirm", "clean"}
    <3>1. task[u].at \in Holding /\ task[u].to = Requested
      BY <2>3 DEF Sound, TaskSound, Swapping, Holding
    <3>2. task[t].to = Requested => q = folder[task[t].to]
      BY <2>3, <3>1, LeftAlone
    <3>3. folder'[Requested] = folder[Requested]
      BY <1>1, <3>2
    <3> QED BY <1>1, <2>3, <3>3 DEF OldWorkInv, Overwritten
  <2> QED BY <1>1, <2>1, <2>2, <2>3
<1> QED BY <1>2, <1>3 DEF OldWorkInv

\* What EnrolledInv asks of the step of restore t.
MayEnrol(t, x, p, q) ==
    /\ x.at \in {"clean", "enrol"} => Whole(q)
    /\ task[t].to # Requested /\ Calls(q) => Whole(q)
    /\ task[t].to = Requested /\ Calls(q) =>
          \/ Whole(q)
          \/ p.there /\ x.at # "clean"
          \/ \E u \in Task \ {t} : Exists(Previous(u)) /\ task[u].at # "clean"
    /\ x.at \in {"replace", "merge", "confirm"} /\ Calls(p) =>
          Whole(p) \/ \E u \in Task \ {t} : Exists(Previous(u))
    /\ task[t].at \notin Swapping /\ Exists(Previous(t)) => p.there

\* A step keeps enrolled folders whole if its own restore does.
LEMMA StepKeepsEnrolled ==
    ASSUME Sound, EnrolledInv, ~overlapped, NEW t \in Task, NEW x, NEW s, NEW p, NEW q,
           Does(t, x, s, p, q), Orderly(t, x, q), MayEnrol(t, x, p, q)
    PROVE  EnrolledInv'
<1>1. /\ task'[t] = x /\ folder'[task[t].to] = q /\ folder'[Previous(t)] = p
      /\ \A u \in Task \ {t} : task'[u] = task[u] /\ folder'[Previous(u)] = folder[Previous(u)]
      /\ \A pl \in Root \ {task[t].to} : folder'[pl] = folder[pl]
      /\ Requested \in Root /\ \A u \in Task : task[u].to \in Root
  BY Beside, Places DEF Does
<1>2. ASSUME NEW u \in Task, task'[u].at \in {"clean", "enrol"}
      PROVE  Whole(folder'[task'[u].to])
  <2>1. CASE u = t
    BY <1>1, <1>2, <2>1 DEF MayEnrol, Orderly, Holding
  <2>2. CASE u # t
    <3>1. task[u].at \in Holding /\ Whole(folder[task[u].to])
      BY <1>1, <1>2, <2>2 DEF EnrolledInv, Holding
    <3>2. task[u].to = task[t].to => q = folder[task[t].to]
      BY <2>2, <3>1, LeftAlone
    <3>3. folder'[task[u].to] = folder[task[u].to]
      BY <1>1, <3>2
    <3> QED BY <1>1, <2>2, <3>1, <3>3
  <2> QED BY <2>1, <2>2
<1>3. ASSUME NEW pl \in Root \ {Requested}, Calls(folder'[pl]) PROVE Whole(folder'[pl])
  BY <1>1, <1>3 DEF EnrolledInv, MayEnrol
<1>4. ASSUME Calls(folder'[Requested])
      PROVE  \/ Whole(folder'[Requested])
             \/ \E u \in Task : folder'[Previous(u)].there /\ task'[u].at # "clean"
  <2>1. CASE task[t].to = Requested
    <3>1. \/ Whole(q)
          \/ p.there /\ x.at # "clean"
          \/ \E u \in Task \ {t} : Exists(Previous(u)) /\ task[u].at # "clean"
      BY <1>1, <1>4, <2>1 DEF MayEnrol
    <3> QED BY <1>1, <2>1, <3>1 DEF Exists
  <2>2. CASE task[t].to # Requested
    <3>1. folder'[Requested] = folder[Requested]
      BY <1>1, <2>2
    <3>2. task[t].at \notin Swapping /\ x.at # "clean"
      BY <2>2 DEF Sound, TaskSound, Orderly, Swapping
    <3>3. \/ Whole(folder[Requested])
          \/ \E u \in Task : Exists(Previous(u)) /\ task[u].at # "clean"
      BY <1>4, <3>1 DEF EnrolledInv
    <3>4. Exists(Previous(t)) => p.there
      BY <3>2 DEF MayEnrol
    <3> QED BY <1>1, <3>1, <3>2, <3>3, <3>4 DEF Exists
  <2> QED BY <2>1, <2>2
<1>5. ASSUME NEW u \in Task, task'[u].at \in {"replace", "merge", "confirm"},
             Calls(folder'[Previous(u)])
      PROVE  \/ Whole(folder'[Previous(u)])
             \/ \E w \in Task \ {u} : folder'[Previous(w)].there
  <2>1. CASE u = t
    <3>1. Whole(p) \/ \E w \in Task \ {t} : Exists(Previous(w))
      BY <1>1, <1>5, <2>1 DEF MayEnrol
    <3> QED BY <1>1, <2>1, <3>1 DEF Exists
  <2>2. CASE u # t
    <3>1. task[u].at \in {"replace", "merge", "confirm"} /\ Calls(folder[Previous(u)])
      BY <1>1, <1>5, <2>2
    <3>2. Whole(folder[Previous(u)]) \/ \E w \in Task \ {u} : Exists(Previous(w))
      BY <3>1 DEF EnrolledInv
    <3>3. task[t].at \notin Swapping
      BY <2>2, <3>1 DEF Sound, Exclusive, Swapping
    <3>4. Exists(Previous(t)) => p.there
      BY <3>3 DEF MayEnrol
    <3> QED BY <1>1, <2>2, <3>2, <3>4 DEF Exists
  <2> QED BY <2>1, <2>2
<1> QED BY <1>2, <1>3, <1>4, <1>5 DEF EnrolledInv, Exists

\* A row that shows Syncing still has its restore.
Waits(t, x) ==
    remoteRow' = "Syncing" =>
        \/ x.remote /\ x.at \notin {"idle", "over"}
        \/ remoteRow = "Syncing" /\ ~(task[t].remote /\ task[t].at \notin {"idle", "over"})

\* All a step of one restore has to show.
LEMMA StepKeeps ==
    ASSUME RestoreInv, NEW t \in Task, NEW x, NEW s, NEW p, NEW q,
           Does(t, x, s, p, q), LibraryOK', Waits(t, x),
           overlapped => overlapped', given \subseteq given',
           ~s.there => s = NoFolder, ~p.there => p = NoFolder, ~q.there => q = NoFolder,
           LocalSound(x, s, p),
           ~overlapped' => /\ Orderly(t, x, q)
                           /\ Keeps(t, x, p, q) /\ LocalOverwritten(x, p, q)
                           /\ MayEnrol(t, x, p, q)
    PROVE  RestoreInv'
<1>1. Sound'
  BY StepKeepsSound DEF RestoreInv
<1>2. RestoringHasTask'
  <2>1. task'[t] = x /\ \A u \in Task \ {t} : task'[u] = task[u]
    BY Beside DEF RestoreInv
  <2> QED BY <2>1 DEF RestoreInv, RestoringHasTask, Waits
<1>3. OldWorkInv'
  <2>1. CASE overlapped'
    BY <2>1 DEF OldWorkInv
  <2>2. CASE ~overlapped'
    BY <2>2, StepKeepsOldWork DEF RestoreInv
  <2> QED BY <2>1, <2>2
<1>4. EnrolledInv'
  <2>1. CASE overlapped'
    BY <2>1 DEF EnrolledInv
  <2>2. CASE ~overlapped'
    BY <2>2, StepKeepsEnrolled DEF RestoreInv
  <2> QED BY <2>1, <2>2
<1> QED BY <1>1, <1>2, <1>3, <1>4 DEF RestoreInv

-----------------------------------------------------------------------------
\* Common parts of the steps.

\* A step on folders leaves rows, refreshes and the watch list well formed.
LEMMA LibraryKept ==
    ASSUME Sound, UNCHANGED library, Fault \/ faults' = faults,
           given' \in SUBSET MineFile, overlapped' \in BOOLEAN
    PROVE  LibraryOK'
BY RestoreAssumption DEF Sound, RestoreTypeOK, LibraryOK, library, Fault

\* A restore that goes on still answers its row.
LEMMA WaitsOn ==
    ASSUME NEW t \in Task, NEW x, UNCHANGED library,
           x.remote = task[t].remote, x.at \notin {"idle", "over"}
    PROVE  Waits(t, x)
BY DEF Waits, library

\* The folders of a restore are different ones, with types.
LEMMA Own ==
    ASSUME Sound, NEW t \in Task
    PROVE  /\ task[t] \in Tasks /\ task[t].to \in Root /\ task[t].to \in Place
           /\ Staging(t) \in Place /\ Previous(t) \in Place
           /\ Staging(t) # Previous(t) /\ Staging(t) # task[t].to /\ Previous(t) # task[t].to
           /\ folder \in [Place -> Folders]
           /\ folder[Staging(t)] \in Folders /\ folder[Previous(t)] \in Folders
           /\ folder[task[t].to] \in Folders
           /\ ~folder[Staging(t)].there => folder[Staging(t)] = NoFolder
           /\ ~folder[Previous(t)].there => folder[Previous(t)] = NoFolder
           /\ ~folder[task[t].to].there => folder[task[t].to] = NoFolder
<1>1. task[t] \in Tasks /\ task[t].to \in Root /\ folder \in [Place -> Folders]
  BY DEF Sound, RestoreTypeOK, Tasks
<1>2. /\ task[t].to \in Place /\ Staging(t) \in Place /\ Previous(t) \in Place
      /\ Staging(t) # Previous(t) /\ Staging(t) # task[t].to /\ Previous(t) # task[t].to
  BY <1>1, Places
<1> QED BY <1>1, <1>2 DEF Sound, Exists

\* The steps that change no folder but the one staged.
LEMMA DoesStaging ==
    ASSUME Sound, NEW t \in Task, NEW x \in Tasks, NEW s \in Folders,
           task' = [task EXCEPT ![t] = x], folder' = [folder EXCEPT ![Staging(t)] = s]
    PROVE  Does(t, x, s, folder[Previous(t)], folder[task[t].to])
BY Own DEF Does

\* A step that changes no folder is a step of its restore.
LEMMA DoesNothing ==
    ASSUME Sound, NEW t \in Task, NEW x \in Tasks,
           task' = [task EXCEPT ![t] = x], folder' = folder
    PROVE  Does(t, x, folder[Staging(t)], folder[Previous(t)], folder[task[t].to])
BY Own DEF Does

\* Nothing is lost where what was set aside and what is in place stay.
LEMMA SameFolders ==
    ASSUME RestoreInv, ~overlapped, NEW t \in Task, NEW x,
           task' = [task EXCEPT ![t] = x], given' = given,
           x.at \notin {"check", "replace", "merge", "confirm", "clean"},
           x.at = "enrol" => Whole(folder[task[t].to])
    PROVE  LET p == folder[Previous(t)]
               q == folder[task[t].to]
           IN  Keeps(t, x, p, q) /\ LocalOverwritten(x, p, q) /\ MayEnrol(t, x, p, q)
<1> DEFINE p == folder[Previous(t)]
           q == folder[task[t].to]
<1>1. task'[t] = x /\ \A u \in Task \ {t} : task'[u] = task[u]
  BY DEF RestoreInv, Sound, RestoreTypeOK
<1>2. Settled => Settled'
  BY <1>1 DEF Settled
<1>3. Keeps(t, x, p, q)
  BY <1>2 DEF Keeps
<1>4. LocalOverwritten(x, p, q)
  BY DEF LocalOverwritten
<1>5. MayEnrol(t, x, p, q)
  <2>1. task[t].to # Requested /\ Calls(q) => Whole(q)
    BY Own DEF RestoreInv, EnrolledInv
  <2>2. task[t].to = Requested /\ Calls(q) =>
          \/ Whole(q)
          \/ p.there /\ x.at # "clean"
          \/ \E u \in Task \ {t} : Exists(Previous(u)) /\ task[u].at # "clean"
    BY DEF RestoreInv, EnrolledInv, Exists
  <2> QED BY <2>1, <2>2 DEF MayEnrol, Exists
<1> QED BY <1>3, <1>4, <1>5

\* A step that ends in "done" or goes on to fetch, without a folder moved.
LEMMA InPlaceKeeps ==
    ASSUME RestoreInv, NEW t \in Task, NEW x \in Tasks, NEW s \in Folders,
           task' = [task EXCEPT ![t] = x], folder' = [folder EXCEPT ![Staging(t)] = s],
           LibraryOK', Waits(t, x), UNCHANGED <<given, overlapped>>,
           ~s.there => s = NoFolder, LocalSound(x, s, folder[Previous(t)]),
           x.at \notin Holding \cup Swapping
    PROVE  RestoreInv'
<1> DEFINE p == folder[Previous(t)]
           q == folder[task[t].to]
<1>1. Does(t, x, s, p, q)
  BY DoesStaging DEF RestoreInv
<1>2. (~p.there => p = NoFolder) /\ (~q.there => q = NoFolder)
  BY Own DEF RestoreInv
<1>3. Orderly(t, x, q)
  BY DEF Orderly, Holding, Swapping
<1>4. ~overlapped => Keeps(t, x, p, q) /\ LocalOverwritten(x, p, q) /\ MayEnrol(t, x, p, q)
  BY SameFolders DEF Holding, Swapping
<1> HIDE DEF p, q
<1>5. LocalSound(x, s, p) /\ given \subseteq given' /\ (overlapped => overlapped')
  BY DEF p
<1> QED BY <1>1, <1>2, <1>3, <1>4, <1>5, StepKeeps

\* A restore that fails, or is over, with the folders as they are.
LEMMA Done ==
    ASSUME Sound, NEW t \in Task
    PROVE  LET x == [task[t] EXCEPT !.at = "done", !.error = TRUE]
           IN  /\ x \in Tasks /\ x.at = "done" /\ x.remote = task[t].remote
               /\ x.choice = task[t].choice /\ x.to = task[t].to
               /\ [task EXCEPT ![t].at = "done", ![t].error = TRUE] = [task EXCEPT ![t] = x]
               /\ x.choice \in Replacing => x.to = Requested
<1>1. task \in [Task -> Tasks] /\ task[t] \in Tasks
  BY DEF Sound, RestoreTypeOK
<1>2. task[t].choice \in Replacing => task[t].to = Requested
  BY DEF Sound, TaskSound
<1> QED BY <1>1, <1>2 DEF Tasks

\* A restore that fails removes its staging folder and nothing else.
LEMMA FailsKeeps ==
    ASSUME RestoreInv, NEW t \in Task, Fails(t, folder), UNCHANGED <<library, given, overlapped>>,
           Fault \/ faults' = faults
    PROVE  RestoreInv'
<1> DEFINE x == [task[t] EXCEPT !.at = "done", !.error = TRUE]
<1>1. Sound /\ given \in SUBSET MineFile /\ overlapped \in BOOLEAN
  BY DEF RestoreInv, Sound, RestoreTypeOK
<1>2. /\ x \in Tasks /\ x.at = "done" /\ x.remote = task[t].remote
      /\ task' = [task EXCEPT ![t] = x]
      /\ x.choice \in Replacing => x.to = Requested
  BY <1>1, Done DEF Fails
<1> HIDE DEF x
<1>3. folder' = [folder EXCEPT ![Staging(t)] = NoFolder] /\ NoFolder \in Folders
  BY NoFolderType DEF Fails
<1>4. LibraryOK'
  BY <1>1, LibraryKept
<1>5. Waits(t, x)
  BY <1>2, WaitsOn
<1>6. LocalSound(x, NoFolder, folder[Previous(t)])
  BY <1>2 DEF LocalSound, Swapping
<1>7. x.at \notin Holding \cup Swapping
  BY <1>2 DEF Holding, Swapping
<1> QED BY <1>2, <1>3, <1>4, <1>5, <1>6, <1>7, InPlaceKeeps

\* Steps that change no folder at all.
LEMMA StillKeeps ==
    ASSUME RestoreInv, NEW t \in Task, NEW x \in Tasks,
           task' = [task EXCEPT ![t] = x], folder' = folder,
           LibraryOK', Waits(t, x), UNCHANGED <<given, overlapped>>,
           LocalSound(x, folder[Staging(t)], folder[Previous(t)]),
           x.at \notin Holding \cup Swapping
    PROVE  RestoreInv'
<1> DEFINE s == folder[Staging(t)]
<1>1. s \in Folders /\ (~s.there => s = NoFolder) /\ folder \in [Place -> Folders]
  BY Own DEF RestoreInv
<1>2. folder' = [folder EXCEPT ![Staging(t)] = s]
  BY <1>1
<1>3. LocalSound(x, s, folder[Previous(t)])
  OBVIOUS
<1> HIDE DEF s
<1> QED BY <1>1, <1>2, <1>3, InPlaceKeeps

\* A restore begins; a provider-only row shows Syncing from then on.
LEMMA StartKeeps ==
    ASSUME RestoreInv, NEW t \in Task, NEW remote \in BOOLEAN, StartRestore(t, remote)
    PROVE  RestoreInv'
<1>1. PICK choice \in Choices :
         task' = [task EXCEPT ![t] = [Idle EXCEPT !.at = "resolve", !.choice = choice,
                                                   !.remote = remote]]
  BY DEF StartRestore, Choices
<1> DEFINE x == [Idle EXCEPT !.at = "resolve", !.choice = choice, !.remote = remote]
<1>2. /\ x \in Tasks /\ x.at = "resolve" /\ x.remote = remote /\ x.to = Requested
      /\ task' = [task EXCEPT ![t] = x]
  BY <1>1, Places DEF Idle, Tasks
<1> HIDE DEF x
<1>3. LibraryOK'
  BY DEF StartRestore, LibraryOK, RestoreInv, Sound, RestoreTypeOK
<1>4. Waits(t, x)
  BY <1>2 DEF StartRestore, Waits
<1>5. LocalSound(x, folder[Staging(t)], folder[Previous(t)])
  BY <1>2 DEF LocalSound, Swapping, StartRestore, RestoreInv, Sound, TaskSound
<1>6. x.at \notin Holding \cup Swapping
  BY <1>2 DEF Holding, Swapping
<1>7. folder' = folder /\ UNCHANGED <<given, overlapped>>
  BY DEF StartRestore
<1> QED BY <1>2, <1>3, <1>4, <1>5, <1>6, <1>7, StillKeeps

\* The collision choice picks a folder: the requested one, or the first number
\* nobody uses.
LEMMA ResolveKeeps ==
    ASSUME RestoreInv, NEW t \in Task, ResolveCollision(t)
    PROVE  RestoreInv'
<1>1. CASE Fails(t, folder)
  BY <1>1, FailsKeeps DEF ResolveCollision
<1>2. CASE ~Fails(t, folder)
  <2>1. PICK n \in IF task[t].choice = "Duplicate" THEN Unused ELSE {1} :
           task' = [task EXCEPT ![t].at = "stage", ![t].to = Numbered(n)]
    BY <1>2 DEF ResolveCollision
  <2> DEFINE x == [task[t] EXCEPT !.at = "stage", !.to = Numbered(n)]
  <2>2. Sound /\ task \in [Task -> Tasks] /\ task[t] \in Tasks
        /\ given \in SUBSET MineFile /\ overlapped \in BOOLEAN
    BY DEF RestoreInv, Sound, RestoreTypeOK
  <2>3. Numbered(n) \in Root /\ (task[t].choice \in Replacing => Numbered(n) = Requested)
    <3>1. CASE task[t].choice = "Duplicate"
      BY <3>1, NumberedPlaces DEF Unused, Replacing
    <3>2. CASE task[t].choice # "Duplicate"
      BY <3>2, Places DEF Requested
    <3> QED BY <3>1, <3>2
  <2>4. /\ x \in Tasks /\ x.at = "stage" /\ x.remote = task[t].remote
        /\ x.choice = task[t].choice /\ x.to = Numbered(n) /\ task' = [task EXCEPT ![t] = x]
    BY <2>1, <2>2, <2>3 DEF Tasks
  <2> HIDE DEF x
  <2>5. /\ folder' = [folder EXCEPT ![Staging(t)] = Empty]
        /\ UNCHANGED <<given, overlapped>> /\ UNCHANGED library /\ faults' = faults
    BY <1>2 DEF ResolveCollision
  <2>6. LibraryOK'
    BY <2>2, <2>5, LibraryKept
  <2>7. Waits(t, x)
    BY <2>4, <2>5, WaitsOn
  <2>8. LocalSound(x, Empty, folder[Previous(t)])
    <3>1. folder[Previous(t)] = NoFolder
      BY <2>2 DEF ResolveCollision, Sound, TaskSound
    <3>2. \A f \in File : Empty.files[f] = "absent"
      BY NoFolderType
    <3> QED BY <2>3, <2>4, <3>1, <3>2, NoFolderType DEF LocalSound, Swapping
  <2>9. x.at \notin Holding \cup Swapping
    BY <2>4 DEF Holding, Swapping
  <2>10. Empty \in Folders /\ Empty.there
    BY NoFolderType
  <2> QED BY <2>4, <2>5, <2>6, <2>7, <2>8, <2>9, <2>10, InPlaceKeeps
<1> QED BY <1>1, <1>2

\* Staging ends with the tree waiting for its place, or with a folder to set
\* aside that no other restore is publishing, unless restores overlap.
LEMMA StageKeeps ==
    ASSUME RestoreInv, NEW t \in Task, NEW got \in Fetchable, Stage(t, got)
    PROVE  RestoreInv'
<1> DEFINE there == Exists(task[t].to)
           replacing == task[t].choice \in Replacing
           x == [task[t] EXCEPT !.at = IF there THEN "protect" ELSE "install", !.files = got]
           s == [folder[Staging(t)] EXCEPT !.files = Written(got)]
           p == folder[Previous(t)]
           q == folder[task[t].to]
<1>1. UNCHANGED library /\ UNCHANGED given /\ (Fault \/ faults' = faults) /\ task[t].at = "stage"
  BY DEF Stage
<1>2. CASE (replacing /\ got # VersionFile) \/ (~replacing /\ there)
  BY <1>1, <1>2, FailsKeeps DEF Stage
<1>3. CASE ~((replacing /\ got # VersionFile) \/ (~replacing /\ there))
  <2>1. /\ Sound /\ task \in [Task -> Tasks] /\ task[t] \in Tasks
        /\ given \in SUBSET MineFile /\ overlapped \in BOOLEAN /\ got \subseteq VersionFile
    BY DEF RestoreInv, Sound, RestoreTypeOK, Fetchable
  <2>2. /\ folder' = [folder EXCEPT ![Staging(t)].files = Written(got)]
        /\ task' = [task EXCEPT ![t].at = IF there THEN "protect" ELSE "install",
                                ![t].files = got]
        /\ overlapped' = (overlapped \/ (there /\ Publishing # {}))
    BY <1>3 DEF Stage
  <2>3. /\ x \in Tasks /\ x.at = (IF there THEN "protect" ELSE "install")
        /\ x.remote = task[t].remote /\ x.choice = task[t].choice /\ x.to = task[t].to
        /\ x.files = got /\ task' = [task EXCEPT ![t] = x]
    BY <2>1, <2>2 DEF Tasks
  <2>4. /\ folder[Staging(t)] \in Folders /\ folder[Staging(t)].there
        /\ folder[Staging(t)].sidecar = "none" /\ p = NoFolder
        /\ task[t].choice \in Replacing => task[t].to = Requested
        /\ folder \in [Place -> Folders] /\ Staging(t) \in Place
    BY <1>1, <2>1, Own DEF Sound, TaskSound
  <2>5. Written(got) \in [File -> Content]
        /\ \A f \in File \ VersionFile : Written(got)[f] = "absent"
    BY <2>1 DEF Written, Content
  <2>6. /\ s \in Folders /\ s.there /\ s.sidecar = "none" /\ s.files = Written(got)
        /\ folder' = [folder EXCEPT ![Staging(t)] = s]
    BY <2>2, <2>4, <2>5 DEF Folders
  <2>7. (~p.there => p = NoFolder) /\ (~q.there => q = NoFolder)
    BY <2>1, Own
  <2>8. LibraryOK'
    BY <1>1, <2>1, <2>2, LibraryKept
  <2> HIDE DEF x, s
  <2>9. Waits(t, x)
    BY <1>1, <2>3, WaitsOn
  <2>10. LocalSound(x, s, p)
    BY <1>3, <2>3, <2>4, <2>5, <2>6 DEF LocalSound, Swapping
  <2>11. Does(t, x, s, p, q)
    BY <2>1, <2>3, <2>6, DoesStaging
  <2>12. ASSUME ~overlapped' PROVE Orderly(t, x, q)
    <3>1. there => Publishing = {} /\ task[t].to = Requested
      BY <1>3, <2>2, <2>4, <2>12
    <3> QED BY <1>1, <2>3, <3>1 DEF Orderly, Holding, Swapping, Exists
  <2>13. ASSUME ~overlapped'
         PROVE  Keeps(t, x, p, q) /\ LocalOverwritten(x, p, q) /\ MayEnrol(t, x, p, q)
    BY <1>1, <2>2, <2>3, <2>13, SameFolders
  <2> HIDE DEF p, q
  <2>14. overlapped => overlapped'
    BY <2>2
  <2> QED BY <1>1, <2>6, <2>7, <2>8, <2>9, <2>10, <2>11, <2>12, <2>13, <2>14, StepKeeps
<1> QED BY <1>2, <1>3

\* A restored folder is listed as a row.
LEMMA ListingType ==
    ASSUME NEW n \in Root
    PROVE  Listing(n) \subseteq [at : Root, linked : BOOLEAN]
<1> DEFINE l == folder[n].sidecar = "enrolled"
           row == [at |-> n, linked |-> l]
<1>1. l \in BOOLEAN
  OBVIOUS
<1>2. Listing(n) = IF folder[n].files[ProjectFile] = "absent" THEN {} ELSE {row}
  BY DEF Listing
<1> HIDE DEF l
<1>3. row \in [at : Root, linked : BOOLEAN]
  BY <1>1
<1> HIDE DEF row
<1> QED BY <1>2, <1>3

\* The result of a restore reaches its row.
LEMMA RestoreDoneKeeps ==
    ASSUME RestoreInv, NEW t \in Task, RestoreDone(t)
    PROVE  RestoreInv'
<1> DEFINE x == [Idle EXCEPT !.at = "over"]
<1>1. /\ x \in Tasks /\ x.at = "over" /\ x.choice = "AbortIfExists" /\ x.to = Requested
      /\ task' = [task EXCEPT ![t] = x]
  BY Places DEF Idle, Tasks, Choices, RestoreDone
<1> HIDE DEF x
<1>2. Listing(task[t].to) \subseteq [at : Root, linked : BOOLEAN]
  <2>1. task[t].to \in Root
    BY Own DEF RestoreInv
  <2> QED BY <2>1, ListingType
<1>3. LibraryOK'
  <2>1. LibraryOK
    BY DEF LibraryOK, RestoreInv, Sound, RestoreTypeOK
  <2>2. remoteRow' \in {"none", "NotDownloaded", "Syncing"}
    BY <2>1 DEF RestoreDone, LibraryOK
  <2>3. rows' \subseteq [at : Root, linked : BOOLEAN]
    BY <1>2, <2>1 DEF RestoreDone, LibraryOK
  <2>4. watched' \in BOOLEAN
    BY <2>1 DEF RestoreDone, LibraryOK
  <2> QED BY <2>1, <2>2, <2>3, <2>4 DEF RestoreDone, LibraryOK
<1>4. Waits(t, x)
  BY DEF RestoreDone, Waits
<1>5. LocalSound(x, folder[Staging(t)], folder[Previous(t)])
  BY <1>1 DEF LocalSound, Swapping, Replacing
<1>6. x.at \notin Holding \cup Swapping
  BY <1>1 DEF Holding, Swapping
<1>7. folder' = folder /\ UNCHANGED <<given, overlapped>>
  BY DEF RestoreDone
<1> QED BY <1>1, <1>3, <1>4, <1>5, <1>6, <1>7, StillKeeps

\* A sidecar that cannot be written ends the restore, its files in place.
LEMMA EnrolFailsKeeps ==
    ASSUME RestoreInv, NEW t \in Task, EnrolFails(t)
    PROVE  RestoreInv'
<1> DEFINE x == [task[t] EXCEPT !.at = "done", !.error = TRUE]
<1>1. Sound /\ given \in SUBSET MineFile /\ overlapped \in BOOLEAN
  BY DEF RestoreInv, Sound, RestoreTypeOK
<1>2. /\ x \in Tasks /\ x.at = "done" /\ x.remote = task[t].remote
      /\ task' = [task EXCEPT ![t] = x]
      /\ x.choice \in Replacing => x.to = Requested
  BY <1>1, Done DEF EnrolFails
<1> HIDE DEF x
<1>3. /\ folder' = folder /\ UNCHANGED <<given, overlapped>> /\ UNCHANGED library /\ Fault
  BY DEF EnrolFails
<1>4. LibraryOK'
  BY <1>1, <1>3, LibraryKept
<1>5. Waits(t, x)
  BY <1>2, <1>3, WaitsOn
<1>6. LocalSound(x, folder[Staging(t)], folder[Previous(t)])
  BY <1>2 DEF LocalSound, Swapping
<1>7. x.at \notin Holding \cup Swapping
  BY <1>2 DEF Holding, Swapping
<1> QED BY <1>2, <1>3, <1>4, <1>5, <1>6, <1>7, StillKeeps

\* A verified tree stays where it is, and is enrolled only if it is whole.
LEMMA PlacedType ==
    ASSUME Sound, NEW t \in Task, Placed(t)
    PROVE  \E x \in Tasks :
              /\ x.at = (IF task[t].remote /\ task[t].files = VersionFile THEN "enrol" ELSE "done")
              /\ x.remote = task[t].remote /\ x.choice = task[t].choice /\ x.to = task[t].to
              /\ task' = [task EXCEPT ![t] = x]
<1> DEFINE at == IF task[t].remote /\ task[t].files = VersionFile THEN "enrol" ELSE "done"
           error == task[t].remote /\ task[t].files # VersionFile
           x == [task[t] EXCEPT !.at = at, !.error = error]
<1>1. task \in [Task -> Tasks] /\ task[t] \in Tasks
  BY DEF Sound, RestoreTypeOK
<1>2. at \in {"enrol", "done"} /\ error \in BOOLEAN
  BY <1>1 DEF Tasks
<1>3. task' = [task EXCEPT ![t].at = at, ![t].error = error]
  BY DEF Placed
<1> HIDE DEF at, error
<1>4. /\ x \in Tasks /\ x.at = at
      /\ x.remote = task[t].remote /\ x.choice = task[t].choice /\ x.to = task[t].to
      /\ task' = [task EXCEPT ![t] = x]
  BY <1>1, <1>2, <1>3 DEF Tasks
<1> QED BY <1>4 DEF at

\* After verification a complete recovery goes on to be enrolled; any other
\* restore is done.
LEMMA PlacedKeeps ==
    ASSUME RestoreInv, NEW t \in Task, task[t].at \in {"check", "clean"}, Placed(t),
           folder' = folder, UNCHANGED <<library, given, overlapped>>, Fault \/ faults' = faults,
           ~overlapped /\ task[t].files = VersionFile => Whole(folder[task[t].to])
    PROVE  RestoreInv'
<1> DEFINE s == folder[Staging(t)]
           p == folder[Previous(t)]
           q == folder[task[t].to]
<1>1. Sound /\ given \in SUBSET MineFile /\ overlapped \in BOOLEAN
  BY DEF RestoreInv, Sound, RestoreTypeOK
<1>2. PICK x \in Tasks :
         /\ x.at = (IF task[t].remote /\ task[t].files = VersionFile THEN "enrol" ELSE "done")
         /\ x.remote = task[t].remote /\ x.choice = task[t].choice /\ x.to = task[t].to
         /\ task' = [task EXCEPT ![t] = x]
  BY <1>1, PlacedType
<1>3. LibraryOK'
  BY <1>1, LibraryKept
<1>4. Waits(t, x)
  BY <1>2, WaitsOn
<1>5. LocalSound(x, s, p)
  BY <1>1, <1>2 DEF LocalSound, Swapping, Sound, TaskSound
<1>6. Does(t, x, s, p, q)
  BY <1>1, <1>2, DoesNothing
<1>7. (~s.there => s = NoFolder) /\ (~p.there => p = NoFolder) /\ (~q.there => q = NoFolder)
  BY <1>1, Own
<1>8. ASSUME ~overlapped' PROVE Orderly(t, x, q)
  <2>1. q.there /\ task[t].at \in Holding
    BY <1>1, <1>8 DEF Sound, Exclusive, Holding, Exists
  <2> QED BY <1>2, <2>1 DEF Orderly, Swapping
<1>9. ASSUME ~overlapped'
      PROVE  Keeps(t, x, p, q) /\ LocalOverwritten(x, p, q) /\ MayEnrol(t, x, p, q)
  BY <1>2, <1>9, SameFolders
<1> HIDE DEF s, p, q
<1> QED BY <1>3, <1>4, <1>5, <1>6, <1>7, <1>8, <1>9, StepKeeps

\* A folder set aside that cannot be removed stays.
LEMMA CleanFailsKeeps ==
    ASSUME RestoreInv, NEW t \in Task, CleanFails(t)
    PROVE  RestoreInv'
<1>1. ~overlapped => Whole(folder[task[t].to])
  BY DEF CleanFails, RestoreInv, EnrolledInv
<1> QED BY <1>1, PlacedKeeps DEF CleanFails

\* The folder set aside is removed after the new tree was confirmed.
LEMMA CleanKeeps ==
    ASSUME RestoreInv, NEW t \in Task, Clean(t)
    PROVE  RestoreInv'
<1> DEFINE s == folder[Staging(t)]
           p == NoFolder
           q == folder[task[t].to]
<1>1. Sound /\ given \in SUBSET MineFile /\ overlapped \in BOOLEAN /\ task[t].at = "clean"
  BY DEF RestoreInv, Sound, RestoreTypeOK, Clean
<1>2. PICK x \in Tasks :
         /\ x.at = (IF task[t].remote /\ task[t].files = VersionFile THEN "enrol" ELSE "done")
         /\ x.remote = task[t].remote /\ x.choice = task[t].choice /\ x.to = task[t].to
         /\ task' = [task EXCEPT ![t] = x]
  BY <1>1, PlacedType DEF Clean
<1>3. UNCHANGED library /\ faults' = faults /\ UNCHANGED <<given, overlapped>>
  BY DEF Clean
<1>4. LibraryOK'
  BY <1>1, <1>3, LibraryKept
<1>5. Waits(t, x)
  BY <1>2, <1>3, WaitsOn
<1>6. LocalSound(x, s, p)
  BY <1>1, <1>2 DEF LocalSound, Swapping, Sound, TaskSound
<1>7. Does(t, x, s, p, q)
  BY <1>1, <1>2, Own, NoFolderType DEF Clean, Does
<1>8. (~s.there => s = NoFolder) /\ (~q.there => q = NoFolder)
  BY <1>1, Own
<1>9. ASSUME ~overlapped' PROVE Orderly(t, x, q)
  <2>1. q.there /\ task[t].at \in Holding
    BY <1>1, <1>3, <1>9 DEF Sound, Exclusive, Holding, Exists
  <2> QED BY <1>2, <2>1 DEF Orderly, Swapping
<1>10. ASSUME ~overlapped'
       PROVE  Keeps(t, x, p, q) /\ LocalOverwritten(x, p, q) /\ MayEnrol(t, x, p, q)
  <2>1. Whole(q)
    BY <1>1, <1>3, <1>10 DEF RestoreInv, EnrolledInv
  <2>2. task'[t] = x /\ \A u \in Task \ {t} : task'[u] = task[u]
    BY <1>1, <1>2 DEF Sound, RestoreTypeOK
  <2>3. Settled => Settled'
    BY <1>2, <2>2 DEF Settled
  <2>4. Keeps(t, x, p, q)
    BY <1>1, <1>3, <2>3 DEF Keeps
  <2>5. LocalOverwritten(x, p, q)
    BY <1>2 DEF LocalOverwritten
  <2>6. MayEnrol(t, x, p, q)
    BY <1>1, <1>2, <2>1 DEF MayEnrol, Swapping
  <2> QED BY <2>4, <2>5, <2>6
<1> HIDE DEF s, q
<1> QED BY <1>3, <1>4, <1>5, <1>6, <1>7, <1>8, <1>9, <1>10, StepKeeps

\* A tree installed in a free place is verified; one that fails is taken away or
\* left without a sidecar.
LEMMA CheckKeeps ==
    ASSUME RestoreInv, NEW t \in Task, Check(t)
    PROVE  RestoreInv'
<1>1. CASE Verifies(t)
  <2>1. task[t].files = VersionFile => Whole(folder[task[t].to])
    BY <1>1 DEF Verifies, Whole
  <2> QED BY <1>1, <2>1, PlacedKeeps DEF Check
<1>2. CASE Fails(t, folder) /\ Fault
  BY <1>2, FailsKeeps DEF Check
<1>3. CASE Fails(t, [folder EXCEPT ![task[t].to] = NoFolder]) /\ UNCHANGED faults
  <2> DEFINE x == [task[t] EXCEPT !.at = "done", !.error = TRUE]
             p == folder[Previous(t)]
  <2>1. Sound /\ given \in SUBSET MineFile /\ overlapped \in BOOLEAN /\ task[t].at = "check"
    BY DEF RestoreInv, Sound, RestoreTypeOK, Check
  <2>2. /\ x \in Tasks /\ x.at = "done" /\ x.remote = task[t].remote
        /\ task' = [task EXCEPT ![t] = x]
        /\ x.choice \in Replacing => x.to = Requested
    BY <1>3, <2>1, Done DEF Fails
  <2> HIDE DEF x
  <2>3. UNCHANGED library /\ faults' = faults /\ UNCHANGED <<given, overlapped>>
    BY <1>3 DEF Check
  <2>4. LibraryOK'
    BY <2>1, <2>3, LibraryKept
  <2>5. Waits(t, x)
    BY <2>2, <2>3, WaitsOn
  <2>6. LocalSound(x, NoFolder, p)
    BY <2>2 DEF LocalSound, Swapping
  <2>7. Does(t, x, NoFolder, p, NoFolder)
    BY <1>3, <2>1, <2>2, Own, NoFolderType DEF Fails, Does
  <2>8. ~p.there => p = NoFolder
    BY <2>1, Own
  <2>9. Orderly(t, x, NoFolder)
    BY <2>1, <2>2 DEF Orderly, Holding, Swapping
  <2>10. Keeps(t, x, p, NoFolder)
    BY <2>1, <2>2, <2>3 DEF Keeps, Settled
  <2>11. LocalOverwritten(x, p, NoFolder)
    BY <2>2 DEF LocalOverwritten
  <2>12. MayEnrol(t, x, p, NoFolder)
    BY <2>1, <2>2, NoFolderType DEF MayEnrol, Calls, Exists
  <2> HIDE DEF p
  <2> QED BY <2>3, <2>4, <2>5, <2>6, <2>7, <2>8, <2>9, <2>10, <2>11, <2>12, StepKeeps
<1> QED BY <1>1, <1>2, <1>3 DEF Check

\* A whole tree gets its sidecar.
LEMMA EnrolKeeps ==
    ASSUME RestoreInv, NEW t \in Task, Enrol(t)
    PROVE  RestoreInv'
<1> DEFINE x == [task[t] EXCEPT !.at = "done"]
           s == folder[Staging(t)]
           p == folder[Previous(t)]
           q == [folder[task[t].to] EXCEPT !.there = TRUE, !.sidecar = "enrolled"]
<1>1. /\ Sound /\ given \in SUBSET MineFile /\ overlapped \in BOOLEAN /\ task[t].at = "enrol"
      /\ task \in [Task -> Tasks] /\ task[t] \in Tasks
  BY DEF RestoreInv, Sound, RestoreTypeOK, Enrol
<1>2. UNCHANGED library /\ faults' = faults /\ UNCHANGED <<given, overlapped>>
  BY DEF Enrol
<1>3. /\ x \in Tasks /\ x.at = "done" /\ x.remote = task[t].remote
      /\ x.choice = task[t].choice /\ x.to = task[t].to /\ task' = [task EXCEPT ![t] = x]
  BY <1>1 DEF Tasks, Enrol, At
<1> HIDE DEF x
<1>4. /\ task[t].to \in Place /\ folder \in [Place -> Folders] /\ folder[task[t].to] \in Folders
      /\ (~s.there => s = NoFolder) /\ (~p.there => p = NoFolder)
      /\ s \in Folders /\ p \in Folders
      /\ Staging(t) \in Place /\ Previous(t) \in Place
      /\ Staging(t) # Previous(t) /\ Staging(t) # task[t].to /\ Previous(t) # task[t].to
  BY <1>1, Own
<1>5. /\ q \in Folders /\ q.there /\ q.files = folder[task[t].to].files
      /\ folder' = [folder EXCEPT ![task[t].to] = q]
  BY <1>4 DEF Folders, Sidecar, Enrol
<1> HIDE DEF q
<1>6. Does(t, x, s, p, q)
  BY <1>3, <1>4, <1>5 DEF Does
<1>7. LibraryOK'
  BY <1>1, <1>2, LibraryKept
<1>8. Waits(t, x)
  BY <1>2, <1>3, WaitsOn
<1>9. LocalSound(x, s, p)
  BY <1>1, <1>3 DEF LocalSound, Swapping, Sound, TaskSound
<1>10. Orderly(t, x, q)
  BY <1>1, <1>3 DEF Orderly, Holding, Swapping
<1>11. ASSUME ~overlapped'
       PROVE  Keeps(t, x, p, q) /\ LocalOverwritten(x, p, q) /\ MayEnrol(t, x, p, q)
  <2>1. Whole(q)
    BY <1>1, <1>2, <1>5, <1>11 DEF RestoreInv, EnrolledInv, Whole
  <2>2. task'[t] = x /\ \A u \in Task \ {t} : task'[u] = task[u]
    BY <1>1, <1>3
  <2>3. Settled => Settled'
    BY <1>3, <2>2 DEF Settled
  <2>4. Keeps(t, x, p, q)
    BY <1>2, <1>3, <1>5, <2>3 DEF Keeps
  <2>5. LocalOverwritten(x, p, q)
    BY <1>3 DEF LocalOverwritten
  <2>6. MayEnrol(t, x, p, q)
    BY <1>3, <2>1 DEF MayEnrol, Exists
  <2> QED BY <2>4, <2>5, <2>6
<1> HIDE DEF s, p
<1> QED BY <1>2, <1>4, <1>5, <1>6, <1>7, <1>8, <1>9, <1>10, <1>11, StepKeeps

-----------------------------------------------------------------------------
\* Steps that move folders.

\* A restore that moves to its next stage keeps all else.
LEMMA AtType ==
    ASSUME Sound, NEW t \in Task,
           NEW a \in {"check", "replace", "merge", "confirm", "clean"}, At(t, a)
    PROVE  \E x \in Tasks :
              /\ x.at = a /\ x.remote = task[t].remote /\ x.choice = task[t].choice
              /\ x.to = task[t].to /\ x.files = task[t].files
              /\ task' = [task EXCEPT ![t] = x]
<1> DEFINE x == [task[t] EXCEPT !.at = a]
<1>1. task \in [Task -> Tasks] /\ task[t] \in Tasks
  BY DEF Sound, RestoreTypeOK
<1>2. /\ x \in Tasks /\ x.at = a /\ x.remote = task[t].remote /\ x.choice = task[t].choice
      /\ x.to = task[t].to /\ x.files = task[t].files
      /\ task' = [task EXCEPT ![t] = x]
  BY <1>1 DEF Tasks, At
<1> QED BY <1>2

\* A staged tree that lands has only files of the version, and no sidecar.
LEMMA Lands ==
    ASSUME Sound, NEW t \in Task, NEW damaged \in BOOLEAN, task[t].at \in {"install", "replace"},
           folder' = Landed(Moved(folder, Staging(t), task[t].to), task[t].to, damaged)
    PROVE  \E q \in Folders :
              /\ q.there /\ q.sidecar = "none"
              /\ \A f \in File \ VersionFile : q.files[f] = "absent"
              /\ folder' = [folder EXCEPT ![task[t].to] = q, ![Staging(t)] = NoFolder]
<1> DEFINE s == folder[Staging(t)]
           files == IF damaged THEN [s.files EXCEPT ![ProjectFile] = "damaged"] ELSE s.files
           q == [s EXCEPT !.files = files]
<1>1. /\ folder \in [Place -> Folders] /\ s \in Folders
      /\ Staging(t) \in Place /\ task[t].to \in Place /\ Staging(t) # task[t].to
  BY Own
<1>2. /\ s.there /\ s.sidecar = "none" /\ \A f \in File \ VersionFile : s.files[f] = "absent"
  BY DEF Sound, TaskSound
<1>3. ProjectFile \in VersionFile /\ ProjectFile \in File /\ s.files \in [File -> Content]
  BY <1>1, RestoreAssumption DEF File, Folders
<1>4. files \in [File -> Content] /\ \A f \in File \ VersionFile : files[f] = "absent"
  BY <1>2, <1>3 DEF Content
<1>5. CASE ~damaged
  BY <1>1, <1>2, <1>5 DEF Landed, Moved
<1>6. CASE damaged
  <2>1. files = [s.files EXCEPT ![ProjectFile] = "damaged"]
    BY <1>6
  <2> HIDE DEF files
  <2>2. /\ q \in Folders /\ q.there /\ q.sidecar = "none" /\ q.files = files
    BY <1>1, <1>2, <1>4 DEF Folders
  <2>3. folder' = [folder EXCEPT ![task[t].to] = q, ![Staging(t)] = NoFolder]
    <3>1. folder' = [Moved(folder, Staging(t), task[t].to) EXCEPT
                        ![task[t].to].files[ProjectFile] = "damaged"]
      BY <1>6 DEF Landed
    <3>2. Moved(folder, Staging(t), task[t].to)[task[t].to] = s
      BY <1>1 DEF Moved
    <3>3. folder' = [Moved(folder, Staging(t), task[t].to) EXCEPT ![task[t].to] = q]
      BY <1>1, <2>1, <3>1, <3>2
    <3> HIDE DEF q
    <3> QED BY <1>1, <3>3 DEF Moved
  <2>4. \A f \in File \ VersionFile : q.files[f] = "absent"
    BY <1>4, <2>2
  <2> HIDE DEF q
  <2> QED BY <2>2, <2>3, <2>4
<1> QED BY <1>5, <1>6

\* The staged tree is renamed into its place, which is free.
LEMMA LandKeeps ==
    ASSUME RestoreInv, NEW t \in Task, NEW damaged \in BOOLEAN, ~Exists(task[t].to),
           folder' = Landed(Moved(folder, Staging(t), task[t].to), task[t].to, damaged),
           NEW a \in {"check", "merge", "confirm"}, At(t, a),
           IF a = "check" THEN task[t].at = "install" ELSE task[t].at = "replace",
           a = "confirm" => task[t].choice # "Overwrite",
           UNCHANGED <<library, given, overlapped>>, Fault \/ faults' = faults
    PROVE  RestoreInv'
<1> DEFINE s == NoFolder
           p == folder[Previous(t)]
<1>1. /\ Sound /\ given \in SUBSET MineFile /\ overlapped \in BOOLEAN
      /\ task[t].at \in {"install", "replace"}
  BY DEF RestoreInv, Sound, RestoreTypeOK
<1>2. PICK q \in Folders :
         /\ q.there /\ q.sidecar = "none"
         /\ \A f \in File \ VersionFile : q.files[f] = "absent"
         /\ folder' = [folder EXCEPT ![task[t].to] = q, ![Staging(t)] = NoFolder]
  BY <1>1, Lands
<1>3. PICK x \in Tasks :
         /\ x.at = a /\ x.remote = task[t].remote /\ x.choice = task[t].choice
         /\ x.to = task[t].to /\ x.files = task[t].files
         /\ task' = [task EXCEPT ![t] = x]
  BY <1>1, AtType
<1>4. LibraryOK'
  BY <1>1, LibraryKept
<1>5. Waits(t, x)
  BY <1>3, WaitsOn
<1>6. Does(t, x, s, p, q)
  BY <1>1, <1>2, <1>3, Own, NoFolderType DEF Does
<1>7. (~p.there => p = NoFolder) /\ (~s.there => s = NoFolder) /\ (~q.there => q = NoFolder)
  BY <1>1, <1>2, Own
<1>8. /\ task[t].choice \in Replacing => task[t].to = Requested
      /\ task[t].at = "replace" => /\ task[t].choice \in Replacing /\ task[t].files = VersionFile
                                   /\ p.there /\ task[t].to = Requested
  BY <1>1 DEF Sound, TaskSound, Swapping, Exists
<1>9. LocalSound(x, s, p)
  BY <1>3, <1>8 DEF LocalSound, Swapping
<1>10. Orderly(t, x, q)
  BY <1>2, <1>3, <1>8 DEF Orderly, Holding, Swapping
<1>11. folder[task[t].to] = NoFolder
  BY <1>1, Own DEF Exists
<1>12. Keeps(t, x, p, q)
  BY <1>3, <1>11, NoFolderType DEF Keeps, File
<1>13. LocalOverwritten(x, p, q)
  BY <1>2, <1>3 DEF LocalOverwritten, File
<1>14. ASSUME ~overlapped' PROVE MayEnrol(t, x, p, q)
  <2>1. ~Calls(q)
    BY <1>2 DEF Calls
  <2>2. x.at \in {"merge", "confirm"} /\ Calls(p) =>
          Whole(p) \/ \E u \in Task \ {t} : Exists(Previous(u))
    BY <1>3, <1>14 DEF RestoreInv, EnrolledInv
  <2> QED BY <1>3, <2>1, <2>2 DEF MayEnrol, Exists
<1> HIDE DEF s, p
<1> QED BY <1>4, <1>5, <1>6, <1>7, <1>9, <1>10, <1>12, <1>13, <1>14, StepKeeps

\* Publication without replacing: the rename refuses to write over a folder.
LEMMA InstallKeeps ==
    ASSUME RestoreInv, NEW t \in Task, NEW damaged \in BOOLEAN, Install(t, damaged)
    PROVE  RestoreInv'
<1>1. UNCHANGED <<library, given, overlapped>> /\ (Fault \/ faults' = faults)
  BY DEF Install
<1>2. CASE Exists(task[t].to)
  BY <1>1, <1>2, FailsKeeps DEF Install
<1>3. CASE ~Exists(task[t].to)
  <2>1. At(t, "check") /\ task[t].at = "install"
        /\ folder' = Landed(Moved(folder, Staging(t), task[t].to), task[t].to, damaged)
    BY <1>3 DEF Install
  <2> QED BY <1>1, <1>3, <2>1, LandKeeps
<1> QED BY <1>2, <1>3

\* Publication in place of the folder that was set aside.
LEMMA ReplaceKeeps ==
    ASSUME RestoreInv, NEW t \in Task, NEW damaged \in BOOLEAN, Replace(t, damaged)
    PROVE  RestoreInv'
<1>1. UNCHANGED <<library, given, overlapped>> /\ (Fault \/ faults' = faults)
  BY DEF Replace
<1>2. CASE Exists(task[t].to)
  BY <1>1, <1>2, FailsKeeps DEF Replace
<1>3. CASE ~Exists(task[t].to)
  <2> DEFINE a == IF task[t].choice = "Overwrite" THEN "merge" ELSE "confirm"
  <2>1. At(t, a) /\ task[t].at = "replace"
        /\ folder' = Landed(Moved(folder, Staging(t), task[t].to), task[t].to, damaged)
    BY <1>3 DEF Replace
  <2>2. /\ a \in {"check", "merge", "confirm"} /\ a # "check"
        /\ a = "confirm" => task[t].choice # "Overwrite"
    OBVIOUS
  <2> HIDE DEF a
  <2> QED BY <1>1, <1>3, <2>1, <2>2, LandKeeps
<1> QED BY <1>2, <1>3

\* The folder in the way is set aside before anything takes its place.
LEMMA ProtectKeeps ==
    ASSUME RestoreInv, NEW t \in Task, Protect(t)
    PROVE  RestoreInv'
<1>1. UNCHANGED <<library, given, overlapped>> /\ faults' = faults /\ task[t].at = "protect"
  BY DEF Protect
<1>2. CASE ~Exists(task[t].to)
  BY <1>1, <1>2, FailsKeeps DEF Protect
<1>3. CASE Exists(task[t].to)
  <2> DEFINE s == folder[Staging(t)]
             p == folder[task[t].to]
             q == NoFolder
  <2>1. Sound /\ given \in SUBSET MineFile /\ overlapped \in BOOLEAN
    BY DEF RestoreInv, Sound, RestoreTypeOK
  <2>2. At(t, "replace") /\ folder' = Moved(folder, task[t].to, Previous(t))
    BY <1>3 DEF Protect
  <2>3. PICK x \in Tasks :
           /\ x.at = "replace" /\ x.remote = task[t].remote /\ x.choice = task[t].choice
           /\ x.to = task[t].to /\ x.files = task[t].files
           /\ task' = [task EXCEPT ![t] = x]
    BY <2>1, <2>2, AtType
  <2>4. LibraryOK'
    BY <1>1, <2>1, LibraryKept
  <2>5. Waits(t, x)
    BY <1>1, <2>3, WaitsOn
  <2>6. Does(t, x, s, p, q)
    BY <2>1, <2>2, <2>3, Own, NoFolderType DEF Does, Moved
  <2>7. (~s.there => s = NoFolder) /\ (~p.there => p = NoFolder) /\ p.there
    BY <1>3, <2>1, Own DEF Exists
  <2>8. /\ task[t].choice \in Replacing /\ task[t].files = VersionFile
        /\ task[t].to = Requested /\ folder[Previous(t)] = NoFolder
        /\ s.there /\ s.sidecar = "none"
        /\ \A f \in File \ VersionFile : s.files[f] = "absent"
    BY <1>1, <2>1 DEF Sound, TaskSound, Swapping
  <2>9. LocalSound(x, s, p)
    BY <2>3, <2>7, <2>8 DEF LocalSound, Swapping
  <2>10. Orderly(t, x, q)
    BY <1>1, <2>3 DEF Orderly, Holding, Swapping
  <2>11. Keeps(t, x, p, q)
    BY <2>3, <2>8, NoFolderType DEF Keeps, File
  <2>12. LocalOverwritten(x, p, q)
    BY <2>3 DEF LocalOverwritten
  <2>13. ASSUME ~overlapped' PROVE MayEnrol(t, x, p, q)
    <3>1. ~Calls(q) /\ ~Exists(Previous(t))
      BY <2>8, NoFolderType DEF Calls, Exists
    <3>2. Calls(p) => Whole(p) \/ \E u \in Task \ {t} : Exists(Previous(u))
      BY <1>1, <2>8, <2>13, <3>1 DEF RestoreInv, EnrolledInv
    <3> QED BY <2>3, <3>1, <3>2 DEF MayEnrol
  <2> HIDE DEF s, p
  <2> QED BY <1>1, <2>4, <2>5, <2>6, <2>7, <2>9, <2>10, <2>11, <2>12, <2>13, StepKeeps
<1> QED BY <1>2, <1>3

\* Restore t alone holds the requested folder, or nobody does.
LEMMA OthersSettled ==
    ASSUME Sound, ~overlapped, NEW t \in Task, task[t].to = Requested,
           task[t].at \in Holding \/ ~Exists(Requested)
    PROVE  \A u \in Task \ {t} : task[u].at \in {"check", "merge", "confirm"}
                                    => task[u].to # Requested
BY DEF Sound, Exclusive, Holding

\* What was set aside is put back and the restore fails.
LEMMA PutBackKeeps ==
    ASSUME RestoreInv, NEW t \in Task, task[t].at \in {"replace", "merge", "confirm"},
           task[t].at = "replace" => ~Exists(task[t].to),
           task' = [task EXCEPT ![t].at = "done", ![t].error = TRUE],
           folder' = [folder EXCEPT ![task[t].to] = folder[Previous(t)],
                                    ![Previous(t)] = NoFolder, ![Staging(t)] = NoFolder],
           UNCHANGED <<library, given, overlapped>>, Fault \/ faults' = faults
    PROVE  RestoreInv'
<1> DEFINE x == [task[t] EXCEPT !.at = "done", !.error = TRUE]
           s == NoFolder
           p == NoFolder
           q == folder[Previous(t)]
<1>1. Sound /\ given \in SUBSET MineFile /\ overlapped \in BOOLEAN
  BY DEF RestoreInv, Sound, RestoreTypeOK
<1>2. /\ x \in Tasks /\ x.at = "done" /\ x.remote = task[t].remote
      /\ task' = [task EXCEPT ![t] = x]
      /\ x.choice \in Replacing => x.to = Requested
  BY <1>1, Done
<1> HIDE DEF x
<1>3. LibraryOK'
  BY <1>1, LibraryKept
<1>4. Waits(t, x)
  BY <1>2, WaitsOn
<1>5. Does(t, x, s, p, q)
  BY <1>1, <1>2, Own, NoFolderType DEF Does
<1>6. LocalSound(x, s, p)
  BY <1>2 DEF LocalSound, Swapping
<1>7. ~q.there => q = NoFolder
  BY <1>1, Own
<1>8. Orderly(t, x, q)
  BY <1>2 DEF Orderly, Holding, Swapping
<1>9. task[t].to = Requested /\ task[t].at \in Swapping
  BY <1>1 DEF Sound, TaskSound, Swapping
<1>10. ASSUME ~overlapped' PROVE Keeps(t, x, p, q)
  <2>1. task'[t] = x /\ \A u \in Task \ {t} : task'[u] = task[u]
    BY <1>1, <1>2 DEF Sound, RestoreTypeOK
  <2>2. \A u \in Task \ {t} : task[u].at \in {"check", "merge", "confirm"}
                                 => task[u].to # Requested
    BY <1>1, <1>9, <1>10, OthersSettled DEF Holding
  <2>3. Settled'
    <3>1. task'[t].at \notin {"check", "merge", "confirm"}
      BY <1>2, <2>1
    <3>2. ASSUME NEW u \in Task, task'[u].at \in {"check", "merge", "confirm"}
          PROVE  task'[u].to # Requested
      <4>1. u # t
        BY <3>1, <3>2
      <4>2. task'[u] = task[u]
        BY <2>1, <4>1
      <4> QED BY <2>2, <3>2, <4>1, <4>2
    <3> QED BY <3>2 DEF Settled
  <2>4. ASSUME Settled, NEW f \in MineFile PROVE folder[Requested].files[f] # "mine"
    <3>1. task[t].at = "replace"
      BY <1>9, <2>4 DEF Settled
    <3>2. folder[Requested] = NoFolder
      BY <1>1, <1>9, <3>1, Own DEF Exists
    <3> QED BY <3>2, NoFolderType DEF File
  <2> QED BY <1>9, <2>3, <2>4 DEF Keeps
<1>11. LocalOverwritten(x, p, q)
  BY <1>2 DEF LocalOverwritten
<1>12. ASSUME ~overlapped' PROVE MayEnrol(t, x, p, q)
  <2>1. Calls(q) => Whole(q) \/ \E u \in Task \ {t} : Exists(Previous(u))
    BY <1>12 DEF RestoreInv, EnrolledInv
  <2>2. \A u \in Task \ {t} : task[u].at # "clean"
    BY <1>1, <1>9, <1>12 DEF Sound, Exclusive, Swapping
  <2> QED BY <1>2, <1>9, <2>1, <2>2 DEF MayEnrol
<1> HIDE DEF s, p, q
<1>13. (~s.there => s = NoFolder) /\ (~p.there => p = NoFolder)
  BY DEF s, p
<1> QED BY <1>3, <1>4, <1>5, <1>6, <1>7, <1>8, <1>10, <1>11, <1>12, <1>13, StepKeeps

\* If the tree cannot be moved in, the folder set aside comes back or stays.
LEMMA ReplaceFailsKeeps ==
    ASSUME RestoreInv, NEW t \in Task, ReplaceFails(t)
    PROVE  RestoreInv'
<1>1. UNCHANGED <<library, given, overlapped>> /\ Fault /\ task[t].at = "replace"
  BY DEF ReplaceFails
<1>2. CASE Fails(t, folder)
  BY <1>1, <1>2, FailsKeeps
<1>3. CASE ~Fails(t, folder)
  <2>1. Fails(t, PutBack(folder, t)) /\ PutBack(folder, t) # folder
    BY <1>3 DEF ReplaceFails
  <2>2. ~Exists(task[t].to) /\ PutBack(folder, t) = Moved(folder, Previous(t), task[t].to)
    BY <2>1 DEF PutBack, Exists
  <2>3. folder' = [folder EXCEPT ![task[t].to] = folder[Previous(t)],
                                 ![Previous(t)] = NoFolder, ![Staging(t)] = NoFolder]
    BY <2>1, <2>2 DEF Fails, Moved
  <2>4. task' = [task EXCEPT ![t].at = "done", ![t].error = TRUE]
    BY <2>1 DEF Fails
  <2> QED BY <1>1, <2>2, <2>3, <2>4, PutBackKeeps
<1> QED BY <1>2, <1>3

\* Rolling back puts the folder set aside where it was.
LEMMA RolledBackKeeps ==
    ASSUME RestoreInv, NEW t \in Task, task[t].at \in {"merge", "confirm"},
           Fails(t, RolledBack(t)), UNCHANGED <<library, given, overlapped>>,
           Fault \/ faults' = faults
    PROVE  RestoreInv'
<1>1. CASE ~Exists(task[t].to)
  BY <1>1, FailsKeeps DEF RolledBack
<1>2. CASE Exists(task[t].to)
  <2> DEFINE fs == Moved(folder, task[t].to, Staging(t))
  <2>1. /\ folder \in [Place -> Folders] /\ task[t].to \in Place
        /\ Staging(t) \in Place /\ Previous(t) \in Place
        /\ Staging(t) # Previous(t) /\ Staging(t) # task[t].to /\ Previous(t) # task[t].to
        /\ folder[Previous(t)].there
    BY Own DEF RestoreInv, Sound, TaskSound, Exists
  <2>2. fs[task[t].to] = NoFolder /\ fs[Previous(t)] = folder[Previous(t)]
    BY <2>1 DEF Moved
  <2>3. RolledBack(t) = Moved(fs, Previous(t), task[t].to)
    BY <1>2, <2>1, <2>2, NoFolderType DEF RolledBack, PutBack
  <2>4. folder' = [Moved(fs, Previous(t), task[t].to) EXCEPT ![Staging(t)] = NoFolder]
    BY <2>3 DEF Fails
  <2>5. folder' = [folder EXCEPT ![task[t].to] = folder[Previous(t)],
                                 ![Previous(t)] = NoFolder, ![Staging(t)] = NoFolder]
    BY <2>1, <2>2, <2>4 DEF Moved
  <2>6. task' = [task EXCEPT ![t].at = "done", ![t].error = TRUE]
    BY DEF Fails
  <2> QED BY <2>5, <2>6, PutBackKeeps
<1> QED BY <1>1, <1>2

\* A failed copy of the user's other files rolls the replacement back, or leaves
\* both folders.
LEMMA MergeFailsKeeps ==
    ASSUME RestoreInv, NEW t \in Task, MergeFails(t)
    PROVE  RestoreInv'
<1>1. UNCHANGED <<library, given, overlapped>> /\ Fault /\ task[t].at = "merge"
  BY DEF MergeFails
<1>2. Fails(t, folder) \/ Fails(t, RolledBack(t))
  BY DEF MergeFails
<1> QED BY <1>1, <1>2, FailsKeeps, RolledBackKeeps

\* What the new tree lacks comes from the folder that was set aside.
LEMMA MergedFolder ==
    ASSUME NEW new \in Folders, NEW old \in Folders
    PROVE  /\ Merged(new, old) \in Folders
           /\ Merged(new, old).there = new.there
           /\ \A f \in File : new.files[f] = "absent" => Merged(new, old).files[f] = old.files[f]
<1> DEFINE files == [f \in File |-> IF new.files[f] = "absent" THEN old.files[f] ELSE new.files[f]]
           sidecar == IF new.sidecar = "none" THEN old.sidecar ELSE new.sidecar
<1>1. files \in [File -> Content] /\ sidecar \in Sidecar
  BY DEF Folders
<1>2. \A f \in File : new.files[f] = "absent" => files[f] = old.files[f]
  OBVIOUS
<1>3. Merged(new, old) = [new EXCEPT !.files = files, !.sidecar = sidecar]
  BY DEF Merged, Folders
<1> HIDE DEF files, sidecar
<1> QED BY <1>1, <1>2, <1>3 DEF Folders

\* An overwriting restore copies the user's other files beside its own.
LEMMA MergeKeeps ==
    ASSUME RestoreInv, NEW t \in Task, Merge(t)
    PROVE  RestoreInv'
<1>1. UNCHANGED <<library, given, overlapped>> /\ faults' = faults /\ task[t].at = "merge"
  BY DEF Merge
<1>2. CASE ~Exists(task[t].to)
  BY <1>1, <1>2, RolledBackKeeps DEF Merge
<1>3. CASE Exists(task[t].to)
  <2> DEFINE s == folder[Staging(t)]
             p == folder[Previous(t)]
             q == Merged(folder[task[t].to], p)
  <2>1. Sound /\ given \in SUBSET MineFile /\ overlapped \in BOOLEAN
    BY DEF RestoreInv, Sound, RestoreTypeOK
  <2>2. PICK x \in Tasks :
           /\ x.at = "confirm" /\ x.remote = task[t].remote /\ x.choice = task[t].choice
           /\ x.to = task[t].to /\ x.files = task[t].files
           /\ task' = [task EXCEPT ![t] = x]
    BY <1>3, <2>1, AtType DEF Merge
  <2>3. /\ folder \in [Place -> Folders] /\ task[t].to \in Place
        /\ Staging(t) \in Place /\ Previous(t) \in Place
        /\ Staging(t) # Previous(t) /\ Staging(t) # task[t].to /\ Previous(t) # task[t].to
        /\ folder[task[t].to] \in Folders /\ s \in Folders /\ p \in Folders
        /\ (~s.there => s = NoFolder) /\ (~p.there => p = NoFolder)
    BY <2>1, Own
  <2>4. /\ q \in Folders /\ q.there
        /\ \A f \in File : folder[task[t].to].files[f] = "absent" => q.files[f] = p.files[f]
    BY <1>3, <2>3, MergedFolder DEF Exists
  <2>5. folder' = [folder EXCEPT ![task[t].to] = q]
    BY <1>3, <2>3 DEF Merge
  <2> HIDE DEF q
  <2>6. Does(t, x, s, p, q)
    BY <2>2, <2>3, <2>4, <2>5 DEF Does
  <2>7. LibraryOK'
    BY <1>1, <2>1, LibraryKept
  <2>8. Waits(t, x)
    BY <1>1, <2>2, WaitsOn
  <2>9. /\ task[t].choice \in Replacing /\ task[t].files = VersionFile
        /\ task[t].to = Requested /\ p.there
    BY <1>1, <2>1 DEF Sound, TaskSound, Swapping, Exists
  <2>10. LocalSound(x, s, p)
    BY <2>2, <2>9 DEF LocalSound, Swapping
  <2>11. Orderly(t, x, q)
    BY <1>1, <2>2, <2>4 DEF Orderly, Holding, Swapping
  <2>12. Keeps(t, x, p, q)
    BY <1>1, <2>2, <2>9 DEF Keeps, Settled
  <2>13. ASSUME ~overlapped' PROVE LocalOverwritten(x, p, q)
    <3>1. \A f \in MineFile \ VersionFile : folder[task[t].to].files[f] = "absent"
      BY <1>1, <2>9, <2>13 DEF RestoreInv, OldWorkInv, Overwritten
    <3>2. \A f \in MineFile \ VersionFile : q.files[f] = p.files[f]
      BY <2>4, <3>1 DEF File
    <3> QED BY <2>2, <3>2 DEF LocalOverwritten
  <2>14. ASSUME ~overlapped' PROVE MayEnrol(t, x, p, q)
    <3>1. Calls(p) => Whole(p) \/ \E u \in Task \ {t} : Exists(Previous(u))
      BY <1>1, <2>14 DEF RestoreInv, EnrolledInv
    <3> QED BY <2>2, <2>9, <3>1 DEF MayEnrol
  <2> HIDE DEF s, p
  <2> QED BY <1>1, <2>3, <2>4, <2>6, <2>7, <2>8, <2>10, <2>11, <2>12, <2>13, <2>14, StepKeeps
<1> QED BY <1>2, <1>3

\* Only files verified in place are given up in the folder set aside.
LEMMA ConfirmKeeps ==
    ASSUME RestoreInv, NEW t \in Task, Confirm(t)
    PROVE  RestoreInv'
<1>1. UNCHANGED library /\ faults' = faults /\ overlapped' = overlapped /\ task[t].at = "confirm"
  BY DEF Confirm
<1>2. CASE ~Verifies(t)
  BY <1>1, <1>2, RolledBackKeeps DEF Confirm
<1>3. CASE Verifies(t)
  <2> DEFINE s == folder[Staging(t)]
             p == folder[Previous(t)]
             q == folder[task[t].to]
  <2>1. Sound /\ given \in SUBSET MineFile /\ overlapped \in BOOLEAN
    BY DEF RestoreInv, Sound, RestoreTypeOK
  <2>2. PICK x \in Tasks :
           /\ x.at = "clean" /\ x.remote = task[t].remote /\ x.choice = task[t].choice
           /\ x.to = task[t].to /\ x.files = task[t].files
           /\ task' = [task EXCEPT ![t] = x]
    BY <1>3, <2>1, AtType DEF Confirm
  <2>3. folder' = folder
        /\ given' = given \cup IF task[t].choice = "Overwrite"
                               THEN MineFile \cap VersionFile ELSE MineFile
    BY <1>3 DEF Confirm
  <2>4. Does(t, x, s, p, q)
    BY <2>1, <2>2, <2>3, DoesNothing
  <2>5. given \subseteq given' /\ given' \in SUBSET MineFile
    BY <2>1, <2>3
  <2>6. LibraryOK'
    BY <1>1, <2>1, <2>5, LibraryKept
  <2>7. Waits(t, x)
    BY <1>1, <2>2, WaitsOn
  <2>8. /\ task[t].choice \in Replacing /\ task[t].files = VersionFile
        /\ task[t].to = Requested /\ p.there
        /\ (~s.there => s = NoFolder) /\ (~p.there => p = NoFolder) /\ (~q.there => q = NoFolder)
    BY <1>1, <2>1, Own DEF Sound, TaskSound, Swapping, Exists
  <2>9. q.there /\ Whole(q)
    BY <1>3, <2>8 DEF Verifies, Whole
  <2>10. LocalSound(x, s, p)
    BY <2>2, <2>8 DEF LocalSound, Swapping
  <2>11. Orderly(t, x, q)
    BY <1>1, <2>2, <2>9 DEF Orderly, Holding, Swapping
  <2>12. ASSUME ~overlapped' PROVE LocalOverwritten(x, p, q)
    BY <1>1, <2>2, <2>8, <2>12 DEF RestoreInv, OldWorkInv, Overwritten, LocalOverwritten
  <2>13. ASSUME ~overlapped' PROVE Keeps(t, x, p, q)
    <3>1. task'[t] = x /\ \A u \in Task \ {t} : task'[u] = task[u]
      BY <2>1, <2>2 DEF Sound, RestoreTypeOK
    <3>2. \A u \in Task \ {t} : task[u].at \in {"check", "merge", "confirm"}
                                   => task[u].to # Requested
      BY <1>1, <2>1, <2>8, <2>13, OthersSettled DEF Holding
    <3>3. Settled'
      BY <2>2, <3>1, <3>2 DEF Settled
    <3>4. ~Settled
      BY <1>1, <2>8 DEF Settled
    <3>5. ASSUME NEW f \in MineFile \ given', p.files[f] = "mine" PROVE q.files[f] = "mine"
      <4>1. task[t].choice = "Overwrite" /\ f \notin VersionFile
        BY <2>3, <3>5
      <4> QED BY <2>2, <2>12, <2>13, <3>5, <4>1 DEF LocalOverwritten
    <3> QED BY <2>8, <3>3, <3>4, <3>5 DEF Keeps
  <2>14. MayEnrol(t, x, p, q)
    BY <1>1, <2>2, <2>9 DEF MayEnrol, Swapping
  <2> HIDE DEF s, p, q
  <2> QED BY <1>1, <2>4, <2>5, <2>6, <2>7, <2>8, <2>10, <2>11, <2>12, <2>13, <2>14, StepKeeps
<1> QED BY <1>2, <1>3

-----------------------------------------------------------------------------
\* Steps of the library, and the application's end.

\* A step that touches neither folders nor restores keeps the invariant.
LEMMA LibraryKeeps ==
    ASSUME RestoreInv, UNCHANGED <<folder, task, given, overlapped>>, LibraryOK',
           remoteRow' = "Syncing" => remoteRow = "Syncing"
    PROVE  RestoreInv'
<1>1. folder' = folder /\ task' = task /\ given' = given /\ overlapped' = overlapped
  OBVIOUS
<1>2. Sound'
  <2>1. RestoreTypeOK'
    BY <1>1 DEF RestoreInv, Sound, RestoreTypeOK, LibraryOK
  <2>2. \A pl \in Place : ~Exists(pl)' => folder'[pl] = NoFolder
    BY <1>1 DEF RestoreInv, Sound, Exists
  <2>3. \A t \in Task : TaskSound(t)'
    BY <1>1 DEF RestoreInv, Sound, TaskSound, Exists
  <2>4. ~overlapped' => Exclusive'
    BY <1>1 DEF RestoreInv, Sound, Exclusive, Exists
  <2> QED BY <2>1, <2>2, <2>3, <2>4 DEF Sound
<1>3. RestoringHasTask'
  BY <1>1 DEF RestoreInv, RestoringHasTask
<1>4. OldWorkInv'
  BY <1>1 DEF RestoreInv, OldWorkInv, Kept, Settled, Overwritten
<1>5. EnrolledInv'
  BY <1>1 DEF RestoreInv, EnrolledInv, Exists
<1> QED BY <1>2, <1>3, <1>4, <1>5 DEF RestoreInv

\* A scan of the library finds rows.
LEMMA ScannedType == Scanned \subseteq [at : Root, linked : BOOLEAN]
<1>1. \A n \in Root : Listing(n) \subseteq [at : Root, linked : BOOLEAN]
  BY ListingType
<1> HIDE DEF Root
<1> QED BY <1>1 DEF Scanned

\* Refreshes, reloads and watched folders make rows anew, never Syncing ones.
LEMMA RefreshKeeps ==
    ASSUME RestoreInv, RefreshDone \/ RefreshFails \/ Reload \/ WatchFolder
    PROVE  RestoreInv'
<1>1. LibraryOK
  BY DEF RestoreInv, Sound, RestoreTypeOK, LibraryOK
<1>2. faults' \in 0..MaxFaults
  BY <1>1, RestoreAssumption DEF LibraryOK, RefreshDone, RefreshFails, Reload, WatchFolder, Fault
<1>3. rows' \subseteq [at : Root, linked : BOOLEAN]
  BY <1>1, ScannedType DEF LibraryOK, RefreshDone, RefreshFails, Reload, WatchFolder
<1>4. /\ remoteRow' \in {"none", "NotDownloaded", "Syncing"} /\ watched' \in BOOLEAN
      /\ refresh' \in {"idle", "running", "due"}
      /\ remoteRow' = "Syncing" => remoteRow = "Syncing"
  BY <1>1 DEF LibraryOK, RefreshDone, RefreshFails, Reload, WatchFolder, StartRefresh
<1>5. UNCHANGED <<folder, task, given, overlapped>>
  BY DEF RefreshDone, RefreshFails, Reload, WatchFolder
<1>6. LibraryOK'
  BY <1>1, <1>2, <1>3, <1>4, <1>5 DEF LibraryOK
<1> QED BY <1>4, <1>5, <1>6, LibraryKeeps

\* After a restart no restore is at work, and what each had set aside stays.
LEMMA RestartKeeps ==
    ASSUME RestoreInv, Restart
    PROVE  RestoreInv'
<1> DEFINE over == [Idle EXCEPT !.at = "over"]
<1>1. /\ Idle \in Tasks /\ Idle.at = "idle" /\ Idle.choice = "AbortIfExists" /\ ~Idle.remote
      /\ over \in Tasks /\ over.at = "over" /\ over.choice = "AbortIfExists" /\ ~over.remote
  BY Places DEF Idle, Tasks, Choices
<1>2. /\ task' = [t \in Task |-> IF task[t].at = "idle" THEN Idle ELSE over]
      /\ folder' = folder /\ given' = given /\ overlapped' = overlapped /\ remoteRow' = "none"
  BY DEF Restart
<1> HIDE DEF over
<1>3. /\ task' \in [Task -> Tasks]
      /\ \A t \in Task : /\ task'[t].at \in {"idle", "over"}
                         /\ task'[t].choice \notin Replacing
                         /\ task'[t].at = "idle" => task[t].at = "idle"
  BY <1>1, <1>2 DEF Replacing
<1>4. Sound'
  <2>1. LibraryOK
    BY DEF RestoreInv, Sound, RestoreTypeOK, LibraryOK
  <2>2. faults' \in 0..MaxFaults
    BY <2>1, RestoreAssumption DEF Restart, Fault, LibraryOK
  <2>3. rows' \subseteq [at : Root, linked : BOOLEAN]
    BY ScannedType DEF Restart
  <2>4. RestoreTypeOK'
    BY <1>2, <1>3, <2>2, <2>3 DEF Restart, RestoreInv, Sound, RestoreTypeOK
  <2>5. \A pl \in Place : ~Exists(pl)' => folder'[pl] = NoFolder
    BY <1>2 DEF RestoreInv, Sound, Exists
  <2>6. \A t \in Task : TaskSound(t)'
    BY <1>2, <1>3 DEF RestoreInv, Sound, TaskSound, Swapping
  <2>7. Exclusive'
    BY <1>3 DEF Exclusive, Holding, Swapping
  <2> QED BY <2>4, <2>5, <2>6, <2>7 DEF Sound
<1>5. RestoringHasTask'
  BY <1>2 DEF RestoringHasTask
<1>6. Settled' /\ \A t \in Task : Overwritten(t)'
  BY <1>3 DEF Settled, Overwritten
<1>7. OldWorkInv'
  <2>1. ASSUME NEW f \in MineFile, Kept(f) PROVE Kept(f)'
    BY <1>2, <1>3, <1>6, <2>1 DEF Kept
  <2> QED BY <1>2, <1>6, <2>1 DEF RestoreInv, OldWorkInv
<1>8. EnrolledInv'
  BY <1>2, <1>3 DEF RestoreInv, EnrolledInv, Exists
<1> QED BY <1>4, <1>5, <1>7, <1>8 DEF RestoreInv

-----------------------------------------------------------------------------

\* The invariant holds when the application starts.
LEMMA RestoreInitially == RestoreInit => RestoreInv
<1> SUFFICES ASSUME RestoreInit PROVE RestoreInv
  OBVIOUS
<1>1. PICK existing \in {NoFolder, Mine("none"), Mine("mine")} :
         /\ folder = [pl \in Place |-> IF pl = Requested THEN existing ELSE NoFolder]
         /\ given = IF existing.there THEN {} ELSE MineFile
  BY DEF RestoreInit
<1>2. /\ existing \in Folders /\ existing.sidecar # "enrolled"
      /\ ~existing.there => existing = NoFolder
      /\ existing.there => \A f \in MineFile : existing.files[f] = "mine"
  <2>1. \A c \in {"none", "mine"} :
           /\ Mine(c) \in Folders /\ Mine(c).sidecar = c /\ Mine(c).there
           /\ \A f \in MineFile : Mine(c).files[f] = "mine"
    BY DEF Mine, Folders, Content, Sidecar, File
  <2> HIDE DEF Mine
  <2> QED BY <2>1, NoFolderType
<1>3. /\ folder \in [Place -> Folders] /\ folder[Requested] = existing
      /\ \A pl \in Place \ {Requested} : folder[pl] = NoFolder
  BY <1>1, <1>2, Places, NoFolderType
<1>4. Idle \in Tasks /\ Idle.at = "idle" /\ Idle.choice \notin Replacing
  BY Places DEF Idle, Tasks, Choices, Replacing
<1>5. task \in [Task -> Tasks] /\ \A t \in Task : task[t].at = "idle" /\ task[t].choice \notin Replacing
  BY <1>4 DEF RestoreInit
<1>6. \A t \in Task : folder[Previous(t)] = NoFolder
  BY <1>3, Places
<1>7. Sound
  <2>1. RestoreTypeOK
    <3>1. 0 \in 0..MaxFaults
      BY RestoreAssumption
    <3>2. given \in SUBSET MineFile
      BY <1>1
    <3>3. /\ remoteRow \in {"none", "NotDownloaded", "Syncing"} /\ rows = {} /\ watched \in BOOLEAN
          /\ refresh \in {"idle", "running", "due"} /\ faults = 0 /\ overlapped \in BOOLEAN
      BY DEF RestoreInit
    <3> QED BY <1>3, <1>5, <3>1, <3>2, <3>3 DEF RestoreTypeOK
  <2>2. \A pl \in Place : ~Exists(pl) => folder[pl] = NoFolder
    BY <1>2, <1>3 DEF Exists
  <2>3. \A t \in Task : TaskSound(t)
    BY <1>5, <1>6 DEF TaskSound, Swapping
  <2>4. Exclusive
    BY <1>5 DEF Exclusive, Holding, Swapping
  <2> QED BY <2>1, <2>2, <2>3, <2>4 DEF Sound
<1>8. RestoringHasTask
  BY DEF RestoreInit, RestoringHasTask
<1>9. OldWorkInv
  BY <1>1, <1>2, <1>3, <1>5 DEF OldWorkInv, Kept, Settled, Overwritten
<1>10. EnrolledInv
  <2>1. \A pl \in Root : ~Calls(folder[pl])
    BY <1>2, <1>3, Places, NoFolderType DEF Calls
  <2> QED BY <1>5, <2>1, Places DEF EnrolledInv
<1> QED BY <1>7, <1>8, <1>9, <1>10 DEF RestoreInv

\* The invariant is inductive.
LEMMA RestoreStep == RestoreInv /\ [RestoreNext]_vars => RestoreInv'
<1> SUFFICES ASSUME RestoreInv, [RestoreNext]_vars PROVE RestoreInv'
  OBVIOUS
<1>1. ASSUME NEW t \in Task, TaskStep(t) PROVE RestoreInv'
  <2>1. CASE ResolveFails(t) \/ StageFails(t) \/ ProtectFails(t)
    BY <2>1, FailsKeeps DEF ResolveFails, StageFails, ProtectFails
  <2>2. CASE ResolveCollision(t)
    BY <2>2, ResolveKeeps
  <2>3. CASE \E got \in Fetchable : Stage(t, got)
    BY <2>3, StageKeeps
  <2>4. CASE \E damaged \in BOOLEAN : Install(t, damaged) \/ Replace(t, damaged)
    BY <2>4, InstallKeeps, ReplaceKeeps
  <2>5. CASE Check(t) \/ Protect(t) \/ ReplaceFails(t)
    BY <2>5, CheckKeeps, ProtectKeeps, ReplaceFailsKeeps
  <2>6. CASE Merge(t) \/ MergeFails(t) \/ Confirm(t)
    BY <2>6, MergeKeeps, MergeFailsKeeps, ConfirmKeeps
  <2>7. CASE Clean(t) \/ CleanFails(t)
    BY <2>7, CleanKeeps, CleanFailsKeeps
  <2>8. CASE Enrol(t) \/ EnrolFails(t) \/ RestoreDone(t)
    BY <2>8, EnrolKeeps, EnrolFailsKeeps, RestoreDoneKeeps
  <2> QED BY <1>1, <2>1, <2>2, <2>3, <2>4, <2>5, <2>6, <2>7, <2>8 DEF TaskStep
<1>2. ASSUME NEW t \in Task, NEW remote \in BOOLEAN, StartRestore(t, remote) PROVE RestoreInv'
  BY <1>2, StartKeeps
<1>3. CASE RefreshDone \/ RefreshFails \/ Reload \/ WatchFolder
  BY <1>3, RefreshKeeps
<1>4. CASE Restart
  BY <1>4, RestartKeeps
<1>5. CASE UNCHANGED vars
  <2>1. UNCHANGED <<folder, task, given, overlapped>> /\ remoteRow' = remoteRow
    BY <1>5 DEF vars
  <2>2. LibraryOK'
    BY <1>5 DEF vars, RestoreInv, Sound, RestoreTypeOK, LibraryOK
  <2> QED BY <2>1, <2>2, LibraryKeeps
<1> QED BY <1>1, <1>2, <1>3, <1>4, <1>5 DEF RestoreNext

\* The inductive invariant holds of every behaviour of restores: the requested
\* folder has one holder at a time, files of the user's are set aside or in a
\* folder that nothing will remove, and what may be enrolled is whole
\* (publish_verified_restore, rollback_replacement, copy_missing_entries).
THEOREM RestoreInvariant == RestoreSpec => []RestoreInv
<1>1. RestoreInit => RestoreInv
  BY RestoreInitially
<1>2. RestoreInv /\ [RestoreNext]_vars => RestoreInv'
  BY RestoreStep
<1> QED BY <1>1, <1>2, PTL DEF RestoreSpec

\* Whatever restores fail or stop half-way, a file of the folder that was in
\* the way is still in a folder of the root or set aside, unless the user let a
\* restore replace it and that restore verified its own files in place
\* (publish_verified_restore with rollback_replacement).
THEOREM OldWorkNotLost == RestoreSpec => []OldWorkSafe
<1>1. RestoreInv => OldWorkSafe
  <2> SUFFICES ASSUME RestoreInv, ~overlapped, NEW f \in MineFile \ given
               PROVE  \E pl \in Root \cup {Previous(t) : t \in Task} : folder[pl].files[f] = "mine"
    BY DEF OldWorkSafe
  <2>1. Kept(f)
    BY DEF RestoreInv, OldWorkInv
  <2> QED BY <2>1, Places DEF Kept
<1> QED BY <1>1, RestoreInvariant, PTL

\* A project that a recovery enrolled as verified has every file of the version
\* once no restore is at work, unless a copy is still set aside
\* (require_complete_recovery before the sidecar is saved).
THEOREM EnrolledProjectsWhole == RestoreSpec => []EnrolledIsWhole
<1>1. RestoreInv => EnrolledIsWhole
  <2> SUFFICES ASSUME RestoreInv, ~overlapped, NEW n \in Root, Calls(folder[n])
               PROVE  Whole(folder[n]) \/ \E t \in Task : Exists(Previous(t))
    BY DEF EnrolledIsWhole, Calls, Whole
  <2> QED BY DEF RestoreInv, EnrolledInv
<1> QED BY <1>1, RestoreInvariant, PTL

\* The provider-only row shows Syncing only while a restore's result is still to
\* come, however refreshes, reloads and restarts cross it (restore_version and
\* replace_provider_projects).
THEOREM SyncingRowsHaveRestore == RestoreSpec => []RestoringHasTask
<1>1. RestoreInv => RestoringHasTask
  BY DEF RestoreInv
<1> QED BY <1>1, RestoreInvariant, PTL

-----------------------------------------------------------------------------
\* LABELS
\* Cards.

\* A card is of one project, here or only at the provider.
LEMMA CardFacts ==
    /\ \A p \in Local : Here(p) \in LocalCards /\ Here(p) \in Card /\ Here(p)[1] = p
    /\ \A c \in LocalCards : c[1] \in Local /\ c = Here(c[1]) /\ c[2] = "here"
    /\ \A c \in Card : c[1] \in Project /\ (c[2] = "here" \/ c[2] = "there")
                       /\ (c[2] = "here" => c \in LocalCards)
    /\ \A p \in Project : There(p) \in Card /\ There(p)[2] = "there" /\ There(p)[1] = p
    /\ Local \subseteq Project
BY DEF Here, There, LocalCards, Card, Project

\* What an application that has just started holds is well formed.
LEMMA Blank ==
    /\ NoLabel \in Labels
    /\ NewNote \in Notes /\ NewNote.labels = NoLabel
    /\ NoSave \in Saves /\ NoSave.at = "idle"
    /\ NoBackup \in Backups /\ NoBackup.at = "idle"
    /\ NoFetch \in Fetches /\ NoFetch.at = "idle"
<1>1. NoLabel \in Labels /\ NewNote \in Notes /\ NewNote.labels = NoLabel
  BY DEF Labels, NewNote, Notes
<1> HIDE DEF NewNote
<1>2. NoSave \in Saves /\ NoSave.at = "idle"
  BY <1>1 DEF NoSave, Saves
<1>3. NoBackup \in Backups /\ NoBackup.at = "idle"
  BY <1>1 DEF NoBackup, Backups
<1>4. NoFetch \in Fetches /\ NoFetch.at = "idle"
  BY DEF NoFetch, Fetches
<1> QED BY <1>1, <1>2, <1>3, <1>4

\* What the disk says of a project makes a card.
LEMMA FromDiskType ==
    ASSUME StoreOK, NEW p \in Local
    PROVE  FromDisk(p) \in CardRows /\ FromDisk(p).labels = note[p].labels
<1> DEFINE l == note[p].handle /\ note[p].head
<1>1. note[p] \in Notes /\ l \in BOOLEAN
  BY DEF StoreOK, Notes
<1>2. FromDisk(p) = [labels |-> note[p].labels, handle |-> note[p].handle, linked |-> l]
  BY DEF FromDisk
<1> HIDE DEF l
<1> QED BY <1>1, <1>2 DEF CardRows, Notes

-----------------------------------------------------------------------------
\* Rendering.

\* Rendering shows the chosen card and leaves a form with a draft alone.
LEMMA Rendered ==
    ASSUME NEW f \in Forms, NEW cs, NEW card \in DOMAIN cs,
           cs \in [DOMAIN cs -> CardRows], DOMAIN cs \subseteq Card,
           Renders(f, cs, card)
    PROVE  /\ form' \in Forms /\ form'.card = card /\ chosen' = card /\ cards' = cs
           /\ f.card = card /\ f.values # f.baseline => form' = f
<1>1. cs[card].labels \in Labels /\ card \in Card
  BY DEF CardRows
<1>2. /\ Showing(card, cs[card].labels) \in Forms
      /\ Showing(card, cs[card].labels).card = card
  BY <1>1 DEF Showing, Forms
<1>3. Synced(f, cs, card) \in Forms /\ Synced(f, cs, card).card = card
  BY <1>2 DEF Synced
<1>4. f.card = card /\ f.values # f.baseline => Synced(f, cs, card) = f
  BY DEF Synced
<1> QED BY <1>3, <1>4 DEF Renders

\* New cards, and a choice among them.
LEMMA Chosen ==
    ASSUME ScreenOK, DraftKept, NEW cs, NEW card \in DOMAIN cs,
           cs \in [DOMAIN cs -> CardRows], LocalCards \subseteq DOMAIN cs, DOMAIN cs \subseteq Card,
           Chooses(form, cs, card), saving' \subseteq Card
    PROVE  ScreenOK' /\ DraftKept' /\ cards' = cs
<1>1. form \in Forms /\ draft \subseteq Labels /\ Renders(form, cs, card)
      /\ draft' = IF card = chosen THEN draft ELSE {}
  BY DEF ScreenOK, Chooses
<1>2. /\ form' \in Forms /\ form'.card = card /\ chosen' = card /\ cards' = cs
      /\ form.card = card /\ form.values # form.baseline => form' = form
  BY <1>1, Rendered
<1>3. ScreenOK'
  BY <1>1, <1>2 DEF ScreenOK
<1>4. DraftKept'
  BY <1>1, <1>2 DEF DraftKept
<1> QED BY <1>2, <1>3, <1>4

-----------------------------------------------------------------------------
\* What a step does to the saves of a project.

\* A save's step changes that save only.
LEMMA SaverMoves ==
    ASSUME saver \in [Saver -> Saves], NEW s \in Saver, NEW x \in Saves,
           saver' = [saver EXCEPT ![s] = x]
    PROVE  saver'[s] = x /\ \A u \in Saver \ {s} : saver'[u] = saver[u]
OBVIOUS

\* A save that begins is one of its project's saves.
LEMMA SaverJoins ==
    ASSUME NEW s \in Saver, \A u \in Saver \ {s} : saver'[u] = saver[u],
           NEW p, saver'[s].at # "idle", saver'[s].card[1] = p
    PROVE  SavesOf(p)' = SavesOf(p) \cup {s}
BY DEF SavesOf

\* A save that ends is none of its project's saves.
LEMMA SaverLeaves ==
    ASSUME NEW s \in Saver, \A u \in Saver \ {s} : saver'[u] = saver[u],
           NEW p, saver'[s].at = "idle" \/ saver'[s].card[1] # p
    PROVE  SavesOf(p)' = SavesOf(p) \ {s}
BY DEF SavesOf

\* A project that a step does not touch.
LEMMA Unmoved ==
    ASSUME NEW p \in Local, Agrees(p), SavesOf(p)' = SavesOf(p),
           \A u \in SavesOf(p) : saver'[u] = saver[u],
           note'[p] = note[p], profile'[p] = profile[p], p \in versioned' <=> p \in versioned,
           cards'[Here(p)].labels = cards[Here(p)].labels, backup'[p] = backup[p], fetch' = fetch,
           \A c \in conflict' : c.project = p => c \in conflict
    PROVE  Agrees(p)'
<1>1. (p \in BackingUp)' <=> p \in BackingUp
  BY DEF BackingUp
<1>2. SaveAlone(p)'
  BY <1>1 DEF Agrees, SaveAlone
<1>3. CarriedAgrees(p)'
  BY <1>1 DEF Agrees, CarriedAgrees
<1>4. KeptAgrees(p)'
  BY DEF Agrees, KeptAgrees
<1> QED BY <1>2, <1>3, <1>4 DEF Agrees

\* Steps that touch only the form leave stores and tasks in agreement.
LEMMA StillAgrees ==
    ASSUME LabelsInv, UNCHANGED <<store, cards, saver, backup, conflict, fetch, crossed>>
    PROVE  \A p \in Local \ crossed' : Agrees(p)'
<1>1. note' = note /\ profile' = profile /\ versioned' = versioned /\ cards' = cards
      /\ saver' = saver /\ backup' = backup /\ conflict' = conflict /\ fetch' = fetch
      /\ crossed' = crossed
  BY DEF store
<1> TAKE p \in Local \ crossed'
<1>2. Agrees(p)
  BY <1>1 DEF LabelsInv
<1>3. SavesOf(p)' = SavesOf(p)
  BY <1>1 DEF SavesOf
<1> QED BY <1>1, <1>2, <1>3, Unmoved

\* Typing makes a draft or takes it back.
LEMMA EditKeeps ==
    ASSUME LabelsInv, NEW labels \in Labels, Edit(labels)
    PROVE  LabelsInv'
<1> DEFINE f == [form EXCEPT !.values = labels]
<1>1. /\ form \in Forms /\ cards \in [DOMAIN cards -> CardRows] /\ DOMAIN cards \subseteq Card
      /\ chosen \in DOMAIN cards /\ form.card = chosen
  BY DEF LabelsInv, LabelsTypeOK, ScreenOK, DraftKept
<1>2. /\ f \in Forms /\ f.card = chosen /\ f.values = labels /\ f.baseline = form.baseline
      /\ Renders(f, cards, chosen) /\ draft' = {labels} \ {form.baseline}
  BY <1>1 DEF Forms, Edit
<1> HIDE DEF f
<1>3. /\ form' \in Forms /\ form'.card = chosen /\ chosen' = chosen /\ cards' = cards
      /\ f.values # f.baseline => form' = f
  BY <1>1, <1>2, Rendered
<1>4. LabelsTypeOK'
  BY <1>2, <1>3 DEF Edit, store, LabelsInv, LabelsTypeOK, StoreOK, ScreenOK, SaversOK, TasksOK
<1>5. DraftKept'
  BY <1>2, <1>3 DEF DraftKept
<1>6. \A p \in Local \ crossed' : Agrees(p)'
  BY <1>3, StillAgrees DEF Edit
<1> QED BY <1>4, <1>5, <1>6 DEF LabelsInv

\* Choosing another card leaves the draft behind.
LEMMA SelectKeeps ==
    ASSUME LabelsInv, NEW card \in DOMAIN cards, Select(card)
    PROVE  LabelsInv'
<1>1. ScreenOK /\ DraftKept /\ Chooses(form, cards, card) /\ saving' \subseteq Card
  BY DEF LabelsInv, LabelsTypeOK, ScreenOK, Select
<1>2. ScreenOK' /\ DraftKept' /\ cards' = cards
  BY <1>1, Chosen DEF ScreenOK
<1>3. LabelsTypeOK'
  BY <1>2 DEF Select, store, LabelsInv, LabelsTypeOK, StoreOK, SaversOK, TasksOK
<1>4. \A p \in Local \ crossed' : Agrees(p)'
  BY <1>2, StillAgrees DEF Select
<1> QED BY <1>2, <1>3, <1>4 DEF LabelsInv

-----------------------------------------------------------------------------
\* A save.

\* A step of save s that leaves the screen alone, and every project but the one
\* of its card, if that is not crossed.
LEMMA SaverKeeps ==
    ASSUME LabelsInv, NEW s \in Saver, NEW x \in Saves, saver' = [saver EXCEPT ![s] = x],
           saver[s].at # "idle", x.at # "idle", x.card = saver[s].card,
           x.at \in {"load", "store"} => x.card \in LocalCards,
           StoreOK', TasksOK', UNCHANGED <<screen, backup, conflict, fetch, versioned>>,
           crossed \subseteq crossed',
           \A p \in Local : p # saver[s].card[1] => note'[p] = note[p] /\ profile'[p] = profile[p],
           \A p \in Local \ crossed' : p = saver[s].card[1] => Agrees(p)'
    PROVE  LabelsInv'
<1>1. /\ cards' = cards /\ chosen' = chosen /\ form' = form /\ saving' = saving /\ draft' = draft
      /\ backup' = backup /\ conflict' = conflict /\ fetch' = fetch /\ versioned' = versioned
      /\ saver \in [Saver -> Saves] /\ saver[s].card \in Card
  BY DEF screen, LabelsInv, LabelsTypeOK, SaversOK
<1>2. ScreenOK' /\ DraftKept'
  BY <1>1 DEF LabelsInv, LabelsTypeOK, ScreenOK, DraftKept
<1>3. SaversOK'
  BY <1>1 DEF LabelsInv, LabelsTypeOK, SaversOK
<1>4. ASSUME NEW p \in Local \ crossed' PROVE Agrees(p)'
  <2>1. CASE p = saver[s].card[1]
    BY <2>1
  <2>2. CASE p # saver[s].card[1]
    <3>1. Agrees(p)
      BY DEF LabelsInv
    <3>2. s \notin SavesOf(p)
      BY <2>2 DEF SavesOf
    <3>3. saver'[s] = x /\ \A u \in Saver \ {s} : saver'[u] = saver[u]
      BY <1>1, SaverMoves
    <3>4. SavesOf(p)' = SavesOf(p) \ {s}
      BY <2>2, <3>3, SaverLeaves
    <3>5. SavesOf(p)' = SavesOf(p) /\ \A u \in SavesOf(p) : saver'[u] = saver[u]
      BY <3>2, <3>3, <3>4 DEF SavesOf
    <3> QED BY <1>1, <2>2, <3>1, <3>5, Unmoved
  <2> QED BY <2>1, <2>2
<1> QED BY <1>2, <1>3, <1>4 DEF LabelsInv, LabelsTypeOK

\* The project of save s, if nothing crossed it: s is its only task.
LEMMA Alone ==
    ASSUME LabelsInv, NEW s \in Saver, saver[s].at # "idle", NEW p \in Local \ crossed,
           p = saver[s].card[1]
    PROVE  /\ Agrees(p) /\ SavesOf(p) = {s} /\ p \notin BackingUp /\ fetch.at = "idle"
           /\ saver[s].card = Here(p) /\ saver[s].at # "failed"
           /\ p \in versioned => saver[s].linked
           /\ saver[s].at \in {"put", "saved"} => note[p].labels = saver[s].labels
           /\ saver[s].at = "saved" /\ p \in versioned => profile[p] = saver[s].labels
<1>1. s \in SavesOf(p) /\ Agrees(p)
  BY DEF SavesOf, LabelsInv
<1> QED BY <1>1 DEF Agrees, SaveAlone

\* The save goes on alone.
LEMMA StaysAlone ==
    ASSUME LabelsInv, NEW s \in Saver, saver[s].at # "idle", NEW p \in Local \ crossed,
           p = saver[s].card[1],
           NEW x \in Saves, saver' = [saver EXCEPT ![s] = x],
           x.at \notin {"idle", "failed"}, x.card = saver[s].card, x.linked = saver[s].linked,
           UNCHANGED <<backup, conflict, fetch, versioned>>,
           x.at \in {"put", "saved"} => note'[p].labels = x.labels,
           x.at = "saved" /\ p \in versioned => profile'[p] = x.labels
    PROVE  Agrees(p)'
<1>1. /\ SavesOf(p) = {s} /\ p \notin BackingUp /\ fetch.at = "idle" /\ saver[s].card = Here(p)
      /\ p \in versioned => saver[s].linked
  BY Alone
<1>2. saver'[s] = x /\ SavesOf(p)' = SavesOf(p) \cup {s}
  <2>1. saver \in [Saver -> Saves]
    BY DEF LabelsInv, LabelsTypeOK, SaversOK
  <2>2. saver'[s] = x /\ \A u \in Saver \ {s} : saver'[u] = saver[u]
    BY <2>1, SaverMoves
  <2> QED BY <2>2, SaverJoins
<1>3. SavesOf(p)' = {s}
  BY <1>1, <1>2
<1>4. ~(p \in BackingUp)'
  BY <1>1 DEF BackingUp
<1>5. SaveAlone(p)'
  BY <1>1, <1>2, <1>3, <1>4 DEF SaveAlone
<1>6. CarriedAgrees(p)'
  BY <1>3 DEF CarriedAgrees
<1>7. KeptAgrees(p)'
  BY <1>1, Alone DEF Agrees, KeptAgrees
<1> QED BY <1>5, <1>6, <1>7 DEF Agrees

\* A save loads the sidecar.
LEMMA SaveLoadsKeeps ==
    ASSUME LabelsInv, NEW s \in Saver, SaveLoads(s)
    PROVE  LabelsInv'
<1> DEFINE x == [saver[s] EXCEPT !.at = "store", !.copy = note[saver[s].card[1]]]
<1>1. /\ saver \in [Saver -> Saves] /\ saver[s] \in Saves /\ saver[s].at = "load"
      /\ saver[s].card \in LocalCards /\ note \in [Local -> Notes]
  BY DEF SaveLoads, LabelsInv, LabelsTypeOK, SaversOK, StoreOK
<1>2. note[saver[s].card[1]] \in Notes
  BY <1>1, CardFacts
<1>3. /\ x \in Saves /\ x.at = "store" /\ x.card = saver[s].card /\ x.linked = saver[s].linked
      /\ saver' = [saver EXCEPT ![s] = x]
  BY <1>1, <1>2 DEF Saves, SaveLoads
<1> HIDE DEF x
<1>4. /\ UNCHANGED <<screen, backup, conflict, fetch, versioned>> /\ note' = note /\ profile' = profile
      /\ crossed' = crossed /\ events' = events /\ versioned' = versioned
  BY DEF SaveLoads, store
<1>5. StoreOK' /\ TasksOK'
  BY <1>4 DEF LabelsInv, LabelsTypeOK, StoreOK, TasksOK
<1>6. ASSUME NEW p \in Local \ crossed', p = saver[s].card[1] PROVE Agrees(p)'
  <2>1. p \in Local \ crossed
    BY <1>4
  <2> QED BY <1>1, <1>3, <1>4, <1>6, <2>1, StaysAlone
<1> QED BY <1>1, <1>3, <1>4, <1>5, <1>6, SaverKeeps

\* A save writes its labels into the sidecar it loaded.
LEMMA SaveStoresKeeps ==
    ASSUME LabelsInv, NEW s \in Saver, SaveStores(s)
    PROVE  LabelsInv'
<1> DEFINE at == IF saver[s].linked THEN "put" ELSE "saved"
           x == [saver[s] EXCEPT !.at = at, !.copy = NewNote]
           n == [saver[s].copy EXCEPT !.labels = saver[s].labels]
           q == saver[s].card[1]
<1>1. /\ saver \in [Saver -> Saves] /\ saver[s] \in Saves /\ saver[s].at = "store"
      /\ saver[s].card \in LocalCards /\ note \in [Local -> Notes]
  BY DEF SaveStores, LabelsInv, LabelsTypeOK, SaversOK, StoreOK
<1>2. q \in Local
  BY <1>1, CardFacts
<1>3. at \in {"put", "saved"} /\ (at = "saved" => ~saver[s].linked)
  OBVIOUS
<1>4. n \in Notes /\ n.labels = saver[s].labels /\ note' = [note EXCEPT ![q] = n]
  BY <1>1 DEF Saves, Notes, SaveStores
<1>5. saver' = [saver EXCEPT ![s].at = at, ![s].copy = NewNote]
  BY DEF SaveStores
<1> HIDE DEF at, n
<1>6. /\ x \in Saves /\ x.at = at /\ x.card = saver[s].card /\ x.linked = saver[s].linked
      /\ x.labels = saver[s].labels /\ saver' = [saver EXCEPT ![s] = x]
  BY <1>1, <1>3, <1>5, Blank DEF Saves
<1> HIDE DEF x
<1>7. /\ UNCHANGED <<screen, backup, conflict, fetch, versioned>> /\ profile' = profile
      /\ crossed' = crossed /\ events' = events
  BY DEF SaveStores
<1>8. StoreOK' /\ TasksOK'
  BY <1>2, <1>4, <1>7 DEF LabelsInv, LabelsTypeOK, StoreOK, TasksOK
<1>9. \A p \in Local : p # q => note'[p] = note[p]
  BY <1>1, <1>4
<1>10. ASSUME NEW p \in Local \ crossed', p = saver[s].card[1] PROVE Agrees(p)'
  <2>1. p \in Local \ crossed
    BY <1>7
  <2>2. p \in versioned => saver[s].linked
    BY <1>1, <1>10, <2>1, Alone
  <2>3. note'[p].labels = x.labels
    BY <1>1, <1>2, <1>4, <1>6, <1>10
  <2> QED BY <1>1, <1>3, <1>6, <1>7, <1>10, <2>1, <2>2, <2>3, StaysAlone
<1> QED BY <1>1, <1>3, <1>6, <1>7, <1>8, <1>9, <1>10, SaverKeeps

\* A save puts its labels into the provider's profile.
LEMMA SavePutsKeeps ==
    ASSUME LabelsInv, NEW s \in Saver, SavePuts(s)
    PROVE  LabelsInv'
<1> DEFINE x == [saver[s] EXCEPT !.at = "saved"]
           q == saver[s].card[1]
<1>1. /\ saver \in [Saver -> Saves] /\ saver[s] \in Saves /\ saver[s].at = "put"
      /\ saver[s].card \in Card /\ profile \in [Project -> Labels]
  BY DEF SavePuts, LabelsInv, LabelsTypeOK, SaversOK, StoreOK
<1>2. q \in Project
  BY <1>1, CardFacts
<1>3. /\ x \in Saves /\ x.at = "saved" /\ x.card = saver[s].card /\ x.linked = saver[s].linked
      /\ x.labels = saver[s].labels /\ saver' = [saver EXCEPT ![s] = x] /\ x.labels \in Labels
      /\ profile' = [profile EXCEPT ![q] = x.labels]
  BY <1>1 DEF Saves, SavePuts
<1> HIDE DEF x
<1>4. /\ UNCHANGED <<screen, backup, conflict, fetch, versioned>> /\ note' = note
      /\ crossed' = crossed /\ events' = events
  BY DEF SavePuts
<1>5. StoreOK' /\ TasksOK'
  BY <1>2, <1>3, <1>4 DEF LabelsInv, LabelsTypeOK, StoreOK, TasksOK
<1>6. \A p \in Local : p # q => profile'[p] = profile[p]
  BY <1>1, <1>3, CardFacts
<1>7. ASSUME NEW p \in Local \ crossed', p = saver[s].card[1] PROVE Agrees(p)'
  <2>1. p \in Local \ crossed
    BY <1>4
  <2>2. note'[p].labels = x.labels /\ profile'[p] = x.labels
    BY <1>1, <1>2, <1>3, <1>4, <1>7, <2>1, Alone
  <2> QED BY <1>1, <1>3, <1>4, <1>7, <2>1, <2>2, StaysAlone
<1> QED BY <1>1, <1>3, <1>4, <1>5, <1>6, <1>7, SaverKeeps

\* A save that fails is crossed out of the claim.
LEMMA SaveFailsKeeps ==
    ASSUME LabelsInv, NEW s \in Saver, SaveFails(s)
    PROVE  LabelsInv'
<1> DEFINE x == [saver[s] EXCEPT !.at = "failed", !.copy = NewNote]
<1>1. /\ saver \in [Saver -> Saves] /\ saver[s] \in Saves /\ saver[s].at # "idle"
      /\ saver[s].card \in Card
  BY DEF SaveFails, LabelsInv, LabelsTypeOK, SaversOK
<1>2. /\ x \in Saves /\ x.at = "failed" /\ x.card = saver[s].card
      /\ saver' = [saver EXCEPT ![s] = x]
  BY <1>1, Blank DEF Saves, SaveFails
<1> HIDE DEF x
<1>3. /\ UNCHANGED <<screen, backup, conflict, fetch, versioned>> /\ note' = note /\ profile' = profile
      /\ versioned' = versioned /\ crossed' = crossed \cup {saver[s].card[1]} /\ Event
  BY DEF SaveFails, store
<1>4. events' \in 0..MaxEvents
  BY <1>3, LabelAssumption DEF Event, LabelsInv, LabelsTypeOK, TasksOK
<1>5. StoreOK' /\ TasksOK'
  BY <1>1, <1>3, <1>4, CardFacts DEF LabelsInv, LabelsTypeOK, StoreOK, TasksOK
<1> QED BY <1>1, <1>2, <1>3, <1>5, SaverKeeps

\* A save brings its project back into the claim, unless another task is at work
\* there: then the project is crossed.
LEMMA SaveKeeps ==
    ASSUME LabelsInv, NEW s \in Saver, Save(s)
    PROVE  LabelsInv'
<1> DEFINE q == chosen[1]
           linked == cards[chosen].linked
           at == IF chosen[2] = "here" THEN "load" ELSE "put"
           x == [NoSave EXCEPT !.at = at, !.card = chosen, !.labels = form.values,
                               !.linked = linked]
<1>1. /\ saver \in [Saver -> Saves] /\ saver[s].at = "idle" /\ chosen \in Card
      /\ cards[chosen] \in CardRows /\ form \in Forms
  BY DEF Save, LabelsInv, LabelsTypeOK, SaversOK, ScreenOK
<1>2. linked \in BOOLEAN /\ form.values \in Labels
  BY <1>1 DEF CardRows, Forms
<1>3. at \in {"load", "put"} /\ (at = "load" => chosen \in LocalCards)
  BY <1>1, CardFacts
<1>4. /\ saver' = [saver EXCEPT ![s] = x]
      /\ crossed' = IF \/ q \in InFlight \cup BackingUp \/ fetch.at # "idle"
                       \/ chosen[2] = "there" \/ (q \in versioned /\ ~linked)
                    THEN crossed \cup {q} ELSE crossed \ {q}
      /\ saving' = {chosen} /\ Event
      /\ conflict' = {[c EXCEPT !.overtaken = c.overtaken \/ c.project = q] : c \in conflict}
  BY DEF Save
<1>5. /\ note' = note /\ profile' = profile /\ versioned' = versioned /\ cards' = cards
      /\ chosen' = chosen /\ form' = form /\ backup' = backup /\ fetch' = fetch /\ draft' = draft
  BY DEF Save, store
<1> HIDE DEF linked, at
<1>6. /\ x \in Saves /\ x.at = at /\ x.card = chosen /\ x.linked = linked
  BY <1>1, <1>2, <1>3, Blank DEF Saves
<1> HIDE DEF x
<1>7. q \in Project
  BY <1>1, CardFacts
<1>8. ASSUME NEW c \in conflict'
      PROVE  /\ c \in Conflicts
             /\ c.project = q => c.overtaken
             /\ c.project # q => c \in conflict
  <2>1. conflict \subseteq Conflicts
    BY DEF LabelsInv, LabelsTypeOK, TasksOK
  <2>2. PICK d \in conflict : c = [d EXCEPT !.overtaken = d.overtaken \/ d.project = q]
    BY <1>4
  <2> QED BY <2>1, <2>2 DEF Conflicts
<1>9. LabelsTypeOK'
  <2>1. StoreOK' /\ ScreenOK'
    BY <1>1, <1>4, <1>5 DEF LabelsInv, LabelsTypeOK, StoreOK, ScreenOK
  <2>2. SaversOK'
    BY <1>1, <1>3, <1>4, <1>6 DEF LabelsInv, LabelsTypeOK, SaversOK
  <2>3. events' \in 0..MaxEvents
    BY <1>4, LabelAssumption DEF Event, LabelsInv, LabelsTypeOK, TasksOK
  <2>4. crossed' \subseteq Project
    BY <1>4, <1>7 DEF LabelsInv, LabelsTypeOK, TasksOK
  <2>5. TasksOK'
    BY <1>5, <1>8, <2>3, <2>4 DEF LabelsInv, LabelsTypeOK, TasksOK
  <2> QED BY <2>1, <2>2, <2>5 DEF LabelsTypeOK
<1>10. DraftKept'
  BY <1>5 DEF LabelsInv, DraftKept
<1>11. ASSUME NEW p \in Local \ crossed' PROVE Agrees(p)'
  <2>1. saver'[s] = x /\ \A u \in Saver \ {s} : saver'[u] = saver[u]
    BY <1>1, <1>4, <1>6, SaverMoves
  <2>2. s \notin SavesOf(p)
    BY <1>1 DEF SavesOf
  <2>3. CASE p = q
    <3>1. /\ p \notin InFlight /\ p \notin BackingUp /\ fetch.at = "idle"
          /\ chosen[2] # "there" /\ (p \in versioned => linked)
      BY <1>4, <2>3
    <3>2. SavesOf(p) = {} /\ chosen = Here(p)
      BY <1>1, <1>7, <2>3, <3>1, CardFacts DEF InFlight
    <3>3. at = "load"
      BY <3>1, <3>2, CardFacts DEF at, Here
    <3>4. SavesOf(p)' = {s}
      <4>1. SavesOf(p)' = SavesOf(p) \cup {s}
        BY <1>3, <1>6, <2>1, <2>3, SaverJoins
      <4> QED BY <3>2, <4>1
    <3>5. ~(p \in BackingUp)'
      BY <1>5, <3>1 DEF BackingUp
    <3>6. SaveAlone(p)'
      BY <1>5, <1>6, <2>1, <3>1, <3>2, <3>3, <3>4, <3>5 DEF SaveAlone
    <3>7. CarriedAgrees(p)'
      BY <3>4 DEF CarriedAgrees
    <3>8. KeptAgrees(p)'
      BY <1>8, <2>3 DEF KeptAgrees
    <3> QED BY <3>6, <3>7, <3>8 DEF Agrees
  <2>4. CASE p # q
    <3>1. Agrees(p)
      BY <1>4, <2>4 DEF LabelsInv
    <3>2. SavesOf(p)' = SavesOf(p) \ {s}
      BY <1>6, <2>1, <2>4, SaverLeaves
    <3>3. SavesOf(p)' = SavesOf(p) /\ \A u \in SavesOf(p) : saver'[u] = saver[u]
      BY <2>1, <2>2, <3>2 DEF SavesOf
    <3> QED BY <1>5, <1>8, <2>4, <3>1, <3>3, Unmoved
  <2> QED BY <2>3, <2>4
<1> QED BY <1>9, <1>10, <1>11 DEF LabelsInv

\* The result of a save reaches its card, and the form as its new baseline.
LEMMA SaveDoneKeeps ==
    ASSUME LabelsInv, NEW s \in Saver, SaveDone(s)
    PROVE  LabelsInv'
<1> DEFINE t == saver[s]
           q == t.card[1]
           cs == IF t.card \in DOMAIN cards THEN [cards EXCEPT ![t.card].labels = t.labels]
                 ELSE cards
<1>1. /\ saver \in [Saver -> Saves] /\ t \in Saves /\ t.at \in {"failed", "saved"}
      /\ t.card \in Card /\ t.labels \in Labels
      /\ saver' = [saver EXCEPT ![s] = NoSave] /\ saving' = {}
  BY DEF SaveDone, LabelsInv, LabelsTypeOK, SaversOK, Saves
<1>2. /\ note' = note /\ profile' = profile /\ versioned' = versioned /\ backup' = backup
      /\ conflict' = conflict /\ fetch' = fetch /\ events' = events /\ crossed' = crossed
  BY DEF SaveDone, store
<1>3. /\ form \in Forms /\ cards \in [DOMAIN cards -> CardRows] /\ DOMAIN cards \subseteq Card
      /\ LocalCards \subseteq DOMAIN cards /\ chosen \in DOMAIN cards /\ draft \subseteq Labels
      /\ form.card = chosen
      /\ \A labels \in draft : form.values = labels /\ labels # form.baseline
  BY DEF LabelsInv, LabelsTypeOK, ScreenOK, DraftKept
<1>4. /\ DOMAIN cs = DOMAIN cards /\ cs \in [DOMAIN cs -> CardRows]
      /\ \A c \in DOMAIN cards \ {t.card} : cs[c] = cards[c]
      /\ t.card \in DOMAIN cards => cs[t.card].labels = t.labels
  BY <1>1, <1>3 DEF CardRows
<1> HIDE DEF cs
<1>5. /\ ScreenOK' /\ DraftKept'
      /\ t.at = "saved" => cards' = cs
      /\ t.at = "failed" => cards' = cards
  <2>1. CASE t.at = "failed"
    <3>1. Renders(form, cards, chosen) /\ draft' = draft
      BY <2>1 DEF SaveDone
    <3>2. /\ form' \in Forms /\ form'.card = chosen /\ chosen' = chosen /\ cards' = cards
          /\ form.values # form.baseline => form' = form
      BY <1>3, <3>1, Rendered
    <3>3. ScreenOK'
      BY <1>1, <1>3, <3>1, <3>2 DEF ScreenOK
    <3>4. DraftKept'
      BY <1>3, <3>1, <3>2 DEF DraftKept
    <3> QED BY <2>1, <3>2, <3>3, <3>4
  <2>2. CASE t.at = "saved"
    <3> DEFINE f == [form EXCEPT !.baseline = t.labels]
    <3>1. /\ f \in Forms /\ f.card = chosen /\ f.values = form.values /\ f.baseline = t.labels
      BY <1>1, <1>3 DEF Forms
    <3>2. Renders(f, cs, chosen) /\ draft' = draft \ {t.labels}
      BY <2>2 DEF SaveDone, cs
    <3> HIDE DEF f
    <3>3. /\ form' \in Forms /\ form'.card = chosen /\ chosen' = chosen /\ cards' = cs
          /\ f.values # f.baseline => form' = f
      BY <1>3, <1>4, <3>1, <3>2, Rendered
    <3>4. ScreenOK'
      BY <1>1, <1>3, <1>4, <3>2, <3>3 DEF ScreenOK
    <3>5. DraftKept'
      BY <1>3, <3>1, <3>2, <3>3 DEF DraftKept
    <3> QED BY <2>2, <3>3, <3>4, <3>5
  <2> QED BY <1>1, <2>1, <2>2
<1>6. LabelsTypeOK'
  <2>1. SaversOK'
    BY <1>1, Blank DEF LabelsInv, LabelsTypeOK, SaversOK
  <2> QED BY <1>2, <1>5, <2>1 DEF LabelsInv, LabelsTypeOK, StoreOK, TasksOK
<1>7. ASSUME NEW p \in Local \ crossed' PROVE Agrees(p)'
  <2>1. p \in Local \ crossed /\ Agrees(p)
    BY <1>2 DEF LabelsInv
  <2>2. /\ \A u \in Saver \ {s} : saver'[u] = saver[u]
        /\ SavesOf(p)' = SavesOf(p) \ {s}
    <3>1. saver'[s] = NoSave /\ \A u \in Saver \ {s} : saver'[u] = saver[u]
      BY <1>1, Blank, SaverMoves
    <3> QED BY <3>1, Blank, SaverLeaves
  <2>3. CASE p = q
    <3>1. /\ SavesOf(p) = {s} /\ p \notin BackingUp /\ fetch.at = "idle"
          /\ t.card = Here(p) /\ t.at # "failed" /\ note[p].labels = t.labels
          /\ p \in versioned => profile[p] = t.labels
      BY <1>1, <2>1, <2>3, Alone
    <3>2. SavesOf(p)' = {}
      BY <2>2, <3>1
    <3>3. cards'[Here(p)].labels = note'[p].labels
      BY <1>1, <1>2, <1>3, <1>4, <1>5, <3>1, CardFacts
    <3>4. ~(p \in BackingUp)' /\ backup'[p].at = "idle"
      BY <1>2, <3>1 DEF BackingUp
    <3>5. SaveAlone(p)'
      BY <3>2 DEF SaveAlone
    <3>6. CarriedAgrees(p)'
      BY <1>2, <3>1, <3>3, <3>4 DEF CarriedAgrees
    <3>7. KeptAgrees(p)'
      BY <1>2, <2>1, <3>1 DEF Agrees, KeptAgrees
    <3> QED BY <3>5, <3>6, <3>7 DEF Agrees
  <2>4. CASE p # q
    <3>1. s \notin SavesOf(p)
      BY <2>4 DEF SavesOf
    <3>2. SavesOf(p)' = SavesOf(p) /\ \A u \in SavesOf(p) : saver'[u] = saver[u]
      BY <2>2, <3>1 DEF SavesOf
    <3>3. Here(p) \in DOMAIN cards \ {t.card}
      BY <1>3, <2>4, CardFacts
    <3>4. cards'[Here(p)].labels = cards[Here(p)].labels
      BY <1>1, <1>4, <1>5, <3>3
    <3> QED BY <1>2, <2>1, <3>2, <3>4, Unmoved
  <2> QED BY <2>3, <2>4
<1> QED BY <1>5, <1>6, <1>7 DEF LabelsInv

-----------------------------------------------------------------------------
\* A backup.

\* A project that is backed up and not crossed has no save in flight.
LEMMA NoSaves ==
    ASSUME LabelsInv, NEW p \in Local \ crossed, p \in BackingUp \/ fetch.at # "idle"
    PROVE  SavesOf(p) = {} /\ CarriedAgrees(p) /\ KeptAgrees(p)
<1>1. Agrees(p)
  BY DEF LabelsInv
<1> QED BY <1>1 DEF Agrees, SaveAlone

\* A step of q's backup that leaves saves and screen alone, and keeps at most the
\* backup itself as a conflict.
LEMMA BackupKeeps ==
    ASSUME LabelsInv, NEW q \in Local, NEW b \in Backups, backup' = [backup EXCEPT ![q] = b],
           UNCHANGED <<screen, saver, fetch>>, StoreOK', events' \in 0..MaxEvents,
           crossed' \subseteq Project, crossed \subseteq crossed',
           \A p \in Local \ {q} : note'[p] = note[p] /\ profile'[p] = profile[p]
                                  /\ (p \in versioned' <=> p \in versioned),
           conflict' \subseteq Conflicts,
           \A c \in conflict' \ conflict :
              c.project = q /\ (q \notin crossed' => c.labels = note[q].labels),
           q \notin crossed' => SavesOf(q) = {} /\ CarriedAgrees(q)'
    PROVE  LabelsInv'
<1>1. /\ cards' = cards /\ chosen' = chosen /\ form' = form /\ saving' = saving /\ draft' = draft
      /\ saver' = saver /\ fetch' = fetch /\ backup \in [Local -> Backups]
  BY DEF screen, LabelsInv, LabelsTypeOK, TasksOK
<1>2. LabelsTypeOK'
  BY <1>1 DEF LabelsInv, LabelsTypeOK, ScreenOK, SaversOK, TasksOK
<1>3. DraftKept'
  BY <1>1 DEF LabelsInv, DraftKept
<1>4. \A p \in Local : SavesOf(p)' = SavesOf(p)
  BY <1>1 DEF SavesOf
<1>5. ASSUME NEW p \in Local \ crossed' PROVE Agrees(p)'
  <2>1. CASE p = q
    <3>1. Agrees(p) /\ SavesOf(p) = {} /\ SavesOf(p)' = {} /\ CarriedAgrees(p)'
      BY <1>4, <2>1 DEF LabelsInv
    <3>2. note'[p].labels = note[p].labels
      BY <1>1, <3>1 DEF Agrees, CarriedAgrees
    <3>3. KeptAgrees(p)'
      BY <2>1, <3>1, <3>2 DEF Agrees, KeptAgrees
    <3> QED BY <3>1, <3>3 DEF Agrees, SaveAlone
  <2>2. CASE p # q
    <3>1. Agrees(p) /\ backup'[p] = backup[p]
      BY <1>1, <2>2 DEF LabelsInv
    <3> QED BY <1>1, <1>4, <2>2, <3>1, Unmoved
  <2> QED BY <2>1, <2>2
<1> QED BY <1>2, <1>3, <1>5 DEF LabelsInv

\* What a backup step has to show of its own project.
LEMMA BackedUp ==
    ASSUME NEW q \in Local, NEW labels, cards' = cards, fetch' = fetch,
           cards[Here(q)].labels = labels,
           fetch.at = "read" /\ q \in DOMAIN fetch.found => fetch.found[q] = labels,
           note'[q].labels = labels, q \in versioned' => profile'[q] = labels,
           backup'[q].at # "idle" => backup'[q].labels = labels,
           backup'[q].at \in {"enrolling", "stashing", "recording"} => backup'[q].copy.labels = labels,
           backup'[q].at \in {"push", "stash", "stashing", "merge"} => profile'[q] = labels
    PROVE  CarriedAgrees(q)'
BY DEF CarriedAgrees, BackingUp

\* What a step of a backup reads has its type.
LEMMA BackupTypes ==
    ASSUME LabelsInv, NEW q \in Local
    PROVE  /\ backup \in [Local -> Backups] /\ backup[q] \in Backups
           /\ note \in [Local -> Notes] /\ note[q] \in Notes /\ note[q].labels \in Labels
           /\ profile \in [Project -> Labels] /\ versioned \subseteq Project /\ q \in Project
           /\ events \in 0..MaxEvents /\ crossed \subseteq Project /\ conflict \subseteq Conflicts
BY CardFacts DEF LabelsInv, LabelsTypeOK, StoreOK, TasksOK, Notes

\* A backup captures the labels its sidecar has.
LEMMA PrepareKeeps ==
    ASSUME LabelsInv, NEW q \in Local, Prepare(q)
    PROVE  LabelsInv'
<1> DEFINE b == [NoBackup EXCEPT !.at = "enrol", !.labels = note[q].labels]
<1>1. /\ b \in Backups /\ b.at = "enrol" /\ b.labels = note[q].labels
      /\ backup' = [backup EXCEPT ![q] = b] /\ backup'[q] = b
  BY BackupTypes, Blank DEF Backups, Prepare
<1> HIDE DEF b
<1>2. /\ UNCHANGED <<screen, saver, fetch>> /\ note' = note /\ profile' = profile
      /\ versioned' = versioned /\ cards' = cards /\ fetch' = fetch /\ conflict' = conflict /\ Event
      /\ crossed' = IF q \in InFlight THEN crossed \cup {q} ELSE crossed
  BY DEF Prepare, store, screen
<1>3. StoreOK' /\ events' \in 0..MaxEvents /\ crossed' \subseteq Project
      /\ conflict' \subseteq Conflicts
  BY <1>2, BackupTypes, LabelAssumption DEF StoreOK, Event
<1>4. ASSUME q \notin crossed' PROVE SavesOf(q) = {} /\ CarriedAgrees(q)'
  <2>1. SavesOf(q) = {} /\ CarriedAgrees(q)
    BY <1>2, <1>4, BackupTypes DEF InFlight, LabelsInv, Agrees
  <2>2. CarriedAgrees(q)'
    BY <1>1, <1>2, <2>1, BackedUp DEF CarriedAgrees
  <2> QED BY <2>1, <2>2
<1> QED BY <1>1, <1>2, <1>3, <1>4, BackupKeeps

\* A conflict that is resolved brings back the labels it kept, which are the
\* sidecar's or cross the project out of the claim.
LEMMA ResolveConflictKeeps ==
    ASSUME LabelsInv, NEW q \in Local, ResolveConflict(q)
    PROVE  LabelsInv'
<1>1. PICK c \in conflict :
          /\ c.project = q
          /\ backup' = [backup EXCEPT ![q] =
                [NoBackup EXCEPT !.at = "enrol", !.labels = c.labels, !.resolving = TRUE]]
          /\ crossed' = IF q \in InFlight \/ c.overtaken THEN crossed \cup {q} ELSE crossed
  BY Zenon DEF ResolveConflict
<1> DEFINE b == [NoBackup EXCEPT !.at = "enrol", !.labels = c.labels, !.resolving = TRUE]
<1>2. /\ b \in Backups /\ b.at = "enrol" /\ b.labels = c.labels
      /\ backup' = [backup EXCEPT ![q] = b] /\ backup'[q] = b
  BY <1>1, BackupTypes, Blank DEF Backups, Conflicts
<1> HIDE DEF b
<1>3. /\ UNCHANGED <<screen, saver, fetch>> /\ note' = note /\ profile' = profile
      /\ versioned' = versioned /\ cards' = cards /\ fetch' = fetch /\ conflict' = conflict
      /\ events' = events
  BY DEF ResolveConflict, store, screen
<1>4. StoreOK' /\ events' \in 0..MaxEvents /\ crossed' \subseteq Project
      /\ conflict' \subseteq Conflicts
  BY <1>1, <1>3, BackupTypes DEF StoreOK
<1>5. ASSUME q \notin crossed' PROVE SavesOf(q) = {} /\ CarriedAgrees(q)'
  <2>1. SavesOf(q) = {} /\ CarriedAgrees(q) /\ KeptAgrees(q) /\ ~c.overtaken
    BY <1>1, <1>5, BackupTypes DEF InFlight, LabelsInv, Agrees
  <2>2. c.labels = note[q].labels
    BY <1>1, <2>1 DEF KeptAgrees
  <2>3. CarriedAgrees(q)'
    BY <1>2, <1>3, <2>1, <2>2, BackedUp DEF CarriedAgrees
  <2> QED BY <2>1, <2>3
<1> QED BY <1>1, <1>2, <1>3, <1>4, <1>5, BackupKeeps

\* A backup loads the sidecar before it changes it.
LEMMA BackupLoadsKeeps ==
    ASSUME LabelsInv, NEW q \in Local, BackupLoads(q)
    PROVE  LabelsInv'
<1> DEFINE at == Loading[backup[q].at]
           b == [backup[q] EXCEPT !.at = at, !.copy = note[q]]
<1>1. /\ at \in {"enrolling", "stashing", "recording"} /\ backup[q].at # "idle"
      /\ at = "stashing" => backup[q].at = "stash"
  BY DEF BackupLoads, Loading
<1>2. backup' = [backup EXCEPT ![q].at = at, ![q].copy = note[q]]
  BY BackupTypes DEF BackupLoads
<1> HIDE DEF at
<1>3. /\ b \in Backups /\ b.at = at /\ b.labels = backup[q].labels /\ b.copy = note[q]
      /\ backup' = [backup EXCEPT ![q] = b] /\ backup'[q] = b
  BY <1>1, <1>2, BackupTypes DEF Backups
<1> HIDE DEF b
<1>4. /\ UNCHANGED <<screen, saver, fetch>> /\ note' = note /\ profile' = profile
      /\ versioned' = versioned /\ cards' = cards /\ fetch' = fetch /\ conflict' = conflict
      /\ crossed' = crossed /\ events' = events
  BY DEF BackupLoads, store, screen
<1>5. StoreOK' /\ events' \in 0..MaxEvents /\ crossed' \subseteq Project
      /\ conflict' \subseteq Conflicts
  BY <1>4, BackupTypes DEF StoreOK
<1>6. ASSUME q \notin crossed' PROVE SavesOf(q) = {} /\ CarriedAgrees(q)'
  <2>1. SavesOf(q) = {} /\ CarriedAgrees(q) /\ q \in BackingUp
    BY <1>1, <1>4, <1>6, NoSaves DEF BackingUp
  <2>2. CarriedAgrees(q)'
    BY <1>1, <1>3, <1>4, <2>1, BackedUp DEF CarriedAgrees
  <2> QED BY <2>1, <2>2
<1> QED BY <1>3, <1>4, <1>5, <1>6, BackupKeeps

\* A backup writes its provider into the sidecar it loaded, labels included.
LEMMA EnrolsKeeps ==
    ASSUME LabelsInv, NEW q \in Local, Enrols(q)
    PROVE  LabelsInv'
<1> DEFINE b == [backup[q] EXCEPT !.at = "register", !.copy = NewNote]
           n == [backup[q].copy EXCEPT !.handle = TRUE]
<1>1. /\ b \in Backups /\ b.at = "register" /\ b.labels = backup[q].labels
      /\ backup' = [backup EXCEPT ![q] = b] /\ backup'[q] = b /\ backup[q].at = "enrolling"
  BY BackupTypes, Blank DEF Backups, Enrols
<1>2. /\ n \in Notes /\ n.labels = backup[q].copy.labels
      /\ note' = [note EXCEPT ![q] = n] /\ note'[q] = n
  BY BackupTypes DEF Backups, Notes, Enrols
<1> HIDE DEF b, n
<1>3. /\ UNCHANGED <<screen, saver, fetch>> /\ profile' = profile
      /\ versioned' = versioned /\ cards' = cards /\ fetch' = fetch /\ conflict' = conflict
      /\ crossed' = crossed /\ events' = events
  BY DEF Enrols, screen
<1>4. StoreOK' /\ events' \in 0..MaxEvents /\ crossed' \subseteq Project
      /\ conflict' \subseteq Conflicts
      /\ \A p \in Local \ {q} : note'[p] = note[p]
  BY <1>2, <1>3, BackupTypes DEF StoreOK
<1>5. ASSUME q \notin crossed' PROVE SavesOf(q) = {} /\ CarriedAgrees(q)'
  <2>1. SavesOf(q) = {} /\ CarriedAgrees(q) /\ q \in BackingUp
    BY <1>1, <1>3, <1>5, NoSaves DEF BackingUp
  <2>2. CarriedAgrees(q)'
    BY <1>1, <1>2, <1>3, <2>1, BackedUp DEF CarriedAgrees
  <2> QED BY <2>1, <2>2
<1> QED BY <1>1, <1>3, <1>4, <1>5, BackupKeeps

\* A backup registers the labels it captured.
LEMMA RegistersKeeps ==
    ASSUME LabelsInv, NEW q \in Local, Registers(q)
    PROVE  LabelsInv'
<1> DEFINE b == [backup[q] EXCEPT !.at = "push"]
<1>1. /\ b \in Backups /\ b.at = "push" /\ b.labels = backup[q].labels
      /\ backup' = [backup EXCEPT ![q] = b] /\ backup'[q] = b /\ backup[q].at = "register"
      /\ b.labels \in Labels /\ profile' = [profile EXCEPT ![q] = b.labels]
      /\ profile'[q] = b.labels
  BY BackupTypes DEF Backups, Registers
<1> HIDE DEF b
<1>2. /\ UNCHANGED <<screen, saver, fetch>> /\ note' = note
      /\ versioned' = versioned /\ cards' = cards /\ fetch' = fetch /\ conflict' = conflict
      /\ crossed' = crossed /\ events' = events
  BY DEF Registers, screen
<1>3. StoreOK' /\ events' \in 0..MaxEvents /\ crossed' \subseteq Project
      /\ conflict' \subseteq Conflicts
      /\ \A p \in Local \ {q} : profile'[p] = profile[p]
  BY <1>1, <1>2, BackupTypes, CardFacts DEF StoreOK
<1>4. ASSUME q \notin crossed' PROVE SavesOf(q) = {} /\ CarriedAgrees(q)'
  <2>1. SavesOf(q) = {} /\ CarriedAgrees(q) /\ q \in BackingUp
    BY <1>1, <1>2, <1>4, NoSaves DEF BackingUp
  <2>2. CarriedAgrees(q)'
    BY <1>1, <1>2, <2>1, BackedUp DEF CarriedAgrees
  <2> QED BY <2>1, <2>2
<1> QED BY <1>1, <1>2, <1>3, <1>4, BackupKeeps

\* A backup that has to merge stashes the project before.
LEMMA DivergesKeeps ==
    ASSUME LabelsInv, NEW q \in Local, Diverges(q)
    PROVE  LabelsInv'
<1> DEFINE b == [backup[q] EXCEPT !.at = "stash"]
<1>1. /\ b \in Backups /\ b.at = "stash" /\ b.labels = backup[q].labels
      /\ backup' = [backup EXCEPT ![q] = b] /\ backup'[q] = b /\ backup[q].at = "push"
  BY BackupTypes DEF Backups, Diverges
<1> HIDE DEF b
<1>2. /\ UNCHANGED <<screen, saver, fetch>> /\ note' = note /\ profile' = profile
      /\ versioned' = versioned /\ cards' = cards /\ fetch' = fetch /\ conflict' = conflict
      /\ crossed' = crossed /\ events' = events
  BY DEF Diverges, screen, store
<1>3. StoreOK' /\ events' \in 0..MaxEvents /\ crossed' \subseteq Project
      /\ conflict' \subseteq Conflicts
  BY <1>2, BackupTypes DEF StoreOK
<1>4. ASSUME q \notin crossed' PROVE SavesOf(q) = {} /\ CarriedAgrees(q)'
  <2>1. SavesOf(q) = {} /\ CarriedAgrees(q) /\ q \in BackingUp
    BY <1>1, <1>2, <1>4, NoSaves DEF BackingUp
  <2>2. CarriedAgrees(q)'
    BY <1>1, <1>2, <2>1, BackedUp DEF CarriedAgrees
  <2> QED BY <2>1, <2>2
<1> QED BY <1>1, <1>2, <1>3, <1>4, BackupKeeps

\* The stash goes into the sidecar that was loaded, labels included.
LEMMA StashesKeeps ==
    ASSUME LabelsInv, NEW q \in Local, Stashes(q)
    PROVE  LabelsInv'
<1> DEFINE b == [backup[q] EXCEPT !.at = "merge", !.copy = NewNote]
           n == backup[q].copy
<1>1. /\ b \in Backups /\ b.at = "merge" /\ b.labels = backup[q].labels
      /\ backup' = [backup EXCEPT ![q] = b] /\ backup'[q] = b /\ backup[q].at = "stashing"
  BY BackupTypes, Blank DEF Backups, Stashes
<1>2. n \in Notes /\ note' = [note EXCEPT ![q] = n] /\ note'[q] = n
  BY BackupTypes DEF Backups, Stashes
<1>3. n.labels = backup[q].copy.labels
  OBVIOUS
<1> HIDE DEF b, n
<1>4. /\ UNCHANGED <<screen, saver, fetch>> /\ profile' = profile
      /\ versioned' = versioned /\ cards' = cards /\ fetch' = fetch /\ conflict' = conflict
      /\ crossed' = crossed /\ events' = events
  BY DEF Stashes, screen
<1>5. StoreOK' /\ events' \in 0..MaxEvents /\ crossed' \subseteq Project
      /\ conflict' \subseteq Conflicts
      /\ \A p \in Local \ {q} : note'[p] = note[p]
  BY <1>2, <1>4, BackupTypes DEF StoreOK
<1>6. ASSUME q \notin crossed' PROVE SavesOf(q) = {} /\ CarriedAgrees(q)'
  <2>1. SavesOf(q) = {} /\ CarriedAgrees(q) /\ q \in BackingUp
    BY <1>1, <1>4, <1>6, NoSaves DEF BackingUp
  <2>2. CarriedAgrees(q)'
    BY <1>1, <1>2, <1>3, <1>4, <2>1, BackedUp DEF CarriedAgrees
  <2> QED BY <2>1, <2>2
<1> QED BY <1>1, <1>4, <1>5, <1>6, BackupKeeps

\* A backup that finds conflicts, or problems, ends; the conflict keeps labels
\* that are the sidecar's.
LEMMA FindsKeeps ==
    ASSUME LabelsInv, NEW q \in Local, FindsConflicts(q) \/ FindsProblems(q)
    PROVE  LabelsInv'
<1> DEFINE c == [project |-> q, labels |-> backup[q].labels, overtaken |-> FALSE]
<1>1. /\ backup' = [backup EXCEPT ![q] = NoBackup] /\ backup'[q] = NoBackup
      /\ backup[q].at = "merge" /\ conflict' \subseteq conflict \cup {c}
  BY BackupTypes DEF FindsConflicts, FindsProblems
<1>2. c \in Conflicts /\ c.project = q /\ c.labels = backup[q].labels
  BY BackupTypes DEF Backups, Conflicts
<1> HIDE DEF c
<1>3. /\ UNCHANGED <<screen, saver, fetch>> /\ note' = note /\ profile' = profile
      /\ versioned' = versioned /\ cards' = cards /\ fetch' = fetch
      /\ crossed' = crossed /\ events' = events
  BY DEF FindsConflicts, FindsProblems, screen, store
<1>4. StoreOK' /\ events' \in 0..MaxEvents /\ crossed' \subseteq Project
      /\ conflict' \subseteq Conflicts
  BY <1>1, <1>2, <1>3, BackupTypes DEF StoreOK
<1>5. ASSUME q \notin crossed'
      PROVE  SavesOf(q) = {} /\ CarriedAgrees(q)' /\ backup[q].labels = note[q].labels
  <2>1. SavesOf(q) = {} /\ CarriedAgrees(q) /\ q \in BackingUp
    BY <1>1, <1>3, <1>5, NoSaves DEF BackingUp
  <2>2. CarriedAgrees(q)'
    BY <1>1, <1>3, <2>1, Blank, BackedUp DEF CarriedAgrees
  <2> QED BY <2>1, <2>2 DEF CarriedAgrees
<1>6. \A d \in conflict' \ conflict :
          d.project = q /\ (q \notin crossed' => d.labels = note[q].labels)
  BY <1>1, <1>2, <1>5
<1> QED BY <1>1, <1>3, <1>4, <1>5, <1>6, Blank, BackupKeeps

\* A first push makes the project one of the provider's.
LEMMA PushesKeeps ==
    ASSUME LabelsInv, NEW q \in Local, Pushes(q)
    PROVE  LabelsInv'
<1> DEFINE b == [backup[q] EXCEPT !.at = "record"]
<1>1. /\ b \in Backups /\ b.at = "record" /\ b.labels = backup[q].labels
      /\ backup' = [backup EXCEPT ![q] = b] /\ backup'[q] = b /\ backup[q].at \in {"push", "merge"}
  BY BackupTypes DEF Backups, Pushes
<1> HIDE DEF b
<1>2. /\ UNCHANGED <<screen, saver, fetch>> /\ note' = note /\ profile' = profile
      /\ versioned' = versioned \cup {q} /\ cards' = cards /\ fetch' = fetch /\ conflict' = conflict
      /\ crossed' = crossed /\ events' = events
  BY DEF Pushes, screen
<1>3. StoreOK' /\ events' \in 0..MaxEvents /\ crossed' \subseteq Project
      /\ conflict' \subseteq Conflicts
  BY <1>2, BackupTypes DEF StoreOK
<1>4. ASSUME q \notin crossed' PROVE SavesOf(q) = {} /\ CarriedAgrees(q)'
  <2>1. SavesOf(q) = {} /\ CarriedAgrees(q) /\ q \in BackingUp
    BY <1>1, <1>2, <1>4, NoSaves DEF BackingUp
  <2>2. CarriedAgrees(q)'
    BY <1>1, <1>2, <2>1, BackedUp DEF CarriedAgrees
  <2> QED BY <2>1, <2>2
<1> QED BY <1>1, <1>2, <1>3, <1>4, BackupKeeps

\* A backup records its commit in the sidecar it loaded, labels included.
LEMMA RecordsKeeps ==
    ASSUME LabelsInv, NEW q \in Local, Records(q)
    PROVE  LabelsInv'
<1> DEFINE n == [backup[q].copy EXCEPT !.head = TRUE]
<1>1. /\ backup' = [backup EXCEPT ![q] = NoBackup] /\ backup'[q] = NoBackup
      /\ backup[q].at = "recording"
  BY BackupTypes DEF Records
<1>2. /\ n \in Notes /\ n.labels = backup[q].copy.labels
      /\ note' = [note EXCEPT ![q] = n] /\ note'[q] = n
  BY BackupTypes DEF Backups, Notes, Records
<1> HIDE DEF n
<1>3. /\ UNCHANGED <<screen, saver, fetch>> /\ profile' = profile
      /\ versioned' = versioned /\ cards' = cards /\ fetch' = fetch /\ conflict' \subseteq conflict
      /\ crossed' = crossed /\ events' = events
  BY DEF Records, screen
<1>4. StoreOK' /\ events' \in 0..MaxEvents /\ crossed' \subseteq Project
      /\ conflict' \subseteq Conflicts
      /\ \A p \in Local \ {q} : note'[p] = note[p]
  BY <1>2, <1>3, BackupTypes DEF StoreOK
<1>5. ASSUME q \notin crossed' PROVE SavesOf(q) = {} /\ CarriedAgrees(q)'
  <2>1. SavesOf(q) = {} /\ CarriedAgrees(q)
    BY <1>1, <1>3, <1>5, NoSaves DEF BackingUp
  <2>2. CarriedAgrees(q)'
    BY <1>1, <1>2, <1>3, <2>1, Blank, BackedUp DEF CarriedAgrees
  <2> QED BY <2>1, <2>2
<1> QED BY <1>1, <1>3, <1>4, <1>5, Blank, BackupKeeps

\* A backup that fails leaves the labels as they are.
LEMMA BackupFailsKeeps ==
    ASSUME LabelsInv, NEW q \in Local, BackupFails(q)
    PROVE  LabelsInv'
<1>1. /\ backup' = [backup EXCEPT ![q] = NoBackup] /\ backup'[q] = NoBackup /\ q \in BackingUp
  BY BackupTypes DEF BackupFails
<1>2. /\ UNCHANGED <<screen, saver, fetch>> /\ note' = note /\ profile' = profile
      /\ versioned' = versioned /\ cards' = cards /\ fetch' = fetch /\ conflict' = conflict
      /\ crossed' = crossed /\ Event
  BY DEF BackupFails, screen, store
<1>3. StoreOK' /\ events' \in 0..MaxEvents /\ crossed' \subseteq Project
      /\ conflict' \subseteq Conflicts
  BY <1>2, BackupTypes, LabelAssumption DEF StoreOK, Event
<1>4. ASSUME q \notin crossed' PROVE SavesOf(q) = {} /\ CarriedAgrees(q)'
  <2>1. SavesOf(q) = {} /\ CarriedAgrees(q)
    BY <1>1, <1>2, <1>4, NoSaves
  <2>2. CarriedAgrees(q)'
    BY <1>1, <1>2, <2>1, Blank, BackedUp DEF CarriedAgrees
  <2> QED BY <2>1, <2>2
<1> QED BY <1>1, <1>2, <1>3, <1>4, Blank, BackupKeeps

-----------------------------------------------------------------------------
\* The catalogue, the library and the application.

\* A catalogue lists labels of projects.
LEMMA FoundType ==
    ASSUME fetch \in Fetches
    PROVE  \A p \in DOMAIN fetch.found : p \in Project /\ fetch.found[p] \in Labels
<1>1. CASE fetch.found = <<>>
  BY <1>1
<1>2. CASE fetch.found # <<>>
  <2>1. PICK S \in SUBSET Project : fetch.found \in [S -> Labels]
    BY <1>2 DEF Fetches
  <2> QED BY <2>1
<1> QED BY <1>1, <1>2

\* A refresh that is asked for while one runs is due next.
LEMMA FetchTypes ==
    ASSUME fetch \in Fetches
    PROVE  /\ Refreshing \in Fetches /\ NextFetch \in Fetches
           /\ Refreshing.at # "idle" /\ NextFetch.at # "read"
           /\ Refreshing.at = "read" => fetch.at = "read" /\ Refreshing.found = fetch.found
<1> DEFINE reading == [NoFetch EXCEPT !.at = "reading"]
           due == [fetch EXCEPT !.due = TRUE]
<1>1. reading \in Fetches /\ reading.at = "reading"
  BY Blank DEF Fetches
<1>2. due \in Fetches /\ due.at = fetch.at /\ due.found = fetch.found
  BY DEF Fetches
<1>3. /\ Refreshing = IF fetch.at = "idle" THEN reading ELSE due
      /\ NextFetch = IF fetch.due THEN reading ELSE NoFetch
  BY DEF Refreshing, NextFetch
<1> HIDE DEF reading, due
<1> QED BY <1>1, <1>2, <1>3, Blank

\* A step of the catalogue or of the application: a project that is not crossed
\* has no save in flight, before or after.
LEMMA CatalogueKeeps ==
    ASSUME LabelsInv, UNCHANGED <<store, saver, backup, conflict>>, ScreenOK', DraftKept',
           fetch' \in Fetches, events' \in 0..MaxEvents, crossed' \subseteq Project,
           \A p \in Local \ crossed' :
              /\ p \notin crossed /\ SavesOf(p) = {}
              /\ cards'[Here(p)].labels = note[p].labels
              /\ fetch'.at = "read" /\ p \in DOMAIN fetch'.found
                    => fetch'.found[p] = note[p].labels
    PROVE  LabelsInv'
<1>1. note' = note /\ profile' = profile /\ versioned' = versioned /\ saver' = saver
      /\ backup' = backup /\ conflict' = conflict
  BY DEF store
<1>2. LabelsTypeOK'
  BY <1>1 DEF LabelsInv, LabelsTypeOK, StoreOK, SaversOK, TasksOK
<1>3. ASSUME NEW p \in Local \ crossed' PROVE Agrees(p)'
  <2>1. SavesOf(p)' = {} /\ SavesOf(p) = {} /\ CarriedAgrees(p)
    BY <1>1 DEF SavesOf, LabelsInv, Agrees
  <2>2. (p \in BackingUp)' <=> p \in BackingUp
    BY <1>1 DEF BackingUp
  <2>3. CarriedAgrees(p)'
    BY <1>1, <2>1, <2>2 DEF CarriedAgrees
  <2>4. KeptAgrees(p)'
    BY <1>1, <2>1 DEF LabelsInv, Agrees, KeptAgrees
  <2> QED BY <2>1, <2>3, <2>4 DEF Agrees, SaveAlone
<1> QED BY <1>2, <1>3 DEF LabelsInv

\* A refresh crosses every save that is under way.
LEMMA AskCatalogueKeeps ==
    ASSUME LabelsInv, AskCatalogue
    PROVE  LabelsInv'
<1>1. /\ UNCHANGED <<store, saver, backup, conflict>> /\ Event /\ fetch' = Refreshing
      /\ crossed' = crossed \cup InFlight
      /\ cards' = cards /\ chosen' = chosen /\ form' = form /\ saving' = saving /\ draft' = draft
  BY DEF AskCatalogue, screen
<1>2. ScreenOK' /\ DraftKept'
  BY <1>1 DEF LabelsInv, LabelsTypeOK, ScreenOK, DraftKept
<1>3. /\ fetch' \in Fetches /\ events' \in 0..MaxEvents /\ crossed' \subseteq Project
      /\ fetch'.at = "read" => fetch.at = "read" /\ fetch'.found = fetch.found
  BY <1>1, FetchTypes, LabelAssumption DEF Event, InFlight, LabelsInv, LabelsTypeOK, TasksOK
<1>4. ASSUME NEW p \in Local \ crossed'
      PROVE  /\ p \notin crossed /\ SavesOf(p) = {}
             /\ cards'[Here(p)].labels = note[p].labels
             /\ fetch'.at = "read" /\ p \in DOMAIN fetch'.found
                   => fetch'.found[p] = note[p].labels
  <2>1. p \notin crossed /\ SavesOf(p) = {}
    BY <1>1, CardFacts DEF InFlight
  <2>2. CarriedAgrees(p)
    BY <2>1 DEF LabelsInv, Agrees
  <2> QED BY <1>1, <1>3, <2>1, <2>2 DEF CarriedAgrees
<1> QED BY <1>1, <1>2, <1>3, <1>4, CatalogueKeeps

\* The provider answers with the labels it has now.
LEMMA ReadCatalogueKeeps ==
    ASSUME LabelsInv, ReadCatalogue
    PROVE  LabelsInv'
<1> DEFINE found == [p \in versioned |-> profile[p]]
<1>1. /\ UNCHANGED <<store, saver, backup, conflict>> /\ fetch.at = "reading" /\ crossed' = crossed
      /\ fetch' = [fetch EXCEPT !.at = "read", !.found = found] /\ events' = events
      /\ cards' = cards /\ chosen' = chosen /\ form' = form /\ saving' = saving /\ draft' = draft
  BY DEF ReadCatalogue, screen
<1>2. ScreenOK' /\ DraftKept'
  BY <1>1 DEF LabelsInv, LabelsTypeOK, ScreenOK, DraftKept
<1>3. /\ found \in [versioned -> Labels] /\ versioned \in SUBSET Project /\ fetch \in Fetches
      /\ DOMAIN found = versioned /\ \A p \in versioned : found[p] = profile[p]
  BY DEF LabelsInv, LabelsTypeOK, StoreOK, TasksOK
<1> HIDE DEF found
<1>4. found \in UNION {[S -> Labels] : S \in SUBSET Project}
  BY <1>3
<1>5. fetch' \in Fetches /\ fetch'.found = found
  BY <1>1, <1>3, <1>4 DEF Fetches
<1>6. events' \in 0..MaxEvents /\ crossed' \subseteq Project
  BY <1>1 DEF LabelsInv, LabelsTypeOK, TasksOK
<1>7. ASSUME NEW p \in Local \ crossed'
      PROVE  /\ p \notin crossed /\ SavesOf(p) = {}
             /\ cards'[Here(p)].labels = note[p].labels
             /\ fetch'.at = "read" /\ p \in DOMAIN fetch'.found
                   => fetch'.found[p] = note[p].labels
  <2>1. p \notin crossed /\ SavesOf(p) = {} /\ CarriedAgrees(p)
    BY <1>1, NoSaves
  <2> QED BY <1>1, <1>3, <1>5, <2>1 DEF CarriedAgrees
<1> QED BY <1>1, <1>2, <1>5, <1>6, <1>7, CatalogueKeeps

\* The cards once a catalogue has arrived.
LEMMA ReplacedCards ==
    ASSUME LabelsInv
    PROVE  LET cs == Replaced(fetch.found)
           IN  /\ cs \in [DOMAIN cs -> CardRows]
               /\ LocalCards \subseteq DOMAIN cs /\ DOMAIN cs \subseteq Card
               /\ \A p \in Local :
                     \/ cs[Here(p)].labels = cards[Here(p)].labels
                     \/ p \in DOMAIN fetch.found /\ cs[Here(p)].labels = fetch.found[p]
<1> DEFINE found == fetch.found
           cs == Replaced(found)
           D == LocalCards \cup {There(p) : p \in DOMAIN found \ Known}
<1>1. \A p \in DOMAIN found : p \in Project /\ found[p] \in Labels
  BY FoundType DEF LabelsInv, LabelsTypeOK, TasksOK
<1>2. cards \in [DOMAIN cards -> CardRows] /\ LocalCards \subseteq DOMAIN cards
  BY DEF LabelsInv, LabelsTypeOK, ScreenOK
<1>3. cs = [c \in D |->
              CASE c[2] = "there" -> FromCatalogue(found[c[1]])
                [] c[2] = "here" /\ c[1] \in DOMAIN found \cap Known ->
                      [cards[c] EXCEPT !.labels = found[c[1]]]
                [] OTHER -> cards[c]]
  BY DEF Replaced
<1> HIDE DEF cs, found
<1>4. ASSUME NEW c \in LocalCards
      PROVE  /\ cs[c] \in CardRows
             /\ \/ cs[c] = cards[c]
                \/ c[1] \in DOMAIN found /\ cs[c].labels = found[c[1]]
  <2>1. c[2] = "here" /\ cards[c] \in CardRows /\ c \in D
    BY <1>2, CardFacts
  <2>2. CASE c[1] \in DOMAIN found \cap Known
    <3>1. cs[c] = [cards[c] EXCEPT !.labels = found[c[1]]]
      BY <1>3, <2>1, <2>2
    <3> QED BY <1>1, <2>1, <2>2, <3>1 DEF CardRows
  <2>3. CASE c[1] \notin DOMAIN found \cap Known
    BY <1>3, <2>1, <2>3
  <2> QED BY <2>2, <2>3
<1>5. ASSUME NEW p \in DOMAIN found \ Known PROVE cs[There(p)] \in CardRows /\ There(p) \in Card
  <2>1. There(p) \in D /\ There(p) \in Card /\ There(p)[2] = "there" /\ There(p)[1] = p
    BY <1>1, CardFacts
  <2>2. cs[There(p)] = FromCatalogue(found[p])
    BY <1>3, <2>1
  <2> QED BY <1>1, <2>1, <2>2 DEF FromCatalogue, CardRows
<1>6. DOMAIN cs = D /\ D \subseteq Card
  BY <1>3, <1>5 DEF Card
<1>7. \A c \in D : cs[c] \in CardRows
  BY <1>4, <1>5
<1>8. cs \in [D -> CardRows]
  BY <1>3, <1>7
<1>9. ASSUME NEW p \in Local
      PROVE  \/ cs[Here(p)].labels = cards[Here(p)].labels
             \/ p \in DOMAIN found /\ cs[Here(p)].labels = found[p]
  <2>1. Here(p) \in LocalCards /\ Here(p)[1] = p
    BY CardFacts
  <2> QED BY <1>4, <2>1
<1> QED BY <1>6, <1>8, <1>9 DEF cs, found

\* A catalogue brings each card the labels it listed.
LEMMA CatalogueArrivesKeeps ==
    ASSUME LabelsInv, CatalogueArrives
    PROVE  LabelsInv'
<1> DEFINE cs == Replaced(fetch.found)
<1>1. /\ cs \in [DOMAIN cs -> CardRows]
      /\ LocalCards \subseteq DOMAIN cs /\ DOMAIN cs \subseteq Card
      /\ \A p \in Local : \/ cs[Here(p)].labels = cards[Here(p)].labels
                          \/ p \in DOMAIN fetch.found /\ cs[Here(p)].labels = fetch.found[p]
  BY ReplacedCards
<1>2. PICK card \in DOMAIN cs : Chooses(form, cs, card)
  BY DEF CatalogueArrives
<1> HIDE DEF cs
<1>3. /\ UNCHANGED <<store, saver, backup, conflict>> /\ fetch.at = "read" /\ crossed' = crossed
      /\ fetch' = NextFetch /\ events' = events /\ saving' = saving
  BY DEF CatalogueArrives
<1>4. ScreenOK /\ DraftKept /\ saving' \subseteq Card
  BY <1>3 DEF LabelsInv, LabelsTypeOK, ScreenOK
<1>5. ScreenOK' /\ DraftKept' /\ cards' = cs
  BY <1>1, <1>2, <1>4, Chosen
<1>6. /\ fetch' \in Fetches /\ fetch'.at # "read" /\ events' \in 0..MaxEvents
      /\ crossed' \subseteq Project
  BY <1>3, FetchTypes DEF LabelsInv, LabelsTypeOK, TasksOK
<1>7. ASSUME NEW p \in Local \ crossed'
      PROVE  /\ p \notin crossed /\ SavesOf(p) = {}
             /\ cards'[Here(p)].labels = note[p].labels
  <2>1. p \notin crossed /\ SavesOf(p) = {} /\ CarriedAgrees(p)
    BY <1>3, NoSaves
  <2> QED BY <1>1, <1>3, <1>5, <2>1 DEF CarriedAgrees
<1> QED BY <1>3, <1>5, <1>6, <1>7, CatalogueKeeps

\* A failed refresh changes no card.
LEMMA CatalogueFailsKeeps ==
    ASSUME LabelsInv, CatalogueFails
    PROVE  LabelsInv'
<1>1. /\ UNCHANGED <<store, saver, backup, conflict>> /\ fetch.at = "reading" /\ crossed' = crossed
      /\ fetch' = NextFetch /\ Event
      /\ cards' = cards /\ chosen' = chosen /\ form' = form /\ saving' = saving /\ draft' = draft
  BY DEF CatalogueFails, screen
<1>2. ScreenOK' /\ DraftKept'
  BY <1>1 DEF LabelsInv, LabelsTypeOK, ScreenOK, DraftKept
<1>3. /\ fetch' \in Fetches /\ fetch'.at # "read" /\ events' \in 0..MaxEvents
      /\ crossed' \subseteq Project
  BY <1>1, FetchTypes, LabelAssumption DEF Event, LabelsInv, LabelsTypeOK, TasksOK
<1>4. ASSUME NEW p \in Local \ crossed'
      PROVE  /\ p \notin crossed /\ SavesOf(p) = {}
             /\ cards'[Here(p)].labels = note[p].labels
  <2>1. p \notin crossed /\ SavesOf(p) = {} /\ CarriedAgrees(p)
    BY <1>1, NoSaves
  <2> QED BY <1>1, <2>1 DEF CarriedAgrees
<1> QED BY <1>1, <1>2, <1>3, <1>4, CatalogueKeeps

\* Labels saved by another computer are crossed out of the claim.
LEMMA OtherComputerKeeps ==
    ASSUME LabelsInv, NEW q \in Project, NEW labels \in Labels, OtherComputer(q, labels)
    PROVE  LabelsInv'
<1>1. /\ note' = note /\ versioned' = versioned /\ saver' = saver /\ backup' = backup
      /\ conflict' = conflict /\ fetch' = fetch /\ crossed' = crossed \cup {q} /\ Event
      /\ profile' = [profile EXCEPT ![q] = labels]
      /\ cards' = cards /\ chosen' = chosen /\ form' = form /\ saving' = saving /\ draft' = draft
  BY DEF OtherComputer, screen
<1>2. events' \in 0..MaxEvents
  BY <1>1, LabelAssumption DEF Event, LabelsInv, LabelsTypeOK, TasksOK
<1>3. LabelsTypeOK'
  BY <1>1, <1>2 DEF LabelsInv, LabelsTypeOK, StoreOK, ScreenOK, SaversOK, TasksOK
<1>4. DraftKept'
  BY <1>1 DEF LabelsInv, DraftKept
<1>5. ASSUME NEW p \in Local \ crossed' PROVE Agrees(p)'
  <2>1. Agrees(p) /\ profile'[p] = profile[p]
    BY <1>1, CardFacts DEF LabelsInv, LabelsTypeOK, StoreOK
  <2>2. SavesOf(p)' = SavesOf(p)
    BY <1>1 DEF SavesOf
  <2> QED BY <1>1, <2>1, <2>2, Unmoved
<1> QED BY <1>3, <1>4, <1>5 DEF LabelsInv

\* A reload reads every card from its sidecar.
LEMMA ReloadLibraryKeeps ==
    ASSUME LabelsInv, ReloadLibrary
    PROVE  LabelsInv'
<1> DEFINE cs == [c \in DOMAIN cards |-> IF c[2] = "here" THEN FromDisk(c[1]) ELSE cards[c]]
<1>1. /\ ScreenOK /\ DraftKept /\ StoreOK /\ cards \in [DOMAIN cards -> CardRows]
      /\ LocalCards \subseteq DOMAIN cards /\ DOMAIN cards \subseteq Card
  BY DEF LabelsInv, LabelsTypeOK, ScreenOK
<1>2. ASSUME NEW c \in DOMAIN cards
      PROVE  cs[c] \in CardRows /\ (c \in LocalCards => cs[c].labels = note[c[1]].labels)
  BY <1>1, <1>2, CardFacts, FromDiskType
<1>3. DOMAIN cs = DOMAIN cards /\ cs \in [DOMAIN cs -> CardRows]
  BY <1>2
<1>4. PICK card \in DOMAIN cs : Chooses(form, cs, card)
  BY DEF ReloadLibrary
<1> HIDE DEF cs
<1>5. /\ UNCHANGED <<store, saver, backup, conflict>> /\ crossed' = crossed \cup InFlight
      /\ fetch' = Refreshing /\ Event /\ saving' = saving
  BY DEF ReloadLibrary
<1>6. saving' \subseteq Card
  BY <1>1, <1>5 DEF ScreenOK
<1>7. ScreenOK' /\ DraftKept' /\ cards' = cs
  BY <1>1, <1>3, <1>4, <1>6, Chosen
<1>8. /\ fetch' \in Fetches /\ events' \in 0..MaxEvents /\ crossed' \subseteq Project
      /\ fetch'.at = "read" => fetch.at = "read" /\ fetch'.found = fetch.found
  BY <1>5, FetchTypes, LabelAssumption DEF Event, InFlight, LabelsInv, LabelsTypeOK, TasksOK
<1>9. ASSUME NEW p \in Local \ crossed'
      PROVE  /\ p \notin crossed /\ SavesOf(p) = {}
             /\ cards'[Here(p)].labels = note[p].labels
             /\ fetch'.at = "read" /\ p \in DOMAIN fetch'.found
                   => fetch'.found[p] = note[p].labels
  <2>1. p \notin crossed /\ SavesOf(p) = {}
    BY <1>5, CardFacts DEF InFlight
  <2>2. CarriedAgrees(p)
    BY <2>1 DEF LabelsInv, Agrees
  <2>3. cs[Here(p)].labels = note[p].labels
    BY <1>1, <1>2, CardFacts
  <2> QED BY <1>7, <1>8, <2>1, <2>2, <2>3 DEF CarriedAgrees
<1> QED BY <1>5, <1>7, <1>8, <1>9, CatalogueKeeps

\* Cards as the disk has them, and nothing in flight.
LEMMA FreshScreen ==
    ASSUME StoreOK, NEW cs, cs = [c \in LocalCards |-> FromDisk(c[1])], NEW card \in DOMAIN cs,
           cards' = cs, chosen' = card, form' = Showing(card, cs[card].labels),
           saving' = {}, draft' = {}
    PROVE  ScreenOK' /\ DraftKept'
           /\ \A p \in Local : cards'[Here(p)].labels = note[p].labels
<1>1. ASSUME NEW c \in LocalCards
      PROVE  cs[c] \in CardRows /\ cs[c].labels = note[c[1]].labels
  BY CardFacts, FromDiskType
<1>2. DOMAIN cs = LocalCards /\ cs \in [LocalCards -> CardRows] /\ LocalCards \subseteq Card
  BY <1>1 DEF Card
<1>3. Showing(card, cs[card].labels) \in Forms /\ Showing(card, cs[card].labels).card = card
  <2>1. cs[card].labels \in Labels /\ card \in Card
    BY <1>2 DEF CardRows
  <2> QED BY <2>1 DEF Showing, Forms
<1>4. ScreenOK'
  BY <1>2, <1>3 DEF ScreenOK
<1>5. DraftKept'
  BY <1>3 DEF DraftKept
<1> QED BY <1>1, <1>4, <1>5, CardFacts

\* A start reads every card from its sidecar and runs no task.
LEMMA RelaunchKeeps ==
    ASSUME LabelsInv, Relaunch
    PROVE  LabelsInv'
<1> DEFINE cs == [c \in LocalCards |-> FromDisk(c[1])]
<1>1. PICK card \in DOMAIN cs : /\ cards' = cs /\ chosen' = card
                                /\ form' = Showing(card, cs[card].labels)
  BY DEF Relaunch
<1>2. /\ saving' = {} /\ draft' = {} /\ saver' = [s \in Saver |-> NoSave]
      /\ backup' = [p \in Local |-> NoBackup] /\ conflict' = {} /\ fetch' = NoFetch /\ Event
      /\ crossed' = crossed \cup InFlight
      /\ note' = note /\ profile' = profile /\ versioned' = versioned
  BY DEF Relaunch, store
<1>3. StoreOK
  BY DEF LabelsInv, LabelsTypeOK
<1> HIDE DEF cs
<1>4. /\ ScreenOK' /\ DraftKept'
      /\ \A p \in Local : cards'[Here(p)].labels = note[p].labels
  BY <1>1, <1>2, <1>3, FreshScreen DEF cs
<1>5. LabelsTypeOK'
  <2>1. SaversOK'
    BY <1>2, Blank DEF SaversOK
  <2>2. events' \in 0..MaxEvents
    BY <1>2, LabelAssumption DEF Event, LabelsInv, LabelsTypeOK, TasksOK
  <2>3. TasksOK'
    BY <1>2, <2>2, Blank DEF TasksOK, InFlight, LabelsInv, LabelsTypeOK
  <2> QED BY <1>2, <1>3, <1>4, <2>1, <2>3 DEF LabelsTypeOK, StoreOK
<1>6. ASSUME NEW p \in Local \ crossed' PROVE Agrees(p)'
  <2>1. SavesOf(p)' = {} /\ SavesOf(p) = {} /\ p \notin crossed
    BY <1>2, Blank, CardFacts DEF SavesOf, InFlight
  <2>2. CarriedAgrees(p)
    BY <2>1 DEF LabelsInv, Agrees
  <2>3. backup'[p].at = "idle" /\ ~(p \in BackingUp)' /\ fetch'.at = "idle"
    BY <1>2, Blank DEF BackingUp
  <2>4. CarriedAgrees(p)'
    BY <1>2, <1>4, <2>1, <2>2, <2>3 DEF CarriedAgrees
  <2>5. KeptAgrees(p)'
    BY <1>2 DEF KeptAgrees
  <2> QED BY <2>1, <2>4, <2>5 DEF Agrees, SaveAlone
<1> QED BY <1>4, <1>5, <1>6 DEF LabelsInv

-----------------------------------------------------------------------------

\* The invariant holds when the application starts.
LEMMA LabelsInitially == LabelsInit => LabelsInv
<1> SUFFICES ASSUME LabelsInit PROVE LabelsInv
  OBVIOUS
<1> DEFINE cs == [c \in LocalCards |-> FromDisk(c[1])]
<1>1. /\ note = [p \in Local |-> NewNote] /\ profile = [p \in Project |-> NoLabel]
      /\ versioned = Remote /\ cards = cs /\ chosen \in DOMAIN cards
      /\ form = [card |-> chosen, values |-> NoLabel, baseline |-> NoLabel]
      /\ saving = {} /\ saver = [s \in Saver |-> NoSave] /\ backup = [p \in Local |-> NoBackup]
      /\ conflict = {} /\ fetch = NoFetch /\ events = 0 /\ draft = {} /\ crossed = {}
  BY DEF LabelsInit
<1>2. StoreOK
  BY <1>1, Blank DEF StoreOK, Project
<1>3. ASSUME NEW c \in LocalCards PROVE cs[c] \in CardRows /\ cs[c].labels = note[c[1]].labels
  BY <1>2, CardFacts, FromDiskType
<1>4. DOMAIN cs = LocalCards /\ cs \in [LocalCards -> CardRows] /\ LocalCards \subseteq Card
  BY <1>3 DEF Card
<1> HIDE DEF cs
<1>5. form \in Forms /\ form.card = chosen
  BY <1>1, <1>4, Blank DEF Forms
<1>6. ScreenOK /\ DraftKept
  BY <1>1, <1>4, <1>5 DEF ScreenOK, DraftKept
<1>7. SaversOK
  BY <1>1, Blank DEF SaversOK
<1>8. 0 \in 0..MaxEvents
  BY LabelAssumption
<1>9. TasksOK
  BY <1>1, <1>8, Blank DEF TasksOK
<1>10. ASSUME NEW p \in Local PROVE Agrees(p)
  <2>1. SavesOf(p) = {}
    BY <1>1, Blank DEF SavesOf
  <2>2. /\ cards[Here(p)].labels = note[p].labels /\ p \notin versioned
        /\ backup[p].at = "idle" /\ p \notin BackingUp /\ fetch.at = "idle"
    BY <1>1, <1>3, CardFacts, Blank, LabelAssumption DEF BackingUp
  <2> QED BY <1>1, <2>1, <2>2 DEF Agrees, SaveAlone, CarriedAgrees, KeptAgrees
<1> QED BY <1>2, <1>6, <1>7, <1>9, <1>10 DEF LabelsInv, LabelsTypeOK

\* The invariant is inductive.
LEMMA LabelsStep == LabelsInv /\ [LabelsNext]_labelVars => LabelsInv'
<1> SUFFICES ASSUME LabelsInv, [LabelsNext]_labelVars PROVE LabelsInv'
  OBVIOUS
<1>1. ASSUME NEW labels \in Labels, Edit(labels) \/ \E p \in Project : OtherComputer(p, labels)
      PROVE  LabelsInv'
  BY <1>1, EditKeeps, OtherComputerKeeps
<1>2. ASSUME NEW card \in DOMAIN cards, Select(card) PROVE LabelsInv'
  BY <1>2, SelectKeeps
<1>3. ASSUME NEW s \in Saver,
             Save(s) \/ SaveLoads(s) \/ SaveStores(s) \/ SavePuts(s) \/ SaveFails(s) \/ SaveDone(s)
      PROVE  LabelsInv'
  BY <1>3, SaveKeeps, SaveLoadsKeeps, SaveStoresKeeps, SavePutsKeeps, SaveFailsKeeps, SaveDoneKeeps
<1>4. ASSUME NEW p \in Local,
             \/ Prepare(p) \/ ResolveConflict(p) \/ BackupLoads(p) \/ Enrols(p)
             \/ Registers(p) \/ Diverges(p) \/ Stashes(p) \/ FindsConflicts(p)
             \/ FindsProblems(p) \/ Pushes(p) \/ Records(p) \/ BackupFails(p)
      PROVE  LabelsInv'
  BY <1>4, PrepareKeeps, ResolveConflictKeeps, BackupLoadsKeeps, EnrolsKeeps, RegistersKeeps,
     DivergesKeeps, StashesKeeps, FindsKeeps, PushesKeeps, RecordsKeeps, BackupFailsKeeps
<1>5. CASE AskCatalogue \/ ReadCatalogue \/ CatalogueArrives \/ CatalogueFails
  BY <1>5, AskCatalogueKeeps, ReadCatalogueKeeps, CatalogueArrivesKeeps, CatalogueFailsKeeps
<1>6. CASE ReloadLibrary \/ Relaunch
  BY <1>6, ReloadLibraryKeeps, RelaunchKeeps
<1>7. CASE UNCHANGED labelVars
  <2>1. /\ note' = note /\ profile' = profile /\ versioned' = versioned /\ cards' = cards
        /\ chosen' = chosen /\ form' = form /\ saving' = saving /\ saver' = saver
        /\ backup' = backup /\ conflict' = conflict /\ fetch' = fetch /\ events' = events
        /\ draft' = draft /\ crossed' = crossed
    BY <1>7 DEF labelVars
  <2>2. LabelsTypeOK' /\ DraftKept'
    BY <2>1 DEF LabelsInv, LabelsTypeOK, StoreOK, ScreenOK, SaversOK, TasksOK, DraftKept
  <2>3. \A p \in Local \ crossed' : Agrees(p)'
    BY <2>1, StillAgrees DEF store
  <2> QED BY <2>2, <2>3 DEF LabelsInv
<1> QED BY <1>1, <1>2, <1>3, <1>4, <1>5, <1>6, <1>7 DEF LabelsNext

\* The inductive invariant holds of every behaviour of labels: the form shows
\* the chosen card, a save that nothing crossed is its project's only task, and
\* what backups and refreshes carry of a project at rest is what its sidecar
\* has (save_project_metadata, prepare_backup, replace_provider_projects).
THEOREM LabelsInvariant == LabelsSpec => []LabelsInv
<1>1. LabelsInit => LabelsInv
  BY LabelsInitially
<1>2. LabelsInv /\ [LabelsNext]_labelVars => LabelsInv'
  BY LabelsStep
<1> QED BY <1>1, <1>2, PTL DEF LabelsSpec

\* Labels that were typed and not saved stay in the form, and card, sidecar and
\* profile of a project at rest agree unless its last save was crossed
\* (sync_metadata_inputs and save_project_metadata).
THEOREM LabelsAreKept == LabelsSpec => []LabelsStay
<1>1. LabelsInv => LabelsStay
  <2> SUFFICES ASSUME LabelsInv PROVE LabelsStay
    OBVIOUS
  <2>1. DraftStays
    BY DEF LabelsInv, DraftKept, DraftStays
  <2>2. ASSUME NEW p \in Local \ (crossed \cup InFlight \cup BackingUp)
        PROVE  /\ cards[Here(p)].labels = note[p].labels
               /\ p \in versioned => profile[p] = note[p].labels
    <3>1. SavesOf(p) = {} /\ CarriedAgrees(p)
      BY CardFacts DEF InFlight, LabelsInv, Agrees
    <3> QED BY <3>1 DEF CarriedAgrees
  <2>3. LabelsAgree
    BY <2>2 DEF LabelsAgree
  <2> QED BY <2>1, <2>3 DEF LabelsStay
<1> QED BY <1>1, LabelsInvariant, PTL
=============================================================================
