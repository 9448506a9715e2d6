------------------------------- MODULE Labels -------------------------------
(***************************************************************************)
(* Genre and tags of projects in the desktop application: the cards of the *)
(* library, the one form that edits the labels of the chosen card, the     *)
(* tasks that save them, and the backups and catalogue refreshes that      *)
(* carry labels meanwhile (apps/auru-pm-ui/src: main.rs, model.rs,         *)
(* backend.rs; sidecar.rs, sync.rs, filesystem.rs and the server's         *)
(* put_project_profile).                                                   *)
(*                                                                         *)
(* Labels live in the project's sidecar and in its profile at the          *)
(* provider.  The sidecar is changed by loading and storing the whole      *)
(* file, without a lock.  A backup that finds conflicts is kept, its       *)
(* labels included, until a person has chosen.  A label stands for genre   *)
(* and tags together.  The time of the sidecar file, which a save puts     *)
(* back, is Desktop's subject; of a push only its sidecar updates and the  *)
(* step that moves HEAD are here.                                          *)
(***************************************************************************)
EXTENDS Integers

CONSTANTS
    Local,      \* projects on this computer
    Remote,     \* projects that only the provider has
    Label,      \* labels a person may give
    NoLabel,    \* the labels of a new project
    Saver,      \* bounds the saves in flight
    MaxEvents   \* bounds the tasks begun, failed steps, restarts and edits elsewhere

ASSUME LabelAssumption ==
    Local \cap Remote = {} /\ Local # {} /\ NoLabel \notin Label /\ MaxEvents \in Nat

Project == Local \cup Remote
Labels == Label \cup {NoLabel}

VARIABLES
    note,       \* per local project, its sidecar: labels, handle, whether it has a local_head
    profile,    \* per project, the labels in its profile at the provider
    versioned,  \* projects with a version at the provider
    cards,      \* the cards of the library
    chosen,     \* the chosen card
    form,       \* the metadata inputs: card, values, baseline
    saving,     \* metadata_saving: at most one card
    saver,      \* saves in flight
    backup,     \* per local project, its backup
    conflict,   \* pending_conflict: at most one backup that waits for choices
    fetch,      \* the refresh of the provider's catalogue
    events,     \* tasks begun, failed steps, restarts and edits elsewhere so far
    draft,      \* history: labels typed into the form and not saved, at most one
    crossed     \* history: projects whose last save was crossed by something

labelVars == <<note, profile, versioned, cards, chosen, form, saving, saver, backup, conflict,
               fetch, events, draft, crossed>>
store == <<note, profile, versioned>>
screen == <<cards, chosen, form, saving, draft>>

\* A project on this computer has a card of its own; the catalogue may add one.
Here(p) == <<p, "here">>
There(p) == <<p, "there">>
LocalCards == {Here(p) : p \in Local}

NewNote == [labels |-> NoLabel, handle |-> FALSE, head |-> FALSE]

\* Project::read_from_disk with provider_links_for.
FromDisk(p) == [labels |-> note[p].labels, handle |-> note[p].handle,
                linked |-> note[p].handle /\ note[p].head]

\* Project::from_remote.
FromCatalogue(labels) == [labels |-> labels, handle |-> TRUE, linked |-> TRUE]

NoSave == [at |-> "idle", card |-> <<>>, labels |-> NoLabel, linked |-> FALSE,
           copy |-> NewNote]
NoBackup == [at |-> "idle", labels |-> NoLabel, copy |-> NewNote, resolving |-> FALSE]
NoFetch == [at |-> "idle", due |-> FALSE, found |-> <<>>]

LabelsInit ==
    /\ note = [p \in Local |-> NewNote]
    /\ profile = [p \in Project |-> NoLabel]
    /\ versioned = Remote
    /\ cards = [c \in LocalCards |-> FromDisk(c[1])]
    /\ chosen \in DOMAIN cards
    /\ form = [card |-> chosen, values |-> NoLabel, baseline |-> NoLabel]
    /\ saving = {}
    /\ saver = [s \in Saver |-> NoSave]
    /\ backup = [p \in Local |-> NoBackup]
    /\ conflict = {}
    /\ fetch = NoFetch
    /\ events = 0
    /\ draft = {} /\ crossed = {}

Event == events < MaxEvents /\ events' = events + 1

SavesOf(p) == {s \in Saver : saver[s].at # "idle" /\ saver[s].card[1] = p}
InFlight == {p \in Project : SavesOf(p) # {}}
BackingUp == {p \in Local : backup[p].at # "idle"}

-----------------------------------------------------------------------------
\* The form.

Showing(card, labels) == [card |-> card, values |-> labels, baseline |-> labels]

\* Wrong variant: the form follows its card whatever was typed.
SyncedAlways(f, cs, card) ==
    IF f.card = card /\ cs[card].labels = f.baseline THEN f
    ELSE Showing(card, cs[card].labels)

\* sync_metadata_inputs, which every rendering begins with.
Synced(f, cs, card) ==
    IF f.card = card /\ (f.values # f.baseline \/ cs[card].labels = f.baseline) THEN f
    ELSE Showing(card, cs[card].labels)

\* The screen once cards and choice are cs and card, from form f.
Renders(f, cs, card) ==
    /\ cards' = cs
    /\ chosen' = card
    /\ form' = Synced(f, cs, card)

\* Another choice drops what was typed.
Chooses(f, cs, card) ==
    /\ Renders(f, cs, card)
    /\ draft' = IF card = chosen THEN draft ELSE {}

\* add_metadata_badges, remove_metadata_badge and typing.
Edit(labels) ==
    /\ labels # form.values
    /\ Renders([form EXCEPT !.values = labels], cards, chosen)
    /\ draft' = {labels} \ {form.baseline}
    /\ UNCHANGED <<store, saving, saver, backup, conflict, fetch, events, crossed>>

\* select_project.
Select(card) ==
    /\ card # chosen
    /\ Chooses(form, cards, card)
    /\ UNCHANGED <<store, saving, saver, backup, conflict, fetch, events, crossed>>

-----------------------------------------------------------------------------
\* A save.

\* save_project_metadata of the chosen card.  Its provider is the one the card
\* was linked to when it was read.
Save(s) ==
    LET p == chosen[1]
        linked == cards[chosen].linked
    IN  /\ saver[s].at = "idle"
        /\ Event
        /\ form.values # cards[chosen].labels
        /\ chosen \notin saving
        /\ saver' = [saver EXCEPT ![s] =
              [NoSave EXCEPT !.at = IF chosen[2] = "here" THEN "load" ELSE "put",
                             !.card = chosen, !.labels = form.values, !.linked = linked]]
        /\ saving' = {chosen}
        /\ crossed' = IF \/ p \in InFlight \cup BackingUp \/ fetch.at # "idle"
                         \/ chosen[2] = "there" \/ (p \in versioned /\ ~linked)
                      THEN crossed \cup {p} ELSE crossed \ {p}
        /\ conflict' = {[c EXCEPT !.overtaken = @ \/ c.project = p] : c \in conflict}
        /\ UNCHANGED <<store, cards, chosen, form, backup, fetch, draft>>

\* Sidecar::modify loads the file ...
SaveLoads(s) ==
    /\ saver[s].at = "load"
    /\ saver' = [saver EXCEPT ![s].at = "store", ![s].copy = note[saver[s].card[1]]]
    /\ UNCHANGED <<store, screen, backup, conflict, fetch, events, crossed>>

\* ... and stores it with the new labels.
SaveStores(s) ==
    /\ saver[s].at = "store"
    /\ note' = [note EXCEPT ![saver[s].card[1]] =
                   [saver[s].copy EXCEPT !.labels = saver[s].labels]]
    /\ saver' = [saver EXCEPT ![s].at = IF saver[s].linked THEN "put" ELSE "saved",
                              ![s].copy = NewNote]
    /\ UNCHANGED <<profile, versioned, screen, backup, conflict, fetch, events, crossed>>

\* put_project_profile.
SavePuts(s) ==
    /\ saver[s].at = "put"
    /\ profile' = [profile EXCEPT ![saver[s].card[1]] = saver[s].labels]
    /\ saver' = [saver EXCEPT ![s].at = "saved"]
    /\ UNCHANGED <<note, versioned, screen, backup, conflict, fetch, events, crossed>>

SaveFails(s) ==
    /\ saver[s].at \in {"load", "store", "put"}
    /\ Event
    /\ saver' = [saver EXCEPT ![s].at = "failed", ![s].copy = NewNote]
    /\ crossed' = crossed \cup {saver[s].card[1]}
    /\ UNCHANGED <<store, screen, backup, conflict, fetch>>

\* The result comes back: the card is found by its identity, the baseline of
\* the form is replaced whichever card the form shows by then.
SaveDone(s) ==
    LET t == saver[s]
        cs == IF t.card \in DOMAIN cards THEN [cards EXCEPT ![t.card].labels = t.labels]
              ELSE cards
    IN  /\ saving' = {}
        /\ saver' = [saver EXCEPT ![s] = NoSave]
        /\ \/ /\ t.at = "failed"
              /\ Renders(form, cards, chosen)
              /\ UNCHANGED draft
           \/ /\ t.at = "saved"
              /\ Renders([form EXCEPT !.baseline = t.labels], cs, chosen)
              /\ draft' = draft \ {t.labels}
        /\ UNCHANGED <<store, backup, conflict, fetch, events, crossed>>

-----------------------------------------------------------------------------
\* A backup, as far as labels and sidecar go.

\* prepare_backup takes the labels from the sidecar.
Prepare(p) ==
    /\ p \notin BackingUp
    /\ Event
    /\ backup' = [backup EXCEPT ![p] = [NoBackup EXCEPT !.at = "enrol", !.labels = note[p].labels]]
    /\ crossed' = IF p \in InFlight THEN crossed \cup {p} ELSE crossed
    /\ UNCHANGED <<store, screen, saver, conflict, fetch>>

\* resolve_pending_conflict: the kept backup runs again, with the labels it
\* took when it was prepared.  (Backups of one project that overlap are
\* Desktop's subject.)
ResolveConflict(p) ==
    /\ p \notin BackingUp
    /\ \E c \in conflict :
          /\ c.project = p
          /\ backup' = [backup EXCEPT ![p] =
                [NoBackup EXCEPT !.at = "enrol", !.labels = c.labels, !.resolving = TRUE]]
          /\ crossed' = IF p \in InFlight \/ c.overtaken THEN crossed \cup {p} ELSE crossed
    /\ UNCHANGED <<store, screen, saver, conflict, fetch, events>>

\* A Sidecar::modify of the backup loads the file.
Loading == [enrol |-> "enrolling", stash |-> "stashing", record |-> "recording"]

BackupLoads(p) ==
    /\ backup[p].at \in DOMAIN Loading
    /\ backup' = [backup EXCEPT ![p].at = Loading[@], ![p].copy = note[p]]
    /\ UNCHANGED <<store, screen, saver, conflict, fetch, events, crossed>>

\* persisted_project_handle and the library location.
Enrols(p) ==
    /\ backup[p].at = "enrolling"
    /\ note' = [note EXCEPT ![p] = [backup[p].copy EXCEPT !.handle = TRUE]]
    /\ backup' = [backup EXCEPT ![p].at = "register", ![p].copy = NewNote]
    /\ UNCHANGED <<profile, versioned, screen, saver, conflict, fetch, events, crossed>>

\* put_project_profile with the labels of the prepared backup.
Registers(p) ==
    /\ backup[p].at = "register"
    /\ profile' = [profile EXCEPT ![p] = backup[p].labels]
    /\ backup' = [backup EXCEPT ![p].at = "push"]
    /\ UNCHANGED <<note, versioned, screen, saver, conflict, fetch, events, crossed>>

\* push_with_options: another computer has moved HEAD (external) away from
\* local_head, so the push has to merge and stashes the project before.
Diverges(p) ==
    /\ backup[p].at = "push" /\ note[p].head
    /\ backup' = [backup EXCEPT ![p].at = "stash"]
    /\ UNCHANGED <<store, screen, saver, conflict, fetch, events, crossed>>

\* stash_snapshot: the sidecar names the stash, beside the labels it had.
Stashes(p) ==
    /\ backup[p].at = "stashing"
    /\ note' = [note EXCEPT ![p] = backup[p].copy]
    /\ backup' = [backup EXCEPT ![p].at = "merge", ![p].copy = NewNote]
    /\ UNCHANGED <<profile, versioned, screen, saver, conflict, fetch, events, crossed>>

\* NeedsResolution: the backup is kept for a person's choices, in place of any
\* other that waits.
FindsConflicts(p) ==
    /\ backup[p].at = "merge"
    /\ conflict' = {[project |-> p, labels |-> backup[p].labels, overtaken |-> FALSE]}
    /\ backup' = [backup EXCEPT ![p] = NoBackup]
    /\ UNCHANGED <<store, screen, saver, fetch, events, crossed>>

\* NeedsReview: the merged project would be broken.
FindsProblems(p) ==
    /\ backup[p].at = "merge"
    /\ conflict' = IF backup[p].resolving THEN {} ELSE conflict
    /\ backup' = [backup EXCEPT ![p] = NoBackup]
    /\ UNCHANGED <<store, screen, saver, fetch, events, crossed>>

\* HEAD moves.
Pushes(p) ==
    /\ backup[p].at \in {"push", "merge"}
    /\ versioned' = versioned \cup {p}
    /\ backup' = [backup EXCEPT ![p].at = "record"]
    /\ UNCHANGED <<note, profile, screen, saver, conflict, fetch, events, crossed>>

\* push_with_options records HEAD; the verified mark is stored alike.  A
\* resolved conflict is dropped, unless the backup fails after all.
Records(p) ==
    /\ backup[p].at = "recording"
    /\ note' = [note EXCEPT ![p] = [backup[p].copy EXCEPT !.head = TRUE]]
    /\ conflict' \in IF backup[p].resolving THEN {{}, conflict} ELSE {conflict}
    /\ backup' = [backup EXCEPT ![p] = NoBackup]
    /\ UNCHANGED <<profile, versioned, screen, saver, fetch, events, crossed>>

\* A kept conflict outlives a failed attempt to resolve it.
BackupFails(p) ==
    /\ p \in BackingUp
    /\ Event
    /\ backup' = [backup EXCEPT ![p] = NoBackup]
    /\ UNCHANGED <<store, screen, saver, conflict, fetch, crossed>>

-----------------------------------------------------------------------------
\* The catalogue, the library and the application.

\* refresh_remote_projects.
Refreshing == IF fetch.at = "idle" THEN [NoFetch EXCEPT !.at = "reading"]
              ELSE [fetch EXCEPT !.due = TRUE]

AskCatalogue ==
    /\ Event
    /\ fetch' = Refreshing
    /\ crossed' = crossed \cup InFlight
    /\ UNCHANGED <<store, screen, saver, backup, conflict>>

\* remote_catalogue: every project with a version, and its profile.
ReadCatalogue ==
    /\ fetch.at = "reading"
    /\ fetch' = [fetch EXCEPT !.at = "read", !.found = [p \in versioned |-> profile[p]]]
    /\ UNCHANGED <<store, screen, saver, backup, conflict, events, crossed>>

\* Local cards that know their handle at the provider.
Known == {p \in Local : cards[Here(p)].handle}

\* replace_provider_projects: a local card that knows its handle takes the
\* provider's labels; every other project found gets a card of its own.
Replaced(found) ==
    [c \in LocalCards \cup {There(p) : p \in DOMAIN found \ Known} |->
        CASE c[2] = "there" -> FromCatalogue(found[c[1]])
          [] c[2] = "here" /\ c[1] \in DOMAIN found \cap Known ->
                [cards[c] EXCEPT !.labels = found[c[1]]]
          [] OTHER -> cards[c]]

\* What follows a refresh: the one asked for meanwhile.
NextFetch == IF fetch.due THEN [NoFetch EXCEPT !.at = "reading"] ELSE NoFetch

CatalogueArrives ==
    /\ fetch.at = "read"
    /\ LET cs == Replaced(fetch.found)
       IN  \E card \in IF chosen \in DOMAIN cs THEN {chosen} ELSE DOMAIN cs :
              Chooses(form, cs, card)
    /\ fetch' = NextFetch
    /\ UNCHANGED <<store, saving, saver, backup, conflict, events, crossed>>

CatalogueFails ==
    /\ fetch.at = "reading"
    /\ Event
    /\ fetch' = NextFetch
    /\ UNCHANGED <<store, screen, saver, backup, conflict, crossed>>

\* Another computer labels a project (external).
OtherComputer(p, labels) ==
    /\ p \in versioned /\ profile[p] # labels
    /\ Event
    /\ profile' = [profile EXCEPT ![p] = labels]
    /\ crossed' = crossed \cup {p}
    /\ UNCHANGED <<note, versioned, screen, saver, backup, conflict, fetch>>

\* reload_library reads local cards again and chooses the first in some order.
ReloadLibrary ==
    /\ Event
    /\ LET cs == [c \in DOMAIN cards |-> IF c[2] = "here" THEN FromDisk(c[1]) ELSE cards[c]]
       IN  \E card \in DOMAIN cs : Chooses(form, cs, card)
    /\ fetch' = Refreshing
    /\ crossed' = crossed \cup InFlight
    /\ UNCHANGED <<store, saving, saver, backup, conflict>>

\* The application ends and starts again.
Relaunch ==
    /\ Event
    /\ LET cs == [c \in LocalCards |-> FromDisk(c[1])]
       IN  \E card \in DOMAIN cs : /\ cards' = cs /\ chosen' = card
                                   /\ form' = Showing(card, cs[card].labels)
    /\ saving' = {} /\ draft' = {}
    /\ saver' = [s \in Saver |-> NoSave]
    /\ backup' = [p \in Local |-> NoBackup] /\ conflict' = {}
    /\ fetch' = NoFetch
    /\ crossed' = crossed \cup InFlight
    /\ UNCHANGED store

LabelsNext ==
    \/ \E labels \in Labels : Edit(labels) \/ \E p \in Project : OtherComputer(p, labels)
    \/ \E card \in DOMAIN cards : Select(card)
    \/ \E s \in Saver : \/ Save(s) \/ SaveLoads(s) \/ SaveStores(s) \/ SavePuts(s)
                        \/ SaveFails(s) \/ SaveDone(s)
    \/ \E p \in Local : \/ Prepare(p) \/ ResolveConflict(p) \/ BackupLoads(p) \/ Enrols(p)
                        \/ Registers(p) \/ Diverges(p) \/ Stashes(p) \/ FindsConflicts(p)
                        \/ FindsProblems(p) \/ Pushes(p) \/ Records(p) \/ BackupFails(p)
    \/ AskCatalogue \/ ReadCatalogue \/ CatalogueArrives \/ CatalogueFails
    \/ ReloadLibrary \/ Relaunch

LabelsSpec == LabelsInit /\ [][LabelsNext]_labelVars

-----------------------------------------------------------------------------
\* Labels typed and not yet saved stay in the form, through saves, refreshes
\* and reloads that end meanwhile ("without overwriting edits that are
\* currently in progress", sync_metadata_inputs).  Once a save of the same
\* labels has ended they are no draft: not even where it was the save of
\* another card, whose labels then pass for the form's baseline.
DraftStays == \A labels \in draft : form.card = chosen /\ form.values = labels

\* Card, sidecar and profile of a project at rest agree, and whatever made
\* them differ, the next save brings them together again, unless another save,
\* a backup, a refresh or another computer crosses it, it fails, it is of a
\* card that does not know its provider or its file, or a backup is resolved
\* later that has waited for choices since before it (save_project_metadata,
\* resolve_backup).
LabelsAgree ==
    \A p \in Local \ (crossed \cup InFlight \cup BackingUp) :
        /\ cards[Here(p)].labels = note[p].labels
        /\ p \in versioned => profile[p] = note[p].labels

\* What a person types stays, and what is saved is the same everywhere.
LabelsStay == DraftStays /\ LabelsAgree

-----------------------------------------------------------------------------

Notes == [labels : Labels, handle : BOOLEAN, head : BOOLEAN]
Card == LocalCards \cup {There(p) : p \in Project}
CardRows == [labels : Labels, handle : BOOLEAN, linked : BOOLEAN]
Forms == [card : Card, values : Labels, baseline : Labels]
Saves == [at : {"idle", "load", "store", "put", "saved", "failed"}, card : Card \cup {<<>>},
          labels : Labels, linked : BOOLEAN, copy : Notes]
Backups == [at : {"idle", "enrol", "enrolling", "register", "push", "stash", "stashing", "merge",
                  "record", "recording"},
            labels : Labels, copy : Notes, resolving : BOOLEAN]
Conflicts == [project : Local, labels : Labels, overtaken : BOOLEAN]
Fetches == [at : {"idle", "reading", "read"}, due : BOOLEAN,
            found : {<<>>} \cup UNION {[S -> Labels] : S \in SUBSET Project}]

\* Every variable holds a value of its type, and a save that changes a sidecar
\* is of a card with a file.
StoreOK == note \in [Local -> Notes] /\ profile \in [Project -> Labels] /\ versioned \subseteq Project

ScreenOK ==
    /\ cards \in [DOMAIN cards -> CardRows] /\ LocalCards \subseteq DOMAIN cards
    /\ DOMAIN cards \subseteq Card /\ chosen \in DOMAIN cards
    /\ form \in Forms /\ saving \subseteq Card /\ draft \subseteq Labels

SaversOK ==
    /\ saver \in [Saver -> Saves]
    /\ \A s \in Saver : /\ saver[s].at # "idle" => saver[s].card \in Card
                        /\ saver[s].at \in {"load", "store"} => saver[s].card \in LocalCards

TasksOK ==
    /\ backup \in [Local -> Backups] /\ conflict \subseteq Conflicts /\ fetch \in Fetches
    /\ events \in 0..MaxEvents /\ crossed \subseteq Project

LabelsTypeOK == StoreOK /\ ScreenOK /\ SaversOK /\ TasksOK

\* The form shows the chosen card, and a draft differs from what it began with.
DraftKept ==
    /\ form.card = chosen
    /\ \A labels \in draft : form.values = labels /\ labels # form.baseline

\* A save that nothing crossed is the only task of its project.
SaveAlone(p) ==
    \A s \in SavesOf(p) :
        /\ SavesOf(p) = {s} /\ p \notin BackingUp /\ fetch.at = "idle"
        /\ saver[s].card = Here(p) /\ saver[s].at # "failed"
        /\ p \in versioned => saver[s].linked
        /\ saver[s].at \in {"put", "saved"} => note[p].labels = saver[s].labels
        /\ saver[s].at = "saved" /\ p \in versioned => profile[p] = saver[s].labels

\* Between saves, everything a backup or a refresh carries is what the sidecar
\* has.
CarriedAgrees(p) ==
    LET labels == note[p].labels
    IN  SavesOf(p) = {} =>
          /\ cards[Here(p)].labels = labels
          /\ p \in versioned => profile[p] = labels
          /\ p \in BackingUp => backup[p].labels = labels
          /\ backup[p].at \in {"enrolling", "stashing", "recording"} => backup[p].copy.labels = labels
          /\ backup[p].at \in {"push", "stash", "stashing", "merge"} => profile[p] = labels
          /\ fetch.at = "read" /\ p \in DOMAIN fetch.found => fetch.found[p] = labels

\* So is what a kept conflict carries, until a save overtakes it.
KeptAgrees(p) ==
    \A c \in conflict :
        c.project = p /\ ~c.overtaken => SavesOf(p) = {} /\ c.labels = note[p].labels

Agrees(p) == SaveAlone(p) /\ CarriedAgrees(p) /\ KeptAgrees(p)

\* The inductive invariant behind LabelsStay.
LabelsInv ==
    /\ LabelsTypeOK /\ DraftKept
    /\ \A p \in Local \ crossed : Agrees(p)
=============================================================================
