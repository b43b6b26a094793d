----------------------------- MODULE HostStorage -----------------------------
(***************************************************************************)
(* What the desktop application keeps on disk: favourite folders, recent   *)
(* sessions and settings (app: host/ui/storage, host/service/storage).     *)
(* The user interface holds the data and marks what has changed; snapshots *)
(* go to a task of the service that writes one file after another.  The    *)
(* process may be killed at any step, and starts again with the files it   *)
(* finds.                                                                  *)
(*                                                                         *)
(* The contents of a domain are a number: 0 is the default, 1 the list     *)
(* imported from Chipmunk 3, and every change makes a new one.             *)
(***************************************************************************)
EXTENDS Naturals, FiniteSets

CONSTANTS
  Absent,      \* there is no file
  Broken,      \* a file that was created and not written: it does not parse
  Faults,      \* what may fail
  MaxChanges,  \* bound: values of the counter of changes
  MaxStarts    \* bound: how often the application is started

Favorites == "file_explorer"
Recents == "recent_sessions"
Settings == "app_settings"
Domains == {Favorites, Recents, Settings}

Default == 0
Imported == 1
Values == Default .. MaxChanges

ASSUME StorageAssumption ==
  /\ Absent \notin Nat /\ Broken \notin Nat /\ Absent # Broken
  /\ Faults \subseteq {"read", "create", "write", "silent", "startup", "queue", "late"}
  /\ MaxChanges \in Nat \ {0} /\ MaxStarts \in Nat

VARIABLES
  phase,     \* of the process
  data,      \* what the user interface holds
  dirty,     \* domains that still need to be saved
  explorer,  \* LoadState of the favourite folders
  loader,    \* the task that reads them at the start
  scan,      \* the active request to scan folders
  tasks,     \* save_storage, each on a blocking thread
  pending,   \* pending_save: the task whose confirmation is awaited, or 0
  disk,      \* the files
  legacy,    \* there are recent actions of Chipmunk 3
  marker,    \* ... and they are marked as imported
  last,      \* the newest value
  starts,
  unread,    \* domains whose file could not be read: the user was told
  inUse      \* the imported list has once been loaded

uiData == <<data, dirty, explorer, scan, pending, unread>>
imports == <<legacy, marker, inUse>>
bounds == <<last, starts>>
storageVars == <<phase, uiData, loader, tasks, disk, imports, bounds>>

Loader == [at : {"none", "reading", "read", "failed"}, value : Values]
NoLoader == [at |-> "none", value |-> Default]
Tasks == [id : Nat, snap : [Domains -> Values], todo : SUBSET Domains,
          open : BOOLEAN, failed : BOOLEAN]

StartUp == {"import", "importing", "mark", "load", "normalize", "normalizing", "settings"}
Alive == {"running", "closing", "waiting", "shutdown"}

(* Types. *)
TypeOK ==
  /\ phase \in {"off"} \cup StartUp \cup Alive
  /\ data \in [Domains -> Values]
  /\ dirty \in SUBSET Domains
  /\ explorer \in {"loading", "ready"}
  /\ loader \in Loader
  /\ scan \in {"none", "refresh", "add"}
  /\ tasks \in SUBSET Tasks
  /\ pending \in Nat
  /\ disk \in [Domains -> Values \cup {Absent, Broken}]
  /\ legacy \in BOOLEAN /\ marker \in BOOLEAN /\ inUse \in BOOLEAN
  /\ last \in Imported .. MaxChanges
  /\ starts \in 0 .. MaxStarts
  /\ unread \in SUBSET Domains

-----------------------------------------------------------------------------
AllDefault == [d \in Domains |-> Default]

StorageInit ==
  /\ phase = "off"
  /\ data = AllDefault /\ dirty = {} /\ unread = {}
  /\ explorer = "loading" /\ loader = NoLoader /\ scan = "none"
  /\ tasks = {} /\ pending = 0
  /\ disk = [d \in Domains |-> Absent]
  /\ legacy \in BOOLEAN
  /\ marker = FALSE
  /\ last = Imported /\ starts = 0
  /\ inUse = FALSE

(* A file is created, which empties an old one, and then written. *)
Creates(d) == disk' = [disk EXCEPT ![d] = Broken]
Puts(d, v) == disk' = [disk EXCEPT ![d] = v]

(* A missing file is the default; one that does not parse is an error, and *)
(* so is one that cannot be read. *)
Content(f) == IF f = Absent THEN Default ELSE f
MayFail(d) == disk[d] = Broken \/ (disk[d] # Absent /\ "read" \in Faults)

-----------------------------------------------------------------------------
(* Start of the service: recent sessions, with their import, then settings *)
(* (HostService::spawn, load_sessions_from_home).                          *)

Starts ==
  /\ phase = "off" /\ starts < MaxStarts
  /\ phase' = "import" /\ starts' = starts + 1
  /\ UNCHANGED <<uiData, loader, tasks, disk, imports, last>>

ImportableAgain == disk[Recents] = Absent /\ legacy   \* slip: no look at the marker

Importable == disk[Recents] = Absent /\ ~marker /\ legacy

RunImportHook ==
  /\ phase = "import"
  /\ \/ Importable /\ Creates(Recents) /\ phase' = "importing"
     \/ /\ ~Importable \/ "startup" \in Faults
        /\ phase' = "mark" /\ UNCHANGED disk
  /\ UNCHANGED <<uiData, loader, tasks, imports, bounds>>

(* An import that fails leaves the default. *)
WritesImport ==
  /\ phase = "importing" /\ phase' = "mark"
  /\ \/ \E v \in {Imported, Default} : Puts(Recents, v)
     \/ "startup" \in Faults /\ UNCHANGED disk
  /\ UNCHANGED <<uiData, loader, tasks, imports, bounds>>

MarksImport == legacy /\ disk[Recents] # Absent

CreateLegacyMarker ==
  /\ phase = "mark" /\ phase' = "load"
  /\ \/ marker' = (marker \/ MarksImport)
     \/ "startup" \in Faults /\ UNCHANGED marker
  /\ UNCHANGED <<uiData, loader, tasks, disk, legacy, inUse, bounds>>

(* What could not be read is told, and the default takes its place. *)
Loads(d) ==
  \/ disk[d] # Broken /\ data' = [data EXCEPT ![d] = Content(disk[d])] /\ UNCHANGED unread
  \/ MayFail(d) /\ unread' = unread \cup {d} /\ UNCHANGED data

LoadSessions ==
  /\ phase = "load"
  /\ \/ Loads(Recents) /\ phase' = "settings" /\ UNCHANGED last
     \/ \* sources are gone, for example, and the list is normalized
        /\ disk[Recents] \in Values \ {Default} /\ last < MaxChanges
        /\ last' = last + 1
        /\ data' = [data EXCEPT ![Recents] = last + 1]
        /\ phase' = "normalize" /\ UNCHANGED unread
  /\ inUse' = (inUse \/ disk[Recents] = Imported)
  /\ UNCHANGED <<dirty, explorer, scan, pending, loader, tasks, disk, legacy, marker, starts>>

(* A normalized list is saved at once; a failure is only logged. *)
SavesNormalized ==
  /\ \/ phase = "normalize" /\ Creates(Recents) /\ phase' = "normalizing"
     \/ phase = "normalizing" /\ Puts(Recents, data[Recents]) /\ phase' = "settings"
     \/ /\ phase \in {"normalize", "normalizing"} /\ "startup" \in Faults
        /\ phase' = "settings" /\ UNCHANGED disk
  /\ UNCHANGED <<uiData, loader, tasks, imports, bounds>>

LoadSettings ==
  /\ phase = "settings" /\ Loads(Settings)
  /\ phase' = "running" /\ loader' = [loader EXCEPT !.at = "reading"]
  /\ UNCHANGED <<dirty, explorer, scan, pending, tasks, disk, imports, bounds>>

(* The favourite folders are read, and scanned, in the background. *)
ReadsFavorites ==
  /\ phase \in Alive /\ loader.at = "reading"
  /\ \/ /\ disk[Favorites] # Broken
        /\ loader' = [at |-> "read", value |-> Content(disk[Favorites])]
     \/ MayFail(Favorites) /\ loader' = [at |-> "failed", value |-> Default]
  /\ UNCHANGED <<phase, uiData, tasks, disk, imports, bounds>>

-----------------------------------------------------------------------------
(* The user interface. *)

FinishLoad ==
  /\ phase = "running" /\ loader.at \in {"read", "failed"}
  /\ explorer' = "ready" /\ loader' = NoLoader /\ scan' = "none"
  /\ data' = [data EXCEPT ![Favorites] = loader.value]
  /\ dirty' = dirty \ {Favorites}
  /\ unread' = IF loader.at = "failed" THEN unread \cup {Favorites} ELSE unread
  /\ UNCHANGED <<phase, pending, tasks, disk, imports, bounds>>

Changes(d) ==
  /\ last < MaxChanges /\ last' = last + 1
  /\ data' = [data EXCEPT ![d] = last + 1]
  /\ dirty' = dirty \cup {d}
  /\ unread' = unread \ {d}

(* A session is opened, changes its state, gets more sources or is removed *)
(* from the list; the settings are applied. *)
ChangesList ==
  /\ phase = "running" /\ \E d \in {Recents, Settings} : Changes(d)
  /\ UNCHANGED <<phase, explorer, scan, pending, loader, tasks, disk, imports, starts>>

Busy == explorer = "loading" \/ scan # "none"

RemoveFavoriteFolder ==
  /\ phase = "running" /\ ~Busy /\ Changes(Favorites)
  /\ UNCHANGED <<phase, explorer, scan, pending, loader, tasks, disk, imports, starts>>

(* One scan at a time: for new folders, or to see what is in the old ones. *)
PrepareScan ==
  /\ phase = "running" /\ ~Busy
  /\ scan' \in {"add", "refresh"}
  /\ UNCHANGED <<phase, data, dirty, explorer, pending, unread, loader, tasks, disk, imports, bounds>>

FinishScan ==
  /\ phase = "running" /\ scan' = "none"
  /\ \/ scan = "add" /\ Changes(Favorites)
     \/ scan = "refresh" /\ UNCHANGED <<data, dirty, unread, last>>
  /\ UNCHANGED <<phase, explorer, pending, loader, tasks, disk, imports, starts>>

-----------------------------------------------------------------------------
(* Saving. *)

SavableLoading == dirty   \* slip: the favourites may still be loaded

Savable == {d \in dirty : d = Favorites => explorer = "ready"}

NewTask(ds) ==
  [id |-> CHOOSE i \in 1 .. Cardinality(tasks) + 1 : \A t \in tasks : t.id # i,
   snap |-> data, todo |-> ds, open |-> FALSE, failed |-> FALSE]

(* collect_save_data and send_save_cmd: what is not sent stays dirty, and  *)
(* so does all the rest. *)
Sends ==
  /\ dirty' = dirty \ Savable
  /\ tasks' = tasks \cup {NewTask(Savable)}
  /\ pending' = NewTask(Savable).id

SendFails ==
  /\ "queue" \in Faults
  /\ dirty' = Domains
  /\ UNCHANGED <<tasks, pending>>

CanSend == Savable # {}

CanSave == pending = 0 /\ CanSend

ScheduleSave ==
  \/ CanSave /\ (Sends \/ SendFails)
  \/ ~CanSave /\ UNCHANGED <<dirty, tasks, pending>>

AutoSave ==
  /\ phase = "running" /\ ScheduleSave
  /\ UNCHANGED <<phase, data, explorer, scan, unread, loader, disk, imports, bounds>>

Finished(t) == t.failed \/ t.todo = {}

AfterFailureNone == dirty   \* slip: no retry

(* A failure makes everything dirty. *)
AfterFailure == Domains

HandleSaveResult(t) ==
  /\ dirty' = IF t.failed THEN AfterFailure ELSE dirty
  /\ pending' = 0 /\ tasks' = tasks \ {t}

Awaited == {t \in tasks : t.id = pending /\ Finished(t)}

PollPendingSave ==
  /\ phase = "running" /\ \E t \in Awaited : HandleSaveResult(t)
  /\ UNCHANGED <<phase, data, explorer, scan, unread, loader, disk, imports, bounds>>

(* The window is closed: eframe saves once more, then calls on_exit. *)
Exits ==
  /\ phase = "running" /\ phase' = "closing" /\ ScheduleSave
  /\ UNCHANGED <<data, explorer, scan, unread, loader, disk, imports, bounds>>

WaitUntilSave ==
  /\ phase = "closing"
  /\ \/ /\ pending # 0 /\ phase' = "waiting" /\ UNCHANGED <<dirty, tasks, pending>>
     \/ CanSave /\ Sends /\ phase' = "waiting"
     \/ CanSave /\ SendFails /\ phase' = "shutdown"
     \/ /\ pending = 0 /\ ~CanSend /\ phase' = "shutdown"
        /\ UNCHANGED <<dirty, tasks, pending>>
  /\ UNCHANGED <<data, explorer, scan, unread, loader, disk, imports, bounds>>

WaitForPendingSave ==
  /\ phase = "waiting" /\ phase' = "shutdown"
  /\ \/ \E t \in Awaited : HandleSaveResult(t)
     \/ /\ "late" \in Faults
        /\ dirty' = AfterFailure /\ pending' = 0 /\ UNCHANGED tasks
  /\ UNCHANGED <<data, explorer, scan, unread, loader, disk, imports, bounds>>

(* The process ends, or is killed; its tasks end with it. *)
Dies ==
  /\ phase' = "off"
  /\ data' = AllDefault /\ dirty' = {} /\ unread' = {}
  /\ explorer' = "loading" /\ loader' = NoLoader /\ scan' = "none"
  /\ tasks' = {} /\ pending' = 0
  /\ UNCHANGED <<disk, imports, bounds>>

Ends == phase = "shutdown" /\ Dies
Killed == phase \notin {"off", "shutdown"} /\ Dies

-----------------------------------------------------------------------------
(* The task that saves: one file after another, the first failure ends it. *)

Order(d) == CASE d = Favorites -> 1 [] d = Recents -> 2 [] d = Settings -> 3
IsNext(d, t) == d \in t.todo /\ \A e \in t.todo : Order(d) <= Order(e)

TaskBecomes(t, u) == tasks' = (tasks \ {t}) \cup {u}
Written(t, d) == [t EXCEPT !.open = FALSE, !.todo = @ \ {d}]
Fails(t) == TaskBecomes(t, [t EXCEPT !.open = FALSE, !.failed = TRUE])

CreatesFile(t, d) ==
  /\ ~t.open /\ ~t.failed
  /\ \/ Creates(d) /\ TaskBecomes(t, [t EXCEPT !.open = TRUE])
     \/ "create" \in Faults /\ Fails(t) /\ UNCHANGED disk

(* What a small file holds is written when the writer is dropped, and an   *)
(* error there is ignored. *)
WritesFile(t, d) ==
  /\ t.open
  /\ \/ Puts(d, t.snap[d]) /\ TaskBecomes(t, Written(t, d))
     \/ "write" \in Faults /\ Fails(t) /\ UNCHANGED disk
     \/ "silent" \in Faults /\ TaskBecomes(t, Written(t, d)) /\ UNCHANGED disk

SaveStorage ==
  /\ \E t \in tasks : \E d \in t.todo :
       IsNext(d, t) /\ (CreatesFile(t, d) \/ WritesFile(t, d))
  /\ UNCHANGED <<phase, uiData, loader, imports, bounds>>

(* The directory storage_2 is removed by the user. *)
StorageIsRemoved ==
  /\ phase = "off" /\ disk' = [d \in Domains |-> Absent]
  /\ UNCHANGED <<phase, uiData, loader, tasks, imports, bounds>>

-----------------------------------------------------------------------------
StartsUp == Starts \/ RunImportHook \/ WritesImport \/ CreateLegacyMarker
            \/ LoadSessions \/ SavesNormalized \/ LoadSettings \/ ReadsFavorites
Edits == FinishLoad \/ ChangesList \/ RemoveFavoriteFolder \/ PrepareScan \/ FinishScan
Saves == AutoSave \/ PollPendingSave \/ SaveStorage
Stops == Exits \/ WaitUntilSave \/ WaitForPendingSave \/ Ends \/ Killed \/ StorageIsRemoved

StorageNext == StartsUp \/ Edits \/ Saves \/ Stops

StorageSpec == StorageInit /\ [][StorageNext]_storageVars

-----------------------------------------------------------------------------
Known(d) == d = Favorites => explorer = "ready"

OnItsWay(d) ==
  \E t \in tasks : t.id = pending /\ (t.failed \/ (d \in t.todo /\ t.snap[d] = data[d]))

(* Nothing that was changed is forgotten: what differs from the file is     *)
(* dirty, or is being written, or its save has failed and is about to be    *)
(* made dirty again, or the file could not be read and the user knows.      *)
NothingForgotten ==
  phase \in Alive => \A d \in Domains :
    Known(d) => \/ Content(disk[d]) = data[d]
                \/ d \in dirty
                \/ OnItsWay(d)
                \/ d \in unread

(* Two tasks never write at once (File::create of one would cut what the   *)
(* other writes), also when a wait at the end was given up. *)
OneWriter == \A t, u \in tasks : t = u

(* Favourites are not saved before they are loaded: the file is left alone  *)
(* as long as the default stands in for what is being read, even when a     *)
(* failed save has made everything dirty.                                   *)
LoadedFirst ==
  [][(phase \in Alive /\ explorer = "loading")
       => (disk'[Favorites] = disk[Favorites])]_storageVars

(* The list of Chipmunk 3 is not imported again once it has been in use,    *)
(* not after a crash between import and marker, nor when the storage        *)
(* directory was removed (the note on create_legacy_marker).                *)
ImportsOnce == [][(phase = "import" /\ phase' = "importing") => ~inUse]_storageVars
=============================================================================
