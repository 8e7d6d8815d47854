---------------------------- MODULE LibraryIndex ----------------------------
(***************************************************************************)
(* The library index at work (src/src/index.cpp): the scanner thread, the  *)
(* priority thread that indexes a folder being opened, the watcher of one  *)
(* drive, the calls of the UI thread, and the file system underneath.      *)
(*                                                                         *)
(* The store of IndexStore has a mutex of its own; workMx guards the       *)
(* queues and the flags.  Every critical section is one action, and so is  *)
(* every reading of the disk made outside them.  The priority thread waits *)
(* on workCv with no timeout: testing its predicate and going to sleep are *)
(* two steps, with workMx held in between ("park").                        *)
(*                                                                         *)
(* The drive holds folders directly beneath its root, so that the parent   *)
(* of every folder, and of the root's own photographs, is the root: by the *)
(* watcher's reckoning, its alias.  Windows lets nobody move or delete the *)
(* current folder of a process.  The program runs without elevation, so    *)
(* that the NTFS journal is closed to it (TryUsnFullScan and TryUsnCatchUp *)
(* return false).                                                          *)
(***************************************************************************)
EXTENDS IndexStore, Sequences, SequencesExt

CONSTANTS
  Root,        \* the drive's root, a member of Folder
  Project,     \* folders inside development trees
  Excluded,    \* folders in system trees and caches
  StartedIn,   \* folders the program is started in; the root stands for the
               \* starts on another drive
  MaxChanges,  \* bound: changes made on the disk
  MaxCalls,    \* bound: calls of the UI thread
  MaxStarts    \* bound: times the program is started

ASSUME IndexAssumption ==
  /\ Root \in Folder \ (Project \cup Excluded \cup Technical)
  /\ Project \subseteq Folder /\ Excluded \subseteq Folder
  /\ StartedIn \subseteq Folder /\ Root \in StartedIn
  /\ IsFiniteSet(Folder) /\ Cardinality(Folder) <= MaxId
  /\ MaxChanges \in Nat /\ MaxCalls \in Nat
  /\ MaxStarts \in Nat \ {0}

VARIABLES
  disk,        \* disk[p]: what is at p, [id |-> 0, photos |-> {}] when nothing is
  events,      \* change records not yet handled by the watcher
  watcher,     \* [pc, path]
  scanner,     \* [pc, job, todo, held, full, rescan, drives]
  priority,    \* [pc, held]
  queues,      \* [dirtyFolders, dirtyPending, priorityFolders]
  wants,       \* [full, rescan, drives]: the flags raised for the scanner
  folderStates,
  cacheReady, paused,
  cacheFile,   \* {what SaveCache last wrote}, {} when there is no whole file
  phase,       \* "running", "stopping", "saving", "stopped"
  used,        \* bound counters, and history: [ids, changes, calls, starts,
               \*   missed: a change was made that no watcher reports]
  owed,        \* history: folders changed under the watcher's eyes and not
               \* looked at by the scanner since
  muddled      \* history: since the start a full rebuild has begun, or there
               \* have been photographs kept under the alias

threads == <<scanner, priority, watcher>>
outside == <<disk, events, used, owed, current>>
vars == <<store, disk, events, watcher, scanner, priority, queues, wants,
          folderStates, cacheReady, paused, cacheFile, phase, used, owed, muddled,
          current>>

Nothing == [id |-> 0, photos |-> {}]
Here(p) == disk[p].id # 0
\* What a thread holds of the folder it has looked at.
Held == [path : Spelling, id : Identity, photos : SUBSET Photo]
NoHeld == [path |-> Root, id |-> Root, photos |-> {}]

MutexFree == priority.pc # "park"
Stopping == phase # "running"
\* notify_all: the priority thread tests again if it was asleep.
Woken == IF priority.pc = "asleep" THEN [priority EXCEPT !.pc = "test"] ELSE priority

\* The file system by what it is asked for.  The alias is the current folder,
\* but "C:" and a separator and a name is a file of the root.
Exists(p) == Here(NormalisePath(p))
StableId(p) == IF Exists(p) THEN disk[NormalisePath(p)].id ELSE p
Lists(p) == IF p = Alias THEN Root ELSE p
SpelledByWatcher(p) == IF p = Root THEN Alias ELSE p

\* ScanOneFolder, to the end of the listing: .nomedia is an empty listing, and
\* so is a folder in a development tree unless it was opened by the user.
ScanOneFolder(p, applyDevelopmentFilter) ==
  [path |-> p, id |-> StableId(p),
   photos |-> IF applyDevelopmentFilter /\ NormalisePath(p) \in Project THEN {}
              ELSE disk[Lists(p)].photos]
\* When photographs were found the identity is read again.
AfterListing(seen) == IF seen.photos = {} THEN "store" ELSE "identify"
Identified(held) == [held EXCEPT !.id = StableId(held.path)]
Subfolders(p) == IF p = Root THEN {q \in Folder \ (Excluded \cup {Root}) : Here(q)} ELSE {}

Idle(job) == [pc |-> job, job |-> "none", todo |-> {}, held |-> NoHeld,
              full |-> FALSE, rescan |-> FALSE, drives |-> FALSE]

\* What a process starts with.
NewWatcher == [pc |-> "off", path |-> Root]
NewPriority == [pc |-> "test", held |-> NoHeld]
NoQueues == [dirtyFolders |-> <<>>, dirtyPending |-> {}, priorityFolders |-> <<>>]
NoWants == [full |-> FALSE, rescan |-> FALSE, drives |-> FALSE]
NoStates == [p \in Folder |-> "Unknown"]

\* Which identities the folders present at first have does not matter.
FirstId == CHOOSE f \in [Folder -> 1..Cardinality(Folder)] : IsInjective(f)
Init ==
  /\ EmptyStore
  /\ watcher = NewWatcher /\ scanner = Idle("load") /\ priority = NewPriority
  /\ queues = NoQueues /\ wants = NoWants /\ folderStates = NoStates
  /\ cacheReady = FALSE /\ paused = FALSE /\ phase = "running"
  /\ owed = {} /\ muddled = FALSE /\ events = <<>>
  /\ cacheFile = {}
  /\ disk \in [Folder -> [id : 0..Cardinality(Folder), photos : SUBSET Photo]]
  /\ Here(Root) /\ current \in {p \in StartedIn : Here(p)}
  /\ \A p \in Folder : disk[p] = Nothing \/ (Here(p) /\ disk[p].id = FirstId[p])
  /\ used = [ids |-> Cardinality(Folder), changes |-> 0, calls |-> 0, starts |-> 1,
              missed |-> FALSE]
-----------------------------------------------------------------------------
(* The scanner thread (ScannerLoop).                                        *)

ScannerLoad ==
  /\ scanner.pc = "load"
  /\ IF cacheFile = {} THEN UNCHANGED store ELSE \E saved \in cacheFile : LoadCache(saved)
  /\ scanner' = [scanner EXCEPT !.pc = "ready",
                                !.job = IF cacheFile = {} THEN "walk" ELSE "verify"]
  /\ muddled' = (muddled \/ Alias \in Listed')
  /\ UNCHANGED <<outside, watcher, priority, queues, wants, folderStates, cacheReady,
                 paused, cacheFile, phase>>

\* The flag is raised without workMx.
ScannerReady ==
  /\ scanner.pc = "ready"
  /\ cacheReady' = TRUE /\ priority' = Woken
  /\ scanner' = [scanner EXCEPT !.pc = "spawn"]
  /\ UNCHANGED <<store, outside, watcher, queues, wants, folderStates, paused,
                 cacheFile, phase, muddled>>

\* The old watcher is cancelled and joined, which loses the records it has
\* not been handed; a new one is started.
SpawnWatchers ==
  /\ scanner.pc = "spawn" /\ watcher.pc # "drop"
  /\ watcher' = [watcher EXCEPT !.pc = "opening"]
  /\ events' = <<>> /\ owed' = {} /\ used' = [used EXCEPT !.missed = @ \/ events # <<>>]
  /\ scanner' = IF scanner.job = "none" THEN [scanner EXCEPT !.pc = "wait", !.drives = FALSE]
                                        ELSE [scanner EXCEPT !.pc = "begin"]
  /\ UNCHANGED <<store, disk, current, priority, queues, wants, folderStates, cacheReady,
                 paused, cacheFile, phase, muddled>>

\* What follows a pass, or a targeted look, in one turn of the loop.
Then(s) ==
  IF s.full THEN [Idle("begin") EXCEPT !.job = "rebuild", !.drives = s.drives]
  ELSE IF s.rescan THEN [Idle("begin") EXCEPT !.job = "verify", !.drives = s.drives]
  ELSE IF s.drives THEN [Idle("spawn") EXCEPT !.drives = TRUE]
  ELSE Idle("wait")

BeginPass ==
  /\ scanner.pc = "begin"
  /\ IF scanner.job = "rebuild" THEN Clear /\ muddled' = TRUE ELSE UNCHANGED <<store, muddled>>
  /\ scanner' = [scanner EXCEPT !.pc = "look",
                   !.todo = IF scanner.job = "verify" THEN Listed ELSE {Root}]
  /\ UNCHANGED <<outside, watcher, priority, queues, wants, folderStates, cacheReady,
                 paused, cacheFile, phase>>

\* WalkTree: the folder's listing is read and its subfolders are put on the
\* stack; a folder without photographs is not stored.
WalkFolder ==
  /\ scanner.pc = "look" /\ scanner.job \in {"walk", "rebuild"}
  /\ ~paused /\ ~Stopping
  /\ \E p \in scanner.todo :
       LET seen == ScanOneFolder(p, TRUE)
       IN  /\ scanner' = [scanner EXCEPT !.todo = (@ \ {p}) \cup Subfolders(p),
                            !.pc = IF seen.photos = {} THEN "look" ELSE "identify",
                            !.held = IF seen.photos = {} THEN NoHeld ELSE seen]
           /\ owed' = owed \ {p}
  /\ UNCHANGED <<store, disk, current, events, used, watcher, priority, queues, wants, folderStates,
                 cacheReady, paused, cacheFile, phase, muddled>>

\* A folder is looked at again, by its spelling.
LookAgain(p, todo) ==
  LET seen == ScanOneFolder(p, TRUE)
  IN  /\ scanner' = [scanner EXCEPT !.todo = todo, !.pc = AfterListing(seen), !.held = seen]
      /\ owed' = owed \ {Lists(p)}
      /\ UNCHANGED store

\* VerifyKnown: an excluded folder is dropped, another one is listed again.
VerifyFolder ==
  /\ scanner.pc = "look" /\ scanner.job = "verify" /\ ~Stopping
  /\ \E p \in scanner.todo :
       IF NormalisePath(p) \in Excluded
         THEN /\ RemoveFolder(p)
              /\ scanner' = [scanner EXCEPT !.todo = @ \ {p}]
              /\ UNCHANGED owed
         ELSE LookAgain(p, scanner.todo \ {p})
  /\ UNCHANGED <<disk, current, events, used, watcher, priority, queues, wants, folderStates,
                 cacheReady, paused, cacheFile, phase, muddled>>

\* A folder taken from the queue is listed again, even when it is excluded.
LookAtDirty ==
  /\ scanner.pc = "look" /\ scanner.job = "dirty" /\ (~paused \/ Stopping)
  /\ \E p \in scanner.todo : LookAgain(p, {})
  /\ UNCHANGED <<disk, current, events, used, watcher, priority, queues, wants, folderStates,
                 cacheReady, paused, cacheFile, phase, muddled>>

ScannerIdentify ==
  /\ scanner.pc = "identify"
  /\ scanner' = [scanner EXCEPT !.pc = "store", !.held = Identified(@)]
  /\ UNCHANGED <<store, outside, watcher, priority, queues, wants, folderStates, cacheReady,
                 paused, cacheFile, phase, muddled>>

\* A folder found missing is dropped, one found present is stored.
StoreHeld ==
  /\ scanner.pc = "store"
  /\ LET h == scanner.held
     IN  /\ IF h.id = h.path /\ h.photos = {} THEN RemoveFolder(h.path)
            ELSE StoreFolder(h.path, h.id, h.photos)
         /\ muddled' = (muddled \/ (h.path = Alias /\ h.photos # {}))
  /\ scanner' = IF scanner.job = "dirty" THEN Then(scanner)
                ELSE [scanner EXCEPT !.pc = "look", !.held = NoHeld]
  /\ UNCHANGED <<outside, watcher, priority, queues, wants, folderStates, cacheReady,
                 paused, cacheFile, phase>>

\* Mutant: a walk waits for a pause to end even when the index stops.
TruncateCacheUnpaused ==
  /\ scanner.pc = "look" /\ scanner.job # "dirty"
  /\ scanner.todo = {} \/ (Stopping /\ (~paused \/ scanner.job = "verify"))
  /\ cacheFile' = {}
  /\ scanner' = [scanner EXCEPT !.pc = "save", !.todo = {}]
  /\ UNCHANGED <<store, outside, watcher, priority, queues, wants, folderStates, cacheReady,
                 paused, phase, muddled>>
\* A pass ends when nothing is left of it, or early when the index stops.
\* SaveCache empties the file before it writes it.
TruncateCache ==
  /\ scanner.pc = "look" /\ scanner.job # "dirty" /\ (scanner.todo = {} \/ Stopping)
  /\ cacheFile' = {}
  /\ scanner' = [scanner EXCEPT !.pc = "save", !.todo = {}]
  /\ UNCHANGED <<store, outside, watcher, priority, queues, wants, folderStates, cacheReady,
                 paused, phase, muddled>>
SaveCache ==
  /\ scanner.pc = "save"
  /\ cacheFile' = {Saved}
  /\ scanner' = Then(scanner)
  /\ UNCHANGED <<store, outside, watcher, priority, queues, wants, folderStates, cacheReady,
                 paused, phase, muddled>>

\* Mutant: the folder stays in the pending set while it is looked at.
TakeWorkLeavingPending ==
  /\ scanner.pc = "wait" /\ MutexFree /\ ~Stopping
  /\ queues.dirtyFolders # <<>>
  /\ scanner' = [Idle("look") EXCEPT !.job = "dirty", !.todo = {Head(queues.dirtyFolders)},
                   !.full = wants.full, !.rescan = wants.rescan, !.drives = wants.drives]
  /\ queues' = [queues EXCEPT !.dirtyFolders = Tail(@)]
  /\ wants' = [full |-> FALSE, rescan |-> FALSE, drives |-> FALSE]
  /\ UNCHANGED <<store, outside, watcher, priority, folderStates, cacheReady,
                 paused, cacheFile, phase, muddled>>

TakeWork ==
  /\ scanner.pc = "wait" /\ MutexFree /\ ~Stopping
  /\ LET flagged == [Idle("wait") EXCEPT !.full = wants.full, !.rescan = wants.rescan,
                                         !.drives = wants.drives]
         dirty == queues.dirtyFolders
     IN  IF dirty # <<>>
           THEN /\ scanner' = [flagged EXCEPT !.pc = "look", !.job = "dirty", !.todo = {Head(dirty)}]
                /\ queues' = [queues EXCEPT !.dirtyFolders = Tail(dirty),
                                            !.dirtyPending = @ \ {Head(dirty)}]
           ELSE /\ wants.full \/ wants.rescan \/ wants.drives
                /\ scanner' = Then(flagged)
                /\ UNCHANGED queues
  /\ wants' = [full |-> FALSE, rescan |-> FALSE, drives |-> FALSE]
  /\ UNCHANGED <<store, outside, watcher, priority, folderStates, cacheReady,
                 paused, cacheFile, phase, muddled>>

ScannerExit ==
  /\ scanner.pc = "wait" /\ MutexFree /\ Stopping
  /\ scanner' = Idle("exited")
  /\ UNCHANGED <<store, outside, watcher, priority, queues, wants, folderStates, cacheReady,
                 paused, cacheFile, phase, muddled>>

Scanner == \/ ScannerLoad \/ ScannerReady \/ SpawnWatchers \/ BeginPass
           \/ WalkFolder \/ VerifyFolder \/ LookAtDirty \/ ScannerIdentify \/ StoreHeld
           \/ TruncateCache \/ SaveCache \/ TakeWork \/ ScannerExit
-----------------------------------------------------------------------------
(* The priority thread (IndexStart).                                        *)

PriorityTest ==
  /\ priority.pc = "test"
  /\ IF Stopping THEN priority' = [priority EXCEPT !.pc = "exited"] /\ UNCHANGED queues
     ELSE IF cacheReady /\ queues.priorityFolders # <<>>
       THEN /\ priority' = [pc |-> "look", held |-> [NoHeld EXCEPT !.path = Head(queues.priorityFolders)]]
            /\ queues' = [queues EXCEPT !.priorityFolders = Tail(@)]
       ELSE priority' = [priority EXCEPT !.pc = "park"] /\ UNCHANGED queues
  /\ UNCHANGED <<store, outside, watcher, scanner, wants, folderStates, cacheReady,
                 paused, cacheFile, phase, muddled>>

PrioritySteps(from, to) ==
  /\ priority.pc = from
  /\ UNCHANGED <<outside, watcher, scanner, queues, wants, cacheReady,
                 paused, cacheFile, phase, muddled>>
  /\ priority'.pc = to

PriorityPark ==
  /\ priority' = [priority EXCEPT !.pc = "asleep"]
  /\ PrioritySteps("park", "asleep") /\ UNCHANGED <<store, folderStates>>

\* What the user opened is listed even inside a development tree.
PriorityLook ==
  /\ LET seen == ScanOneFolder(priority.held.path, FALSE)
     IN  /\ priority' = [pc |-> AfterListing(seen), held |-> seen]
         /\ PrioritySteps("look", AfterListing(seen))
  /\ UNCHANGED <<store, folderStates>>

PriorityIdentify ==
  /\ priority' = [pc |-> "store", held |-> Identified(priority.held)]
  /\ PrioritySteps("identify", "store") /\ UNCHANGED <<store, folderStates>>

PriorityStore ==
  /\ StoreFolder(priority.held.path, priority.held.id, priority.held.photos)
  /\ priority' = [priority EXCEPT !.pc = "mark"]
  /\ PrioritySteps("store", "mark") /\ UNCHANGED folderStates

\* Mutant: the state of a folder that is gone is left as it is.
PriorityMarkIfFound ==
  /\ folderStates' = IF Here(priority.held.path)
                       THEN [folderStates EXCEPT ![priority.held.path] = "Ready"]
                       ELSE folderStates
  /\ priority' = [pc |-> "test", held |-> NoHeld]
  /\ PrioritySteps("mark", "test") /\ UNCHANGED store

PriorityMark ==
  /\ folderStates' = [folderStates EXCEPT ![priority.held.path] =
                        IF Here(priority.held.path) THEN "Ready" ELSE "Error"]
  /\ priority' = [pc |-> "test", held |-> NoHeld]
  /\ PrioritySteps("mark", "test") /\ UNCHANGED store

Priority == PriorityTest \/ PriorityPark \/ PriorityLook \/ PriorityIdentify \/ PriorityStore
            \/ PriorityMark
-----------------------------------------------------------------------------
(* The watcher (RunWatcher).                                                *)

\* The first ReadDirectoryChangesW: from here on the system keeps records.
WatcherOpens ==
  /\ watcher.pc = "opening" /\ phase = "running"
  /\ watcher' = [watcher EXCEPT !.pc = "on"]
  /\ UNCHANGED <<store, outside, scanner, priority, queues, wants, folderStates, cacheReady,
                 paused, cacheFile, phase, muddled>>

MarkDirty(q, p) ==
  IF p \in q.dirtyPending THEN q
  ELSE [q EXCEPT !.dirtyPending = @ \cup {p}, !.dirtyFolders = Append(@, p)]

\* Mutant: only the parent of a folder that appeared is marked.
MarkedParentOnly(q, e) ==
  CASE e.kind = "file" -> MarkDirty(q, SpelledByWatcher(e.path))
    [] e.kind \in {"added", "removed"} -> MarkDirty(q, SpelledByWatcher(Root))
    [] e.kind = "overflow" -> q

\* The queues with what one record marks: the parent of what changed, and a
\* folder that appeared and is still there.  What is directly under the root
\* has "C:" for its parent, the full path cut at its last separator.
Marked(q, e) ==
  LET parent == IF e.kind = "file" THEN e.path ELSE Root
      marked == MarkDirty(q, SpelledByWatcher(parent))
  IN  CASE e.kind \in {"file", "removed"} -> marked
        [] e.kind = "added" -> IF Here(e.path) THEN MarkDirty(marked, e.path) ELSE q
        [] e.kind = "overflow" -> q

\* One record, under workMx.
WatcherMarks ==
  /\ watcher.pc = "on" /\ events # <<>> /\ MutexFree
  /\ LET e == Head(events)
     IN  /\ queues' = Marked(queues, e)
         /\ wants' = [wants EXCEPT !.full = @ \/ e.kind = "overflow"]
         /\ IF e.kind = "removed"
              THEN watcher' = [pc |-> "drop", path |-> e.path] /\ UNCHANGED priority
              ELSE priority' = Woken /\ UNCHANGED watcher
  /\ events' = Tail(events)
  /\ UNCHANGED <<store, disk, current, used, owed, scanner, folderStates, cacheReady,
                 paused, cacheFile, phase, muddled>>

\* A folder that went away is dropped once workMx has been released.
WatcherDrops ==
  /\ watcher.pc = "drop"
  /\ RemoveFolder(watcher.path)
  /\ watcher' = [watcher EXCEPT !.pc = "on"]
  /\ priority' = Woken
  /\ UNCHANGED <<outside, scanner, queues, wants, folderStates, cacheReady,
                 paused, cacheFile, phase, muddled>>

Watcher == WatcherOpens \/ WatcherMarks \/ WatcherDrops
-----------------------------------------------------------------------------
(* Calls of the UI thread.                                                  *)

Calling ==
  /\ phase = "running" /\ used.calls < MaxCalls
  /\ used' = [used EXCEPT !.calls = @ + 1]
  /\ UNCHANGED <<store, disk, current, events, owed, watcher, scanner, cacheReady, cacheFile,
                 phase, muddled>>

IndexTouchFolder(p) ==
  /\ Calling /\ MutexFree
  /\ folderStates[p] # "Indexing"
  /\ folderStates' = [folderStates EXCEPT ![p] = "Indexing"]
  /\ queues' = [queues EXCEPT !.priorityFolders = Append(@, p)]
  /\ priority' = Woken
  /\ UNCHANGED <<wants, paused>>

IndexRescan ==
  /\ Calling /\ MutexFree
  /\ wants' = [wants EXCEPT !.rescan = TRUE] /\ priority' = Woken
  /\ UNCHANGED <<queues, folderStates, paused>>

IndexDrivesChanged ==
  /\ Calling /\ MutexFree
  /\ wants' = [wants EXCEPT !.rescan = TRUE, !.drives = TRUE] /\ priority' = Woken
  /\ UNCHANGED <<queues, folderStates, paused>>

IndexSetPaused ==
  /\ Calling /\ paused' = ~paused
  /\ UNCHANGED <<queues, wants, folderStates, priority>>

Calls == \/ \E p \in Folder : IndexTouchFolder(p)
         \/ IndexRescan \/ IndexDrivesChanged \/ IndexSetPaused

\* IndexStop joins the priority thread, the scanner and the watcher, and
\* saves.
BeginStop ==
  /\ phase = "running" /\ MutexFree
  /\ phase' = "stopping" /\ priority' = Woken
  /\ UNCHANGED <<store, outside, watcher, scanner, queues, wants, folderStates, cacheReady,
                 paused, cacheFile, muddled>>
JoinThreads ==
  /\ phase = "stopping"
  /\ priority.pc = "exited" /\ scanner.pc = "exited" /\ watcher.pc # "drop"
  /\ watcher' = [watcher EXCEPT !.pc = "off"] /\ events' = <<>> /\ owed' = {}
  /\ phase' = "saving" /\ cacheFile' = {}
  /\ UNCHANGED <<store, disk, current, used, scanner, priority, queues, wants, folderStates, cacheReady,
                 paused, muddled>>
SaveAndReturn ==
  /\ phase = "saving"
  /\ phase' = "stopped" /\ cacheFile' = {Saved}
  /\ UNCHANGED <<store, outside, threads, queues, wants, folderStates, cacheReady,
                 paused, muddled>>

\* The program is started again after a stop, or after the process died.
Restart ==
  /\ used.starts < MaxStarts
  /\ NoLists /\ folderIdByPath' = [p \in Spelling |-> 0]
  /\ watcher' = NewWatcher /\ scanner' = Idle("load") /\ priority' = NewPriority
  /\ queues' = NoQueues /\ wants' = NoWants /\ folderStates' = NoStates
  /\ cacheReady' = FALSE /\ paused' = FALSE /\ phase' = "running"
  /\ owed' = {} /\ muddled' = FALSE /\ events' = <<>>
  /\ current' \in {p \in StartedIn : Here(p)}
  /\ used' = [used EXCEPT !.starts = @ + 1]
  /\ UNCHANGED <<disk, cacheFile>>
-----------------------------------------------------------------------------
(* The file system.                                                         *)

\* The records are added to those not yet handled, or the buffer they share
\* with every other change on the drive overflows and all are dropped.
Report(records) ==
  events' \in IF watcher.pc \in {"on", "drop"}
                THEN {events \o records, <<[kind |-> "overflow", path |-> Root]>>}
                ELSE {events}
Record(kind, p) == [kind |-> kind, path |-> p]

\* The folders in touched have changed, those in gone have left.
Changes(records, touched, gone) ==
  /\ used.changes < MaxChanges
  /\ used' = [used EXCEPT !.changes = @ + 1,
                          !.missed = @ \/ watcher.pc \notin {"on", "drop"},
                          !.ids = IF \E p \in Folder : disk'[p].id = @ + 1 THEN @ + 1 ELSE @]
  /\ Report(records)
  /\ owed' = (owed \ gone) \cup (IF watcher.pc \in {"on", "drop"} THEN touched ELSE {})
  /\ UNCHANGED <<store, current, threads, queues, wants, folderStates, cacheReady, paused,
                 cacheFile, phase, muddled>>

\* The process is in its current folder until it ends.
Movable(p) == p # Root /\ (p = current => phase = "stopped")

\* Photographs come to, or leave, a folder.
ChangePhotos(p) ==
  /\ Here(p)
  /\ \E new \in SUBSET Photo \ {disk[p].photos} : disk' = [disk EXCEPT ![p].photos = new]
  /\ Changes(<<Record("file", p)>>, {p}, {})

\* A folder is created, or moved in from outside the library.
MakeFolder(p) ==
  /\ ~Here(p) /\ used.ids < MaxId
  /\ \E new \in SUBSET Photo : disk' = [disk EXCEPT ![p] = [id |-> used.ids + 1, photos |-> new]]
  /\ Changes(<<Record("added", p)>>, {p}, {})

DeleteFolder(p) ==
  /\ Here(p) /\ Movable(p)
  /\ disk' = [disk EXCEPT ![p] = Nothing]
  /\ Changes(<<Record("removed", p)>>, {}, {p})

RenameFolder(p, q) ==
  /\ Here(p) /\ Movable(p) /\ ~Here(q)
  /\ disk' = [disk EXCEPT ![q] = disk[p], ![p] = Nothing]
  /\ Changes(<<Record("removed", p), Record("added", q)>>, {q}, {p})

FileSystem == \E p \in Folder : \/ ChangePhotos(p) \/ MakeFolder(p) \/ DeleteFolder(p)
                                \/ \E q \in Folder : RenameFolder(p, q)

Next == \/ Scanner \/ Priority \/ Watcher \/ Calls
        \/ BeginStop \/ JoinThreads \/ SaveAndReturn \/ Restart \/ FileSystem

\* Threads able to run do run; a pause is not for ever once a stop is asked.
Fairness == /\ WF_vars(Scanner) /\ WF_vars(Priority) /\ WF_vars(Watcher)
            /\ WF_vars(JoinThreads \/ SaveAndReturn)
Spec == Init /\ [][Next]_vars
FairSpec == Spec /\ Fairness
-----------------------------------------------------------------------------
(* What the index promises.                                                 *)

ScannerPc == {"load", "ready", "spawn", "begin", "look", "identify", "store", "save", "wait",
              "exited"}
Job == {"none", "walk", "verify", "rebuild", "dirty"}
PriorityPc == {"test", "park", "asleep", "look", "identify", "store", "mark", "exited"}
WatcherPc == {"off", "opening", "on", "drop"}

\* Types.
TypeOK ==
  /\ StoreTypes
  /\ disk \in [Folder -> [id : 0..MaxId, photos : SUBSET Photo]]
  /\ scanner \in [pc : ScannerPc, job : Job, todo : SUBSET Spelling, held : Held,
                  full : BOOLEAN, rescan : BOOLEAN, drives : BOOLEAN]
  /\ priority \in [pc : PriorityPc, held : Held]
  /\ watcher \in [pc : WatcherPc, path : Folder]
  /\ queues.dirtyFolders \in Seq(Spelling) /\ queues.dirtyPending \subseteq Spelling
  /\ queues.priorityFolders \in Seq(Folder)
  /\ wants \in [full : BOOLEAN, rescan : BOOLEAN, drives : BOOLEAN]
  /\ folderStates \in [Folder -> {"Unknown", "Indexing", "Ready", "Error"}]
  /\ owed \subseteq Folder /\ current \in Folder

\* Whatever the interleaving of scans, removals and renames, photographs the
\* library counts belong to a folder it lists: the identity kept for their path
\* is listed, under that path.  A rebuild ends this, which clears the folders
\* and not the identities, and so do photographs kept under the alias: the
\* current folder then has two spellings, and what is stored of it by one of
\* them takes it away from the other.
StoredIsListed == ~muddled => Linked

\* The count shown follows the photographs kept: every step but the loading
\* of the cache file, and the start of a new process, changes both alike or
\* leaves none of either.
Kept == MapThenSumSet(LAMBDA p : Cardinality(photosByFolder[p]), Spelling)
CountFollowsPhotos ==
  [][\/ UNCHANGED <<photosByFolder, knownPhotos>>
     \/ scanner'.pc \in {"ready", "load"}
     \/ knownPhotos' = 0 /\ Kept' = 0
     \/ knownPhotos' - Kept' = knownPhotos - Kept]_vars

\* A change the watcher saw is never forgotten: until the scanner looks at
\* the folder again, something on the way leads it there.
ReportedChangeIsPending ==
  phase = "running" => \A p \in owed \ Excluded :
    \/ SpelledByWatcher(p) \in queues.dirtyPending
    \/ \E k \in DOMAIN events : events[k].path = p \/ events[k].kind = "overflow"
    \/ wants.full \/ scanner.full
    \/ scanner.job = "rebuild" /\ scanner.pc \in {"begin", "look", "identify", "store"}
         /\ (scanner.pc = "begin" \/ {Root, p} \cap scanner.todo # {})
    \/ scanner.job = "dirty" /\ scanner.todo = {SpelledByWatcher(p)}

\* The queue of folders to look at again and the set that keeps it free of
\* repetitions agree, so a folder can always be queued again.
PendingIsQueued ==
  /\ queues.dirtyPending = ToSet(queues.dirtyFolders)
  /\ IsInjective(queues.dirtyFolders)

\* A folder being opened says "Indexing" exactly while the priority thread
\* has it queued or in hand, and it is queued once.
TouchedIsServed ==
  /\ \A p \in Folder : folderStates[p] = "Indexing" <=>
       \/ p \in ToSet(queues.priorityFolders)
       \/ priority.pc \in {"look", "identify", "store", "mark"} /\ priority.held.path = p
  /\ IsInjective(queues.priorityFolders)

\* IndexStop returns.
StopReturns == phase \in {"stopping", "saving"} ~> phase \in {"stopped", "running"}
-----------------------------------------------------------------------------
(* What the documentation says of it, and the code does not do.             *)

\* Nothing is left to be done: every thread waits and every record is handled.
Quiet ==
  /\ phase = "running" /\ scanner.pc = "wait" /\ watcher.pc = "on" /\ events = <<>>
  /\ queues = NoQueues /\ wants = NoWants /\ priority.pc = "asleep"

\* index.cpp: a folder "that is disappearing must have its own entry, if any,
\* dropped rather than left pointing at a path that no longer exists".  Here
\* the watcher has reported every change.
GoneFolderDropped == Quiet /\ ~used.missed => \A p \in Listed : Exists(p)
=============================================================================
