------------------------- MODULE LibraryIndexProofs -------------------------
(***************************************************************************)
(* Until a rebuild, and until photographs are kept under the alias of the  *)
(* root, the photographs the library keeps belong to folders it lists, for *)
(* any folders, photographs and interleaving of the threads.               *)
(* The queues repeat nothing and agree with the sets and states beside     *)
(* them; and what leads the scanner to a folder the watcher saw change is  *)
(* followed through its hands: record, queue or flag, pass, look.  The     *)
(* count of photographs covers the ones kept: each operation of the store  *)
(* changes both alike, which SetSums shows of a sum over the folders.      *)
(***************************************************************************)
EXTENDS LibraryIndex, SetSums

\* The parts of the state the proof follows, and their shapes.
StoreShape ==
  /\ folders \in [Identity -> Spelling \cup {"none"}]
  /\ photosByFolder \in [Spelling -> SUBSET Photo]
  /\ folderIdByPath \in [Spelling -> Identity \cup {0}]

DiskShape ==
  /\ current \in Folder
  /\ disk \in [Folder -> [id : 0..MaxId, photos : SUBSET Photo]]
  /\ used \in [ids : Nat, changes : Nat, calls : Nat, starts : Nat, missed : BOOLEAN]

\* What the user opens has no alias.
Opened == {h \in Held : h.path \in Folder}
ScannerType == [pc : ScannerPc, job : Job, todo : SUBSET Spelling, held : Held,
                full : BOOLEAN, rescan : BOOLEAN, drives : BOOLEAN]
PriorityType == [pc : PriorityPc, held : Opened]
Hands == /\ scanner \in ScannerType /\ priority \in PriorityType
         /\ watcher \in [pc : WatcherPc, path : Folder]

QueuesType == [dirtyFolders : Seq(Spelling), dirtyPending : SUBSET Spelling,
               priorityFolders : Seq(Folder)]
ChangeRecord == [kind : {"file", "added", "removed", "overflow"}, path : Folder]
Queued ==
  /\ queues \in QueuesType
  /\ wants \in [full : BOOLEAN, rescan : BOOLEAN, drives : BOOLEAN]
  /\ events \in Seq(ChangeRecord)

\* A line of the cache file without a path has no photographs.
Line == {l \in [path : Spelling \cup {"none"}, photos : SUBSET Photo] :
           l.path = "none" => l.photos = {}}
CacheShape == \A saved \in cacheFile : saved \in [Identity -> Line]

\* The inductive invariant.
Shape == StoreShape /\ DiskShape /\ Hands /\ Queued /\ CacheShape
Clean == ~muddled => Linked /\ Alias \notin Listed
IInv == Shape /\ Clean
-----------------------------------------------------------------------------
(* Folders and their spellings.                                             *)

LEMMA Spellings ==
  /\ Root \in Folder /\ Alias \notin Folder
  /\ Folder \subseteq Spelling /\ Alias \in Spelling /\ "none" \notin Spelling
  /\ Spelling \subseteq Identity /\ Id \subseteq Identity /\ 0 \notin Identity
  /\ \A p \in Spelling : p # Alias => p \in Folder
BY StoreAssumption, IndexAssumption DEF Spelling, Identity, Id

LEMMA WatcherSpells ==
  ASSUME NEW p \in Folder
  PROVE  SpelledByWatcher(p) \in Spelling /\ Lists(SpelledByWatcher(p)) = p
BY Spellings DEF SpelledByWatcher, Lists
-----------------------------------------------------------------------------
(* The store's operations keep its shape, and keep it linked.               *)

LEMMA StoreFolderKeeps ==
  ASSUME StoreShape, NEW p \in Spelling, NEW i \in Identity, NEW found \in SUBSET Photo,
         StoreFolder(p, i, found)
  PROVE  /\ StoreShape'
         /\ Linked /\ Alias \notin Listed /\ (p = Alias => found = {})
              => Linked' /\ Alias \notin Listed'
<1> USE Spellings
<1> DEFINE was == folderIdByPath[p]
           unlisted == IF was # i THEN Without(folders, was) ELSE folders
           former == Former(unlisted, p, i)
           photos == [q \in Spelling |-> IF q \in former THEN {} ELSE photosByFolder[q]]
           ids == [q \in Spelling |-> IF q \in former THEN 0 ELSE folderIdByPath[q]]
           keep == found # {} /\ p \notin Technical
<1>1. /\ folders' = IF keep THEN [unlisted EXCEPT ![i] = p] ELSE Without(unlisted, ids[p])
      /\ photosByFolder' = [photos EXCEPT ![p] = IF keep THEN found ELSE {}]
      /\ folderIdByPath' = [ids EXCEPT ![p] = IF keep THEN i ELSE 0]
  BY DEF StoreFolder
<1>2. /\ unlisted \in [Identity -> Spelling \cup {"none"}]
      /\ photos \in [Spelling -> SUBSET Photo] /\ ids \in [Spelling -> Identity \cup {0}]
      /\ p \notin former /\ ids[p] = was
  <2>1. unlisted \in [Identity -> Spelling \cup {"none"}]
    BY DEF StoreShape, Without
  <2>2. p \notin former
    BY DEF Former
  <2> HIDE DEF former, unlisted
  <2> QED
    BY <2>1, <2>2 DEF StoreShape
<1>4. folders' \in [Identity -> Spelling \cup {"none"}]
  <2>1. CASE keep
    BY <2>1, <1>1, <1>2
  <2>2. CASE ~keep
    BY <2>2, <1>1, <1>2 DEF Without
  <2> QED
    BY <2>1, <2>2
<1>5. /\ photosByFolder' \in [Spelling -> SUBSET Photo]
      /\ folderIdByPath' \in [Spelling -> Identity \cup {0}]
  <2> HIDE DEF photos, ids, keep
  <2>1. (IF keep THEN found ELSE {}) \in SUBSET Photo /\ (IF keep THEN i ELSE 0) \in Identity \cup {0}
    OBVIOUS
  <2> QED
    BY <2>1, <1>1, <1>2
<1>6. ASSUME Linked, Alias \notin Listed, p = Alias => found = {}
      PROVE  Linked' /\ Alias \notin Listed'
  <2>1. \A j \in Identity : folders[j] # Alias
    BY <1>6 DEF Listed
  <2>2. \A j \in Identity : unlisted[j] = folders[j] \/ unlisted[j] = "none"
    BY DEF Without, StoreShape
  <2>3. \A q \in Spelling : q \in former <=> unlisted[i] = q /\ q # p
    BY <2>1, <2>2 DEF Former, NormalisePath
  <2>4. \A j \in Identity : folders'[j] \in {unlisted[j], "none"} \/ (keep /\ j = i /\ folders'[j] = p)
    <3>1. CASE keep
      BY <3>1, <1>1, <1>2
    <3>2. CASE ~keep
      BY <3>2, <1>1, <1>2 DEF Without
    <3> QED
      BY <3>1, <3>2
  <2>5. Alias \notin Listed'
    BY <2>1, <2>2, <2>4, <1>6 DEF Listed
  <2> SUFFICES ASSUME NEW q \in Spelling
               PROVE  /\ folderIdByPath'[q] # 0 => folders'[folderIdByPath'[q]] = q
                      /\ photosByFolder'[q] # {} => folderIdByPath'[q] # 0
    BY <2>5 DEF Linked
  <2>6. /\ folderIdByPath[q] # 0 => folders[folderIdByPath[q]] = q
        /\ photosByFolder[q] # {} => folderIdByPath[q] # 0
        /\ was # 0 => folders[was] = p
    BY <1>6 DEF Linked
  <2>7. CASE q = p
    <3>1. /\ photosByFolder'[q] = IF keep THEN found ELSE {}
          /\ folderIdByPath'[q] = IF keep THEN i ELSE 0
      BY <2>7, <1>1, <1>2
    <3>2. keep => folders'[i] = p
      BY <1>1, <1>2
    <3> QED
      BY <2>7, <3>1, <3>2
  <2>8. CASE q # p
    <3>1. /\ photosByFolder'[q] = IF q \in former THEN {} ELSE photosByFolder[q]
          /\ folderIdByPath'[q] = IF q \in former THEN 0 ELSE folderIdByPath[q]
      <4> HIDE DEF former
      <4> QED
        BY <2>8, <1>1, <1>2
    <3>2. CASE q \in former
      BY <3>1, <3>2
    <3>3. CASE q \notin former
      <4>1. SUFFICES ASSUME folderIdByPath[q] # 0
                     PROVE  folders'[folderIdByPath[q]] = q
        BY <3>1, <3>3, <2>6
      <4> DEFINE j == folderIdByPath[q]
      <4>2. j \in Identity /\ folders[j] = q /\ j # was
        BY <4>1, <2>6, <2>8 DEF StoreShape
      <4>3. unlisted[j] = q
        BY <4>2 DEF Without
      <4>4. j # i
        BY <4>2, <4>3, <3>3, <2>3, <2>8
      <4> HIDE DEF j, former, unlisted, was
      <4>5. CASE keep
        BY <4>5, <4>2, <4>3, <4>4, <1>1, <1>2 DEF j
      <4>6. CASE ~keep
        BY <4>6, <4>2, <4>3, <1>1, <1>2 DEF Without, j
      <4> QED
        BY <4>5, <4>6
    <3> QED
      BY <3>2, <3>3
  <2> QED
    BY <2>7, <2>8
<1> QED
  BY <1>4, <1>5, <1>6 DEF StoreShape

LEMMA RemoveFolderKeeps ==
  ASSUME StoreShape, NEW p \in Spelling, RemoveFolder(p)
  PROVE  /\ StoreShape'
         /\ Linked /\ Alias \notin Listed => Linked' /\ Alias \notin Listed'
<1> USE Spellings
<1>1. StoreShape'
  BY DEF StoreShape, RemoveFolder, Without
<1>2. ASSUME Linked, Alias \notin Listed PROVE Linked' /\ Alias \notin Listed'
  <2>1. Alias \notin Listed'
    BY <1>2 DEF Listed, RemoveFolder, Without
  <2> SUFFICES ASSUME NEW q \in Spelling
               PROVE  /\ folderIdByPath'[q] # 0 => folders'[folderIdByPath'[q]] = q
                      /\ photosByFolder'[q] # {} => folderIdByPath'[q] # 0
    BY <2>1 DEF Linked
  <2>2. CASE q = p
    BY <2>2 DEF RemoveFolder, StoreShape
  <2>3. CASE q # p
    <3>1. /\ folderIdByPath'[q] = folderIdByPath[q]
          /\ photosByFolder'[q] = photosByFolder[q]
          /\ photosByFolder[q] # {} => folderIdByPath[q] # 0
      BY <2>3, <1>2 DEF RemoveFolder, StoreShape, Linked
    <3>2. ASSUME folderIdByPath[q] # 0 PROVE folders'[folderIdByPath[q]] = q
      <4>1. folderIdByPath[q] \in Identity /\ folders[folderIdByPath[q]] = q
        BY <3>2, <1>2 DEF Linked, StoreShape
      <4>2. folderIdByPath[q] # folderIdByPath[p]
        BY <4>1, <3>2, <2>3, <1>2 DEF Linked
      <4> QED
        BY <4>1, <4>2 DEF RemoveFolder, Without
    <3> QED
      BY <3>1, <3>2
  <2> QED
    BY <2>2, <2>3
<1> QED
  BY <1>1, <1>2

LEMMA LoadCacheKeeps ==
  ASSUME NEW saved \in [Identity -> Line], LoadCache(saved)
  PROVE  StoreShape' /\ Linked'
<1> USE Spellings
<1> DEFINE kept == {i \in Identity : saved[i].photos # {}}
           at(p) == {i \in kept : saved[i].path = p}
<1>1. /\ folders' = [i \in Identity |-> IF i \in kept THEN saved[i].path ELSE "none"]
      /\ photosByFolder' = [p \in Spelling |-> UNION {saved[i].photos : i \in at(p)}]
      /\ folderIdByPath' \in [Spelling -> Identity \cup {0}]
      /\ \A p \in Spelling : IF at(p) = {} THEN folderIdByPath'[p] = 0
                                           ELSE folderIdByPath'[p] \in at(p)
  BY DEF LoadCache
<1>2. \A i \in Identity : /\ saved[i].path \in Spelling \cup {"none"}
                          /\ saved[i].photos \in SUBSET Photo
  BY DEF Line
<1>3. StoreShape'
  <2>1. folders' \in [Identity -> Spelling \cup {"none"}]
    BY <1>1, <1>2
  <2>2. ASSUME NEW p \in Spelling PROVE UNION {saved[i].photos : i \in at(p)} \in SUBSET Photo
    BY <1>2
  <2>3. photosByFolder' \in [Spelling -> SUBSET Photo]
    BY <1>1, <2>2
  <2> QED
    BY <1>1, <2>1, <2>3 DEF StoreShape
<1>4. Linked'
  <2>1. SUFFICES ASSUME NEW p \in Spelling
                 PROVE  /\ folderIdByPath'[p] # 0 => folders'[folderIdByPath'[p]] = p
                        /\ photosByFolder'[p] # {} => folderIdByPath'[p] # 0
    BY DEF Linked
  <2>2. CASE at(p) = {}
    BY <2>2, <1>1
  <2>3. CASE at(p) # {}
    <3>1. folderIdByPath'[p] \in at(p)
      BY <2>3, <1>1
    <3> QED
      BY <3>1, <1>1
  <2> QED
    BY <2>2, <2>3
<1> QED
  BY <1>3, <1>4
-----------------------------------------------------------------------------
(* The pieces the actions build.                                            *)

LEMMA NoHeldShape ==
  NoHeld \in Held /\ \A p \in Folder : [NoHeld EXCEPT !.path = p] \in Opened
BY Spellings DEF NoHeld, Held, Opened

LEMMA NoHeldOpened == NoHeld \in Opened
BY Spellings, NoHeldShape DEF NoHeld, Opened

LEMMA IdleShape == \A pc \in ScannerPc : Idle(pc) \in ScannerType
BY NoHeldShape DEF Idle, ScannerType, Job

\* What a look at a folder, by any spelling of it, leaves in hand, filtered or
\* not, before and after its identity is read again.
LEMMA ScanLooks ==
  ASSUME DiskShape, NEW p \in Spelling, NEW b \in BOOLEAN
  PROVE  /\ ScanOneFolder(p, b) \in Held /\ ScanOneFolder(p, b).path = p
         /\ StableId(p) \in Identity
<1>1. NormalisePath(p) \in Folder /\ Lists(p) \in Folder
  BY Spellings DEF DiskShape, NormalisePath, Lists
<1>2. disk[Lists(p)].photos \in SUBSET Photo /\ disk[NormalisePath(p)].id \in 0..MaxId
  BY <1>1 DEF DiskShape
<1>3. StableId(p) \in Identity
  <2>1. CASE Exists(p)
    BY <1>2, <2>1, Spellings, StoreAssumption DEF StableId, Exists, Here, Id
  <2>2. CASE ~Exists(p)
    BY <2>2, Spellings DEF StableId
  <2> QED
    BY <2>1, <2>2
<1> QED
  BY <1>2, <1>3 DEF ScanOneFolder, Held

LEMMA IdentifiedShape ==
  ASSUME DiskShape, NEW h \in Held
  PROVE  Identified(h) \in Held /\ Identified(h).path = h.path
<1>1. h.path \in Spelling
  BY DEF Held
<1>2. StableId(h.path) \in Identity
  BY <1>1, ScanLooks
<1> QED
  BY <1>2 DEF Identified, Held

LEMMA ThenShape == ASSUME NEW s \in ScannerType PROVE Then(s) \in ScannerType
<1>1. s.drives \in BOOLEAN
  BY DEF ScannerType
<1>2. /\ Idle("begin") \in ScannerType /\ Idle("spawn") \in ScannerType
      /\ Idle("wait") \in ScannerType
  BY IdleShape DEF ScannerPc
<1> QED
  BY <1>1, <1>2 DEF Then, ScannerType, Job

LEMMA WokenShape == ASSUME Hands PROVE Woken \in PriorityType
BY DEF Hands, Woken, PriorityType, PriorityPc

\* Marking a folder adds it to the queues, marking what a record names does.
LEMMA MarkDirtyShape ==
  ASSUME NEW q \in QueuesType, NEW p \in Spelling PROVE MarkDirty(q, p) \in QueuesType
<1>1. Append(q.dirtyFolders, p) \in Seq(Spelling) /\ q.dirtyPending \cup {p} \in SUBSET Spelling
  BY DEF QueuesType
<1> QED
  BY <1>1 DEF MarkDirty, QueuesType

LEMMA MarkedShape ==
  ASSUME NEW q \in QueuesType, NEW e \in ChangeRecord PROVE Marked(q, e) \in QueuesType
<1> DEFINE parent == SpelledByWatcher(IF e.kind = "file" THEN e.path ELSE Root)
<1>1. parent \in Spelling /\ e.path \in Spelling /\ e.kind \in {"file", "added", "removed", "overflow"}
  BY Spellings, WatcherSpells DEF ChangeRecord
<1>2. Marked(q, e) \in {q, MarkDirty(q, parent), MarkDirty(MarkDirty(q, parent), e.path)}
  BY <1>1 DEF Marked
<1> HIDE DEF parent
<1> QED
  BY <1>1, <1>2, MarkDirtyShape

LEMMA RecordsShape ==
  ASSUME NEW p \in Folder, NEW q \in Folder
  PROVE  /\ <<Record("file", p)>> \in Seq(ChangeRecord)
         /\ <<Record("added", p)>> \in Seq(ChangeRecord)
         /\ <<Record("removed", p)>> \in Seq(ChangeRecord)
         /\ <<Record("removed", p), Record("added", q)>> \in Seq(ChangeRecord)
<1>1. /\ Record("file", p) \in ChangeRecord /\ Record("added", p) \in ChangeRecord
      /\ Record("removed", p) \in ChangeRecord /\ Record("added", q) \in ChangeRecord
  BY DEF Record, ChangeRecord
<1> QED
  BY <1>1

\* A step that leaves the store, and what is remembered of it, alone.
LEMMA StoreStays ==
  ASSUME IInv, UNCHANGED <<store, muddled>>
  PROVE  StoreShape' /\ Clean'
BY DEF IInv, Shape, store, StoreShape, Clean, Linked, Listed

LEMMA InitInv == Init => IInv
<1> SUFFICES ASSUME Init PROVE IInv
  OBVIOUS
<1>1. StoreShape /\ Linked /\ Alias \notin Listed
  BY Spellings DEF Init, EmptyStore, StoreShape, Linked, Listed
<1>2. Cardinality(Folder) \in Nat
  BY IndexAssumption, FS_CardinalityType
<1>3. DiskShape
  <2>1. disk \in [Folder -> [id : 0..Cardinality(Folder), photos : SUBSET Photo]]
    BY DEF Init
  <2>2. 0..Cardinality(Folder) \subseteq 0..MaxId
    BY <1>2, StoreAssumption, IndexAssumption
  <2>3. disk \in [Folder -> [id : 0..MaxId, photos : SUBSET Photo]]
    BY <2>1, <2>2
  <2> QED
    BY <2>3, <1>2, IndexAssumption DEF Init, DiskShape
<1>4. Hands
  BY NoHeldOpened, IdleShape, IndexAssumption
     DEF Init, Hands, NewWatcher, NewPriority, PriorityType, PriorityPc, ScannerPc, WatcherPc
<1>5. Queued /\ CacheShape
  BY DEF Init, Queued, QueuesType, CacheShape, NoQueues, NoWants
<1> QED
  BY <1>1, <1>3, <1>4, <1>5 DEF IInv, Shape, Clean
-----------------------------------------------------------------------------
(* The scanner keeps the invariant.                                         *)

LEMMA LoadKeeps == IInv /\ ScannerLoad => IInv'
<1> SUFFICES ASSUME IInv, ScannerLoad PROVE IInv'
  OBVIOUS
<1>1. StoreShape' /\ Clean'
  <2>1. CASE cacheFile = {}
    <3>1. UNCHANGED store /\ muddled' = (muddled \/ Alias \in Listed')
      BY <2>1 DEF ScannerLoad
    <3>2. StoreShape' /\ (Linked => Linked') /\ Listed' = Listed
      BY <3>1 DEF IInv, Shape, store, StoreShape, Linked, Listed
    <3> QED
      BY <3>1, <3>2 DEF IInv, Clean
  <2>2. CASE cacheFile # {}
    <3>1. PICK saved \in cacheFile : LoadCache(saved)
      BY <2>2 DEF ScannerLoad
    <3>2. saved \in [Identity -> Line]
      BY DEF IInv, Shape, CacheShape
    <3> QED
      BY <3>1, <3>2, LoadCacheKeeps DEF Clean, ScannerLoad
  <2> QED
    BY <2>1, <2>2
<1>2. DiskShape' /\ Queued' /\ CacheShape'
  BY DEF IInv, Shape, ScannerLoad, outside, DiskShape, Queued, CacheShape
<1>3. Hands'
  BY DEF IInv, Shape, ScannerLoad, Hands, ScannerType, ScannerPc, Job
<1> QED
  BY <1>1, <1>2, <1>3 DEF IInv, Shape

LEMMA ReadyKeeps == IInv /\ ScannerReady => IInv'
<1> SUFFICES ASSUME IInv, ScannerReady PROVE IInv'
  OBVIOUS
<1>1. StoreShape' /\ Clean'
  BY StoreStays DEF ScannerReady
<1>2. DiskShape' /\ Queued' /\ CacheShape'
  BY DEF IInv, Shape, ScannerReady, outside, DiskShape, Queued, CacheShape
<1>3. Hands'
  BY WokenShape DEF IInv, Shape, ScannerReady, Hands, ScannerType, ScannerPc
<1> QED
  BY <1>1, <1>2, <1>3 DEF IInv, Shape

LEMMA SpawnKeeps == IInv /\ SpawnWatchers => IInv'
<1> SUFFICES ASSUME IInv, SpawnWatchers PROVE IInv'
  OBVIOUS
<1>1. StoreShape' /\ Clean'
  BY StoreStays DEF SpawnWatchers
<1>2. DiskShape'
  <2>1. used' \in [ids : Nat, changes : Nat, calls : Nat, starts : Nat, missed : BOOLEAN]
    BY DEF IInv, Shape, SpawnWatchers, DiskShape
  <2> QED
    BY <2>1 DEF IInv, Shape, SpawnWatchers, DiskShape
<1>3. Queued' /\ CacheShape'
  BY DEF IInv, Shape, SpawnWatchers, Queued, CacheShape
<1>4. Hands'
  BY DEF IInv, Shape, SpawnWatchers, Hands, ScannerType, ScannerPc, Job, WatcherPc
<1> QED
  BY <1>1, <1>2, <1>3, <1>4 DEF IInv, Shape

LEMMA BeginKeeps == IInv /\ BeginPass => IInv'
<1> SUFFICES ASSUME IInv, BeginPass PROVE IInv'
  OBVIOUS
<1>1. StoreShape' /\ Clean'
  <2>1. CASE scanner.job = "rebuild"
    BY <2>1 DEF IInv, Shape, BeginPass, Clear, NoLists, StoreShape, Clean
  <2>2. CASE scanner.job # "rebuild"
    BY <2>2, StoreStays DEF BeginPass
  <2> QED
    BY <2>1, <2>2
<1>2. DiskShape' /\ Queued' /\ CacheShape'
  BY DEF IInv, Shape, BeginPass, outside, DiskShape, Queued, CacheShape
<1>3. Hands'
  BY Spellings DEF IInv, Shape, BeginPass, Hands, Listed, ScannerType, ScannerPc
<1> QED
  BY <1>1, <1>2, <1>3 DEF IInv, Shape

LEMMA WalkKeeps == IInv /\ WalkFolder => IInv'
<1> SUFFICES ASSUME IInv, WalkFolder PROVE IInv'
  OBVIOUS
<1>1. StoreShape' /\ Clean'
  BY StoreStays DEF WalkFolder
<1>2. DiskShape' /\ Queued' /\ CacheShape'
  BY DEF IInv, Shape, WalkFolder, DiskShape, Queued, CacheShape
<1>3. Hands'
  <2>1. PICK p \in scanner.todo :
          scanner' = [scanner EXCEPT !.todo = (@ \ {p}) \cup Subfolders(p),
                        !.pc = IF ScanOneFolder(p, TRUE).photos = {} THEN "look" ELSE "identify",
                        !.held = IF ScanOneFolder(p, TRUE).photos = {} THEN NoHeld
                                 ELSE ScanOneFolder(p, TRUE)]
    BY DEF WalkFolder
  <2>2. p \in Spelling /\ Subfolders(p) \subseteq Spelling
    BY Spellings DEF IInv, Shape, Hands, Subfolders, ScannerType
  <2>3. ScanOneFolder(p, TRUE) \in Held
    BY <2>2, ScanLooks DEF IInv, Shape
  <2> QED
    BY <2>1, <2>2, <2>3, NoHeldShape DEF IInv, Shape, Hands, WalkFolder, ScannerType, ScannerPc
<1> QED
  BY <1>1, <1>2, <1>3 DEF IInv, Shape

LEMMA LookAgainShape ==
  ASSUME DiskShape, scanner \in ScannerType, NEW p \in Spelling, NEW todo \in SUBSET Spelling,
         LookAgain(p, todo)
  PROVE  scanner' \in ScannerType
<1>1. ScanOneFolder(p, TRUE) \in Held
  BY ScanLooks
<1>2. AfterListing(ScanOneFolder(p, TRUE)) \in ScannerPc
  BY DEF AfterListing, ScannerPc
<1> QED
  BY <1>1, <1>2 DEF LookAgain, ScannerType

LEMMA VerifyKeeps == IInv /\ VerifyFolder => IInv'
<1> SUFFICES ASSUME IInv, VerifyFolder PROVE IInv'
  OBVIOUS
<1>1. PICK p \in scanner.todo :
        IF NormalisePath(p) \in Excluded
          THEN RemoveFolder(p) /\ scanner' = [scanner EXCEPT !.todo = @ \ {p}]
          ELSE LookAgain(p, scanner.todo \ {p})
  BY DEF VerifyFolder
<1>2. p \in Spelling /\ scanner.todo \in SUBSET Spelling /\ scanner \in ScannerType
  BY DEF IInv, Shape, Hands, ScannerType
<1>3. StoreShape' /\ Clean' /\ scanner' \in ScannerType
  <2>1. CASE NormalisePath(p) \in Excluded
    BY <2>1, <1>1, <1>2, RemoveFolderKeeps DEF IInv, Shape, VerifyFolder, Clean, ScannerType
  <2>2. CASE NormalisePath(p) \notin Excluded
    <3>1. UNCHANGED <<store, muddled>> /\ LookAgain(p, scanner.todo \ {p})
      BY <2>2, <1>1 DEF VerifyFolder, LookAgain
    <3> QED
      BY <3>1, <1>2, StoreStays, LookAgainShape DEF IInv, Shape
  <2> QED
    BY <2>1, <2>2
<1>4. DiskShape' /\ Queued' /\ CacheShape'
  BY DEF IInv, Shape, VerifyFolder, DiskShape, Queued, CacheShape
<1>5. Hands'
  BY <1>3 DEF IInv, Shape, Hands, VerifyFolder
<1> QED
  BY <1>3, <1>4, <1>5 DEF IInv, Shape

LEMMA DirtyKeeps == IInv /\ LookAtDirty => IInv'
<1> SUFFICES ASSUME IInv, LookAtDirty PROVE IInv'
  OBVIOUS
<1>1. PICK p \in scanner.todo : LookAgain(p, {})
  BY DEF LookAtDirty
<1>2. p \in Spelling /\ scanner \in ScannerType
  BY DEF IInv, Shape, Hands, ScannerType
<1>3. StoreShape' /\ Clean'
  BY <1>1, StoreStays DEF LookAtDirty, LookAgain
<1>4. DiskShape' /\ Queued' /\ CacheShape'
  BY DEF IInv, Shape, LookAtDirty, DiskShape, Queued, CacheShape
<1>5. Hands'
  BY <1>1, <1>2, LookAgainShape DEF IInv, Shape, Hands, LookAtDirty
<1> QED
  BY <1>3, <1>4, <1>5 DEF IInv, Shape

LEMMA IdentifyKeeps == IInv /\ ScannerIdentify => IInv'
<1> SUFFICES ASSUME IInv, ScannerIdentify PROVE IInv'
  OBVIOUS
<1>1. StoreShape' /\ Clean'
  BY StoreStays DEF ScannerIdentify
<1>2. DiskShape' /\ Queued' /\ CacheShape'
  BY DEF IInv, Shape, ScannerIdentify, outside, DiskShape, Queued, CacheShape
<1>3. Hands'
  <2>1. Identified(scanner.held) \in Held
    BY IdentifiedShape DEF IInv, Shape, Hands, ScannerType
  <2> QED
    BY <2>1 DEF IInv, Shape, Hands, ScannerIdentify, ScannerType, ScannerPc
<1> QED
  BY <1>1, <1>2, <1>3 DEF IInv, Shape

LEMMA StoreHeldKeeps == IInv /\ StoreHeld => IInv'
<1> SUFFICES ASSUME IInv, StoreHeld PROVE IInv'
  OBVIOUS
<1> DEFINE h == scanner.held
<1>1. h.path \in Spelling /\ h.id \in Identity /\ h.photos \in SUBSET Photo
  BY DEF IInv, Shape, Hands, ScannerType, Held
<1>2. /\ StoreShape'
      /\ Linked /\ Alias \notin Listed /\ (h.path = Alias => h.photos = {})
           => Linked' /\ Alias \notin Listed'
  <2> HIDE DEF h
  <2>1. CASE h.id = h.path /\ h.photos = {}
    <3>1. RemoveFolder(h.path)
      BY <2>1 DEF StoreHeld, h
    <3> QED
      BY <3>1, <1>1, RemoveFolderKeeps DEF IInv, Shape
  <2>2. CASE ~ (h.id = h.path /\ h.photos = {})
    <3>1. StoreFolder(h.path, h.id, h.photos)
      BY <2>2 DEF StoreHeld, h
    <3> QED
      BY <3>1, <1>1, StoreFolderKeeps DEF IInv, Shape
  <2> QED
    BY <2>1, <2>2
<1>3. Clean'
  BY <1>2 DEF IInv, Clean, StoreHeld
<1>4. DiskShape' /\ Queued' /\ CacheShape'
  BY DEF IInv, Shape, StoreHeld, outside, DiskShape, Queued, CacheShape
<1>5. Hands'
  BY NoHeldShape, ThenShape DEF IInv, Shape, Hands, StoreHeld, ScannerType, ScannerPc
<1> QED
  BY <1>2, <1>3, <1>4, <1>5 DEF IInv, Shape

LEMMA SavedShape == ASSUME StoreShape PROVE Saved \in [Identity -> Line]
BY Spellings DEF StoreShape, Saved, Line

LEMMA SaveKeeps == IInv /\ (TruncateCache \/ SaveCache) => IInv'
<1> SUFFICES ASSUME IInv, TruncateCache \/ SaveCache PROVE IInv'
  OBVIOUS
<1>1. StoreShape' /\ Clean'
  BY StoreStays DEF TruncateCache, SaveCache
<1>2. DiskShape' /\ Queued'
  BY DEF IInv, Shape, TruncateCache, SaveCache, outside, DiskShape, Queued
<1>3. CacheShape'
  BY SavedShape DEF IInv, Shape, TruncateCache, SaveCache, CacheShape
<1>4. Hands'
  BY ThenShape DEF IInv, Shape, TruncateCache, SaveCache, Hands, ScannerType, ScannerPc
<1> QED
  BY <1>1, <1>2, <1>3, <1>4 DEF IInv, Shape

LEMMA WorkKeeps == IInv /\ (TakeWork \/ ScannerExit) => IInv'
<1> SUFFICES ASSUME IInv, TakeWork \/ ScannerExit PROVE IInv'
  OBVIOUS
<1>1. StoreShape' /\ Clean'
  BY StoreStays DEF TakeWork, ScannerExit
<1>2. DiskShape' /\ CacheShape'
  BY DEF IInv, Shape, TakeWork, ScannerExit, outside, DiskShape, CacheShape
<1>3. Queued' /\ scanner' \in ScannerType
  <2>1. CASE ScannerExit
    BY <2>1, IdleShape DEF IInv, Shape, ScannerExit, outside, Queued, ScannerPc
  <2>2. CASE TakeWork
    <3> DEFINE flagged == [Idle("wait") EXCEPT !.full = wants.full, !.rescan = wants.rescan,
                                               !.drives = wants.drives]
               dirty == queues.dirtyFolders
    <3>1. wants' \in [full : BOOLEAN, rescan : BOOLEAN, drives : BOOLEAN] /\ events' = events
      BY <2>2 DEF TakeWork, outside
    <3>2. flagged \in ScannerType
      BY IdleShape DEF IInv, Shape, Queued, ScannerType, ScannerPc
    <3>3. CASE dirty # <<>>
      <4>1. /\ scanner' = [flagged EXCEPT !.pc = "look", !.job = "dirty", !.todo = {Head(dirty)}]
            /\ queues' = [queues EXCEPT !.dirtyFolders = Tail(dirty),
                                        !.dirtyPending = @ \ {Head(dirty)}]
        BY <3>3, <2>2 DEF TakeWork
      <4>2. Head(dirty) \in Spelling /\ Tail(dirty) \in Seq(Spelling)
        BY <3>3 DEF IInv, Shape, Queued, QueuesType
      <4>3. scanner' \in ScannerType
        <5> HIDE DEF flagged, dirty
        <5> QED
          BY <4>1, <4>2, <3>2 DEF ScannerType, ScannerPc, Job
      <4>4. Queued'
        BY <4>1, <4>2, <3>1 DEF IInv, Shape, Queued, QueuesType
      <4> QED
        BY <4>3, <4>4
    <3>4. CASE dirty = <<>>
      <4>1. scanner' = Then(flagged) /\ UNCHANGED queues
        BY <3>4, <2>2 DEF TakeWork
      <4>2. scanner' \in ScannerType
        BY <4>1, <3>2, ThenShape
      <4> QED
        BY <4>1, <4>2, <3>1 DEF IInv, Shape, Queued, QueuesType
    <3> QED
      BY <3>3, <3>4
  <2> QED
    BY <2>1, <2>2
<1>4. Hands'
  BY <1>3 DEF IInv, Shape, TakeWork, ScannerExit, Hands
<1> QED
  BY <1>1, <1>2, <1>3, <1>4 DEF IInv, Shape
-----------------------------------------------------------------------------
(* So do the priority thread and the watcher.                               *)

LEMMA PriorityKeeps == IInv /\ Priority => IInv'
<1> SUFFICES ASSUME IInv, Priority PROVE IInv'
  OBVIOUS
<1> USE DEF PrioritySteps
<1>1. DiskShape' /\ CacheShape'
  BY DEF IInv, Shape, Priority, PriorityTest, PriorityPark, PriorityLook, PriorityIdentify,
         PriorityStore, PriorityMark, outside, DiskShape, CacheShape
<1>2. scanner' = scanner /\ watcher' = watcher
  BY DEF Priority, PriorityTest, PriorityPark, PriorityLook, PriorityIdentify, PriorityStore,
         PriorityMark
<1>3. CASE PriorityTest
  <2>1. StoreShape' /\ Clean'
    BY <1>3, StoreStays DEF PriorityTest
  <2>2. Queued' /\ priority' \in PriorityType
    <3>1. CASE ~Stopping /\ cacheReady /\ queues.priorityFolders # <<>>
      <4> DEFINE wanted == queues.priorityFolders
      <4>1. /\ priority' = [pc |-> "look", held |-> [NoHeld EXCEPT !.path = Head(wanted)]]
            /\ queues' = [queues EXCEPT !.priorityFolders = Tail(@)]
        BY <3>1, <1>3 DEF PriorityTest
      <4>2. Head(wanted) \in Folder /\ Tail(wanted) \in Seq(Folder)
        BY <3>1 DEF IInv, Shape, Queued, QueuesType
      <4>3. [NoHeld EXCEPT !.path = Head(wanted)] \in Opened
        BY <4>2, NoHeldShape
      <4>4. Queued'
        BY <4>1, <4>2, <1>3 DEF IInv, Shape, Queued, QueuesType, PriorityTest, outside
      <4> QED
        BY <4>1, <4>3, <4>4 DEF PriorityType, PriorityPc
    <3>2. CASE Stopping \/ ~cacheReady \/ queues.priorityFolders = <<>>
      BY <3>2, <1>3 DEF IInv, Shape, Queued, Hands, PriorityTest, outside, PriorityType, PriorityPc
    <3> QED
      BY <3>1, <3>2
  <2> QED
    BY <2>1, <2>2, <1>1, <1>2 DEF IInv, Shape, Hands
<1>4. CASE PriorityPark
  <2>1. StoreShape' /\ Clean'
    BY <1>4, StoreStays DEF PriorityPark
  <2>2. priority' \in PriorityType /\ Queued'
    BY <1>4 DEF IInv, Shape, Hands, Queued, PriorityPark, outside, PriorityType, PriorityPc
  <2> QED
    BY <2>1, <2>2, <1>1, <1>2 DEF IInv, Shape, Hands
<1>5. CASE PriorityLook
  <2>1. StoreShape' /\ Clean'
    BY <1>5, StoreStays DEF PriorityLook
  <2>2. priority.held.path \in Folder /\ priority.held.path \in Spelling
    BY Spellings DEF IInv, Shape, Hands, PriorityType, Opened
  <2>3. ScanOneFolder(priority.held.path, FALSE) \in Opened
    BY <2>2, ScanLooks DEF IInv, Shape, Opened
  <2>4. priority' \in PriorityType /\ Queued'
    BY <2>3, <1>5 DEF IInv, Shape, Queued, PriorityLook, outside, PriorityType, PriorityPc, AfterListing
  <2> QED
    BY <2>1, <2>4, <1>1, <1>2 DEF IInv, Shape, Hands
<1>8. CASE PriorityIdentify
  <2>1. StoreShape' /\ Clean'
    BY <1>8, StoreStays DEF PriorityIdentify
  <2>2. Identified(priority.held) \in Opened
    BY IdentifiedShape DEF IInv, Shape, Hands, PriorityType, Opened
  <2>3. priority' \in PriorityType /\ Queued'
    BY <2>2, <1>8 DEF IInv, Shape, Queued, PriorityIdentify, outside, PriorityType, PriorityPc
  <2> QED
    BY <2>1, <2>3, <1>1, <1>2 DEF IInv, Shape, Hands
<1>6. CASE PriorityStore
  <2> DEFINE h == priority.held
  <2>1. /\ h.path \in Spelling /\ h.path # Alias
        /\ h.id \in Identity /\ h.photos \in SUBSET Photo
    BY Spellings DEF IInv, Shape, Hands, PriorityType, Opened, Held
  <2>2. StoreFolder(h.path, h.id, h.photos)
    BY <1>6 DEF PriorityStore
  <2>3. StoreShape' /\ (Linked /\ Alias \notin Listed => Linked' /\ Alias \notin Listed')
    <3> HIDE DEF h
    <3> QED
      BY <2>1, <2>2, StoreFolderKeeps DEF IInv, Shape
  <2>4. Clean'
    BY <2>3, <1>6 DEF IInv, Clean, PriorityStore
  <2>5. priority' \in PriorityType /\ Queued'
    BY <1>6 DEF IInv, Shape, Hands, Queued, PriorityStore, outside, PriorityType, PriorityPc
  <2> QED
    BY <2>3, <2>4, <2>5, <1>1, <1>2 DEF IInv, Shape, Hands
<1>7. CASE PriorityMark
  <2>1. StoreShape' /\ Clean'
    BY <1>7, StoreStays DEF PriorityMark
  <2>2. priority' \in PriorityType /\ Queued'
    BY <1>7, NoHeldOpened DEF IInv, Shape, Queued, PriorityMark, outside, PriorityType, PriorityPc
  <2> QED
    BY <2>1, <2>2, <1>1, <1>2 DEF IInv, Shape, Hands
<1> QED
  BY <1>3, <1>4, <1>5, <1>6, <1>7, <1>8 DEF Priority

LEMMA WatcherKeeps == IInv /\ Watcher => IInv'
<1> SUFFICES ASSUME IInv, Watcher PROVE IInv'
  OBVIOUS
<1>1. DiskShape' /\ CacheShape' /\ scanner' = scanner
  BY DEF IInv, Shape, Watcher, WatcherOpens, WatcherMarks, WatcherDrops, outside, DiskShape,
         CacheShape
<1>2. CASE WatcherOpens
  <2>1. StoreShape' /\ Clean'
    BY <1>2, StoreStays DEF WatcherOpens
  <2>2. watcher' \in [pc : WatcherPc, path : Folder] /\ priority' = priority /\ Queued'
    BY <1>2 DEF IInv, Shape, Hands, Queued, WatcherOpens, outside, WatcherPc
  <2> QED
    BY <2>1, <2>2, <1>1 DEF IInv, Shape, Hands
<1>3. CASE WatcherMarks
  <2>1. StoreShape' /\ Clean'
    BY <1>3, StoreStays DEF WatcherMarks
  <2> DEFINE e == Head(events)
  <2>2. e \in ChangeRecord /\ Tail(events) \in Seq(ChangeRecord)
    BY <1>3 DEF IInv, Shape, Queued, WatcherMarks
  <2>4. /\ queues' = Marked(queues, e)
        /\ wants' = [wants EXCEPT !.full = @ \/ e.kind = "overflow"]
        /\ events' = Tail(events)
    BY <1>3 DEF WatcherMarks
  <2>5. Queued'
    <3>1. queues' \in QueuesType
      BY <2>2, <2>4, MarkedShape DEF IInv, Shape, Queued
    <3>2. wants' \in [full : BOOLEAN, rescan : BOOLEAN, drives : BOOLEAN]
      <4> DEFINE b == wants.full \/ e.kind = "overflow"
      <4>1. b \in BOOLEAN /\ wants' = [wants EXCEPT !.full = b]
        BY <2>4
      <4> HIDE DEF b
      <4> QED
        BY <4>1 DEF IInv, Shape, Queued
    <3> QED
      BY <3>1, <3>2, <2>2, <2>4 DEF Queued
  <2>6. Hands'
    <3>1. CASE e.kind = "removed"
      <4>1. watcher' = [pc |-> "drop", path |-> e.path] /\ priority' = priority
        BY <3>1, <1>3 DEF WatcherMarks
      <4> QED
        BY <4>1, <2>2, <1>1 DEF IInv, Shape, Hands, WatcherPc, ChangeRecord
    <3>2. CASE e.kind # "removed"
      <4>1. priority' = Woken /\ watcher' = watcher
        BY <3>2, <1>3 DEF WatcherMarks
      <4> QED
        BY <4>1, <1>1, WokenShape DEF IInv, Shape, Hands
    <3> QED
      BY <3>1, <3>2
  <2> QED
    BY <2>1, <2>5, <2>6, <1>1 DEF IInv, Shape
<1>4. CASE WatcherDrops
  <2>1. watcher.path \in Spelling
    BY Spellings DEF IInv, Shape, Hands
  <2>2. StoreShape' /\ Clean'
    BY <2>1, <1>4, RemoveFolderKeeps DEF IInv, Shape, WatcherDrops, Clean
  <2>3. watcher' \in [pc : WatcherPc, path : Folder] /\ priority' \in PriorityType /\ Queued'
    BY <1>4, WokenShape DEF IInv, Shape, Hands, Queued, WatcherDrops, outside, WatcherPc
  <2> QED
    BY <2>2, <2>3, <1>1 DEF IInv, Shape, Hands
<1> QED
  BY <1>2, <1>3, <1>4 DEF Watcher
-----------------------------------------------------------------------------
(* The UI thread's calls, the end of a process and the start of another.    *)

LEMMA CallsKeep == IInv /\ Calls => IInv'
<1> SUFFICES ASSUME IInv, Calls PROVE IInv'
  OBVIOUS
<1> USE DEF Calling
<1>1. StoreShape' /\ Clean'
  <2>1. UNCHANGED <<store, muddled>>
    BY DEF Calls, IndexTouchFolder, IndexRescan, IndexDrivesChanged, IndexSetPaused
  <2> QED
    BY <2>1, StoreStays
<1>2. DiskShape' /\ CacheShape'
  <2>1. UNCHANGED <<disk, current, cacheFile>> /\ used' = [used EXCEPT !.calls = @ + 1]
    BY DEF Calls, IndexTouchFolder, IndexRescan, IndexDrivesChanged, IndexSetPaused
  <2> QED
    BY <2>1 DEF IInv, Shape, DiskShape, CacheShape
<1>3. Hands'
  <2>1. /\ UNCHANGED <<scanner, watcher>>
        /\ priority' = Woken \/ priority' = priority
    BY DEF Calls, IndexTouchFolder, IndexRescan, IndexDrivesChanged, IndexSetPaused
  <2> QED
    BY <2>1, WokenShape DEF IInv, Shape, Hands
<1>4. Queued'
  <2>1. ASSUME NEW p \in Folder, IndexTouchFolder(p) PROVE Queued'
    <3>1. Append(queues.priorityFolders, p) \in Seq(Folder)
      BY DEF IInv, Shape, Queued, QueuesType
    <3> QED
      BY <3>1, <2>1 DEF IInv, Shape, IndexTouchFolder, Queued, QueuesType
  <2>2. CASE IndexRescan
    BY <2>2 DEF IInv, Shape, IndexRescan, Queued
  <2>3. CASE IndexDrivesChanged
    BY <2>3 DEF IInv, Shape, IndexDrivesChanged, Queued
  <2>4. CASE IndexSetPaused
    BY <2>4 DEF IInv, Shape, IndexSetPaused, Queued
  <2> QED
    BY <2>1, <2>2, <2>3, <2>4 DEF Calls
<1> QED
  BY <1>1, <1>2, <1>3, <1>4 DEF IInv, Shape

LEMMA StopKeeps == IInv /\ (BeginStop \/ JoinThreads \/ SaveAndReturn) => IInv'
<1> SUFFICES ASSUME IInv, BeginStop \/ JoinThreads \/ SaveAndReturn PROVE IInv'
  OBVIOUS
<1>1. StoreShape' /\ Clean'
  BY StoreStays DEF BeginStop, JoinThreads, SaveAndReturn
<1>2. DiskShape'
  BY DEF IInv, Shape, BeginStop, JoinThreads, SaveAndReturn, outside, DiskShape
<1>3. CacheShape'
  BY SavedShape DEF IInv, Shape, BeginStop, JoinThreads, SaveAndReturn, CacheShape
<1>4. Queued'
  <2>1. UNCHANGED <<queues, wants>> /\ (events' = events \/ events' = <<>>)
    BY DEF BeginStop, JoinThreads, SaveAndReturn, outside
  <2> QED
    <3>1. events \in Seq(ChangeRecord) /\ <<>> \in Seq(ChangeRecord)
      BY DEF IInv, Shape, Queued
    <3> QED
      BY <2>1, <3>1 DEF IInv, Shape, Queued
<1>5. Hands'
  BY WokenShape DEF IInv, Shape, BeginStop, JoinThreads, SaveAndReturn, threads, Hands, WatcherPc
<1> QED
  BY <1>1, <1>2, <1>3, <1>4, <1>5 DEF IInv, Shape

LEMMA RestartKeeps == IInv /\ Restart => IInv'
<1> SUFFICES ASSUME IInv, Restart PROVE IInv'
  OBVIOUS
<1>1. StoreShape' /\ Clean'
  BY Spellings DEF Restart, NoLists, StoreShape, Clean, Linked, Listed
<1>2. DiskShape' /\ CacheShape'
  BY IndexAssumption DEF IInv, Shape, Restart, DiskShape, CacheShape
<1>3. Queued'
  BY DEF Restart, Queued, QueuesType, NoQueues, NoWants
<1>4. Hands'
  BY NoHeldOpened, IdleShape, IndexAssumption
     DEF Restart, Hands, NewWatcher, NewPriority, PriorityType, PriorityPc, ScannerPc, WatcherPc
<1> QED
  BY <1>1, <1>2, <1>3, <1>4 DEF IInv, Shape

\* What every change on the disk leaves in shape.
LEMMA ChangesKeep ==
  ASSUME IInv, NEW records \in Seq(ChangeRecord),
         NEW touched, NEW gone, Changes(records, touched, gone),
         disk' \in [Folder -> [id : 0..MaxId, photos : SUBSET Photo]]
  PROVE  IInv'
<1>1. StoreShape' /\ Clean'
  BY StoreStays DEF Changes
<1>2. Hands' /\ CacheShape'
  BY DEF IInv, Shape, Changes, threads, Hands, CacheShape
<1>3. Queued'
  <2>1. events \in Seq(ChangeRecord) /\ events \o records \in Seq(ChangeRecord)
    BY DEF IInv, Shape, Queued
  <2>2. <<[kind |-> "overflow", path |-> Root]>> \in Seq(ChangeRecord)
    <3>1. [kind |-> "overflow", path |-> Root] \in ChangeRecord
      BY IndexAssumption DEF ChangeRecord
    <3> QED
      BY <3>1
  <2>3. events' \in Seq(ChangeRecord)
    BY <2>1, <2>2 DEF Changes, Report
  <2> QED
    BY <2>3 DEF IInv, Shape, Changes, Queued
<1>4. used' \in [ids : Nat, changes : Nat, calls : Nat, starts : Nat, missed : BOOLEAN]
  <2> DEFINE b == used.missed \/ watcher.pc \notin {"on", "drop"}
             n == IF \E p \in Folder : disk'[p].id = used.ids + 1 THEN used.ids + 1 ELSE used.ids
  <2>1. b \in BOOLEAN /\ n \in Nat /\ used.changes + 1 \in Nat
    BY DEF IInv, Shape, DiskShape
  <2>2. used' = [used EXCEPT !.changes = @ + 1, !.missed = b, !.ids = n]
    BY DEF Changes
  <2> HIDE DEF b, n
  <2> QED
    BY <2>1, <2>2 DEF IInv, Shape, DiskShape
<1> QED
  BY <1>1, <1>2, <1>3, <1>4 DEF IInv, Shape, DiskShape, Changes

LEMMA FileSystemKeeps == IInv /\ FileSystem => IInv'
<1> SUFFICES ASSUME IInv, NEW p \in Folder,
                    \/ ChangePhotos(p) \/ MakeFolder(p) \/ DeleteFolder(p)
                    \/ \E q \in Folder : RenameFolder(p, q)
             PROVE  IInv'
  BY DEF FileSystem
<1>1. /\ disk \in [Folder -> [id : 0..MaxId, photos : SUBSET Photo]]
      /\ used.ids \in Nat
  BY DEF IInv, Shape, DiskShape
<1>2. Nothing \in [id : 0..MaxId, photos : SUBSET Photo]
  BY StoreAssumption DEF Nothing
<1>3. CASE ChangePhotos(p)
  <2>1. PICK new \in SUBSET Photo : disk' = [disk EXCEPT ![p].photos = new]
    BY <1>3 DEF ChangePhotos
  <2>3. disk' \in [Folder -> [id : 0..MaxId, photos : SUBSET Photo]]
    BY <2>1, <1>1
  <2>4. Changes(<<Record("file", p)>>, {p}, {})
    BY <1>3 DEF ChangePhotos
  <2> QED
    BY <2>3, <2>4, RecordsShape, ChangesKeep
<1>4. CASE MakeFolder(p)
  <2>1. PICK new \in SUBSET Photo : disk' = [disk EXCEPT ![p] = [id |-> used.ids + 1, photos |-> new]]
    BY <1>4 DEF MakeFolder
  <2>2. used.ids + 1 \in 0..MaxId
    BY <1>4, <1>1, StoreAssumption DEF MakeFolder
  <2>3. disk' \in [Folder -> [id : 0..MaxId, photos : SUBSET Photo]]
    BY <2>1, <2>2, <1>1
  <2>4. Changes(<<Record("added", p)>>, {p}, {})
    BY <1>4 DEF MakeFolder
  <2> QED
    BY <2>3, <2>4, RecordsShape, ChangesKeep
<1>5. CASE DeleteFolder(p)
  <2>1. disk' = [disk EXCEPT ![p] = Nothing] /\ Changes(<<Record("removed", p)>>, {}, {p})
    BY <1>5 DEF DeleteFolder
  <2>2. disk' \in [Folder -> [id : 0..MaxId, photos : SUBSET Photo]]
    BY <2>1, <1>1, <1>2 DEF Nothing
  <2> QED
    BY <2>1, <2>2, RecordsShape, ChangesKeep
<1>6. ASSUME NEW q \in Folder, RenameFolder(p, q) PROVE IInv'
  <2>1. /\ disk' = [disk EXCEPT ![q] = disk[p], ![p] = Nothing]
        /\ Changes(<<Record("removed", p), Record("added", q)>>, {q}, {p})
    BY <1>6 DEF RenameFolder
  <2>2. disk' \in [Folder -> [id : 0..MaxId, photos : SUBSET Photo]]
    BY <2>1, <1>1, <1>2 DEF Nothing
  <2> QED
    BY <2>1, <2>2, RecordsShape, ChangesKeep
<1> QED
  BY <1>3, <1>4, <1>5, <1>6
-----------------------------------------------------------------------------
(* The theorem.                                                             *)

LEMMA StutterKeeps == IInv /\ UNCHANGED vars => IInv'
<1> SUFFICES ASSUME IInv, UNCHANGED vars PROVE IInv'
  OBVIOUS
<1>1. StoreShape' /\ Clean'
  BY StoreStays DEF vars
<1> QED
  BY <1>1 DEF IInv, Shape, vars, DiskShape, Hands, Queued, CacheShape

THEOREM Invariance == Spec => []IInv
<1>1. Init => IInv
  BY InitInv
<1>2. IInv /\ [Next]_vars => IInv'
  <2> SUFFICES ASSUME IInv, [Next]_vars PROVE IInv'
    OBVIOUS
  <2>1. CASE Scanner
    BY <2>1, LoadKeeps, ReadyKeeps, SpawnKeeps, BeginKeeps, WalkKeeps, VerifyKeeps,
       DirtyKeeps, IdentifyKeeps, StoreHeldKeeps, SaveKeeps, WorkKeeps DEF Scanner
  <2>2. CASE FileSystem
    BY <2>2, FileSystemKeeps
  <2>3. CASE Calls \/ BeginStop \/ JoinThreads \/ SaveAndReturn \/ Restart
    BY <2>3, CallsKeep, StopKeeps, RestartKeeps
  <2> QED
    BY <2>1, <2>2, <2>3, PriorityKeeps, WatcherKeeps, StutterKeeps DEF Next
<1> QED
  BY <1>1, <1>2, PTL DEF Spec

\* StoredIsListed, of StoreFolder, RemoveFolder and LoadCache called by three
\* threads in any order, on a disk that changes, through restarts and crashes.
THEOREM StoredListed == Spec => []StoredIsListed
<1>1. IInv => StoredIsListed
  BY DEF IInv, Clean, StoredIsListed
<1> QED
  BY <1>1, Invariance, PTL
-----------------------------------------------------------------------------
(* Queues without repetition.                                               *)

LEMMA TailLists ==
  ASSUME NEW S, NEW s \in Seq(S), s # <<>>, IsInjective(s)
  PROVE  /\ Head(s) \in ToSet(s) /\ ToSet(Tail(s)) = ToSet(s) \ {Head(s)}
         /\ IsInjective(Tail(s))
<1> DEFINE len == Len(s)
           t == Tail(s)
<1>1. len \in Nat \ {0} /\ DOMAIN s = 1..len /\ Head(s) = s[1]
  OBVIOUS
<1>2. DOMAIN t = 1..len - 1 /\ \A i \in 1..len - 1 : t[i] = s[i + 1]
  OBVIOUS
<1>3. \A i, j \in 1..len : s[i] = s[j] => i = j
  BY <1>1 DEF IsInjective
<1> HIDE DEF len, t
<1>4. IsInjective(t)
  <2> SUFFICES ASSUME NEW i \in 1..len - 1, NEW j \in 1..len - 1, t[i] = t[j] PROVE i = j
    BY <1>2 DEF IsInjective
  <2>1. i + 1 \in 1..len /\ j + 1 \in 1..len
    BY <1>1
  <2>2. i + 1 = j + 1
    BY <1>2, <1>3, <2>1
  <2> QED BY <2>2
<1>5. ToSet(t) \subseteq ToSet(s) \ {Head(s)}
  <2> SUFFICES ASSUME NEW i \in 1..len - 1 PROVE t[i] \in ToSet(s) \ {Head(s)}
    BY <1>2 DEF ToSet
  <2>1. i + 1 \in 1..len /\ 1 \in 1..len /\ i + 1 # 1
    BY <1>1
  <2> QED BY <1>1, <1>2, <1>3, <2>1 DEF ToSet
<1>6. ToSet(s) \ {Head(s)} \subseteq ToSet(t)
  <2> SUFFICES ASSUME NEW i \in 1..len, s[i] # s[1] PROVE s[i] \in ToSet(t)
    BY <1>1 DEF ToSet
  <2>1. i - 1 \in 1..len - 1 /\ (i - 1) + 1 = i
    BY <1>1
  <2>2. t[i - 1] = s[i]
    BY <1>2, <2>1
  <2> QED BY <1>2, <2>1, <2>2 DEF ToSet
<1>7. Head(s) \in ToSet(s)
  BY <1>1 DEF ToSet
<1> QED BY <1>4, <1>5, <1>6, <1>7 DEF t

LEMMA AppendLists ==
  ASSUME NEW S, NEW s \in Seq(S), NEW p \in S
  PROVE  /\ ToSet(Append(s, p)) = ToSet(s) \cup {p}
         /\ p \notin ToSet(s) /\ IsInjective(s) => IsInjective(Append(s, p))
<1> DEFINE len == Len(s)
           t == Append(s, p)
<1>1. len \in Nat /\ DOMAIN s = 1..len
  OBVIOUS
<1>2. DOMAIN t = 1..len + 1 /\ t[len + 1] = p /\ \A i \in 1..len : t[i] = s[i]
  OBVIOUS
<1> HIDE DEF len, t
<1>3. \A i \in 1..len + 1 : i = len + 1 \/ i \in 1..len
  BY <1>1
<1>4. len + 1 \in 1..len + 1 /\ 1..len \subseteq 1..len + 1
  BY <1>1
<1>5. ToSet(t) = ToSet(s) \cup {p}
  BY <1>1, <1>2, <1>3, <1>4 DEF ToSet
<1>6. ASSUME p \notin ToSet(s), IsInjective(s) PROVE IsInjective(t)
  <2>1. \A i \in 1..len : s[i] # p
    BY <1>1, <1>6 DEF ToSet
  <2> QED BY <1>1, <1>2, <1>3, <1>6, <2>1 DEF IsInjective
<1> QED BY <1>5, <1>6 DEF t

LEMMA NoneListed == ToSet(<<>>) = {} /\ IsInjective(<<>>)
BY DEF ToSet, IsInjective

Matched(q) == q.dirtyPending = ToSet(q.dirtyFolders) /\ IsInjective(q.dirtyFolders)

LEMMA MarkDirtyMatches ==
  ASSUME NEW q \in QueuesType, Matched(q), NEW p \in Spelling
  PROVE  /\ Matched(MarkDirty(q, p))
         /\ MarkDirty(q, p).dirtyPending = q.dirtyPending \cup {p}
         /\ MarkDirty(q, p).priorityFolders = q.priorityFolders
<1>1. CASE p \in q.dirtyPending
  BY <1>1 DEF MarkDirty
<1>2. CASE p \notin q.dirtyPending
  <2>1. q.dirtyFolders \in Seq(Spelling)
    BY DEF QueuesType
  <2>2. /\ MarkDirty(q, p).dirtyPending = q.dirtyPending \cup {p}
        /\ MarkDirty(q, p).dirtyFolders = Append(q.dirtyFolders, p)
        /\ MarkDirty(q, p).priorityFolders = q.priorityFolders
    BY <1>2 DEF MarkDirty, QueuesType
  <2> QED BY <1>2, <2>1, <2>2, AppendLists DEF Matched
<1> QED BY <1>1, <1>2

\* What one record leaves pending.
LEMMA MarkedMatches ==
  ASSUME NEW q \in QueuesType, Matched(q), NEW e \in ChangeRecord
  PROVE  /\ Matched(Marked(q, e))
         /\ q.dirtyPending \subseteq Marked(q, e).dirtyPending
         /\ e.kind = "file" \/ (e.kind = "added" /\ Here(e.path)) =>
              SpelledByWatcher(e.path) \in Marked(q, e).dirtyPending
         /\ Marked(q, e).priorityFolders = q.priorityFolders
<1> DEFINE parent == SpelledByWatcher(IF e.kind = "file" THEN e.path ELSE Root)
           m == MarkDirty(q, parent)
           n == MarkDirty(m, e.path)
<1>1. /\ parent \in Spelling /\ e.path \in Spelling
      /\ e.kind \in {"file", "added", "removed", "overflow"}
      /\ SpelledByWatcher(e.path) \in {e.path, parent}
  BY Spellings, WatcherSpells DEF ChangeRecord, SpelledByWatcher
<1>2. /\ e.kind \in {"file", "removed"} => Marked(q, e) = m
      /\ e.kind = "added" => Marked(q, e) = IF Here(e.path) THEN n ELSE q
      /\ e.kind = "overflow" => Marked(q, e) = q
      /\ e.kind = "file" => SpelledByWatcher(e.path) = parent
  BY DEF Marked
<1> HIDE DEF parent
<1>3. /\ m \in QueuesType /\ Matched(m) /\ m.dirtyPending = q.dirtyPending \cup {parent}
      /\ m.priorityFolders = q.priorityFolders
  BY <1>1, MarkDirtyShape, MarkDirtyMatches
<1> HIDE DEF m
<1>4. /\ Matched(n) /\ n.dirtyPending = m.dirtyPending \cup {e.path}
      /\ n.priorityFolders = m.priorityFolders
  BY <1>1, <1>3, MarkDirtyMatches
<1> HIDE DEF n
<1> QED BY <1>1, <1>2, <1>3, <1>4

\* What a step may do to the queues.
LEMMA QueueSteps ==
  ASSUME IInv, Next
  PROVE  \/ UNCHANGED queues
         \/ queues' = NoQueues
         \/ TakeWork /\ queues.dirtyFolders # <<>>
         \/ WatcherMarks
         \/ PriorityTest /\ queues.priorityFolders # <<>> /\ queues' = [queues EXCEPT !.priorityFolders = Tail(@)]
         \/ \E p \in Folder : IndexTouchFolder(p)
<1>1. CASE Scanner
  BY <1>1 DEF Scanner, ScannerLoad, ScannerReady, SpawnWatchers, BeginPass, WalkFolder,
     VerifyFolder, LookAtDirty, LookAgain, ScannerIdentify, StoreHeld, TruncateCache, SaveCache, TakeWork, ScannerExit
<1>2. CASE Priority
  BY <1>2 DEF Priority, PriorityTest, PriorityPark, PriorityLook, PriorityIdentify, PriorityStore, PriorityMark,
     PrioritySteps
<1>3. CASE Watcher
  BY <1>3 DEF Watcher, WatcherOpens, WatcherDrops
<1>4. CASE Calls
  BY <1>4 DEF Calls, IndexRescan, IndexDrivesChanged, IndexSetPaused
<1>5. CASE BeginStop \/ JoinThreads \/ SaveAndReturn \/ Restart
  BY <1>5 DEF BeginStop, JoinThreads, SaveAndReturn, Restart
<1>6. CASE FileSystem
  BY <1>6 DEF FileSystem, ChangePhotos, MakeFolder, DeleteFolder, RenameFolder, Changes
<1> QED BY <1>1, <1>2, <1>3, <1>4, <1>5, <1>6 DEF Next

LEMMA MatchedStep ==
  ASSUME IInv, Matched(queues), Next
  PROVE  Matched(queues)'
<1> USE DEF Matched
<1>1. queues \in QueuesType
  BY DEF IInv, Shape, Queued
<1>2. CASE UNCHANGED queues
  BY <1>2
<1>3. CASE queues' = NoQueues
  BY <1>3, NoneListed DEF NoQueues
<1>4. CASE TakeWork /\ queues.dirtyFolders # <<>>
  <2> DEFINE dirty == queues.dirtyFolders
  <2>1. queues' = [queues EXCEPT !.dirtyFolders = Tail(dirty), !.dirtyPending = @ \ {Head(dirty)}]
    BY <1>4 DEF TakeWork
  <2>2. dirty \in Seq(Spelling)
    BY <1>1 DEF QueuesType
  <2>3. queues'.dirtyFolders = Tail(dirty) /\ queues'.dirtyPending = queues.dirtyPending \ {Head(dirty)}
    BY <1>1, <2>1 DEF QueuesType
  <2> QED BY <1>4, <2>2, <2>3, TailLists
<1>5. CASE WatcherMarks
  <2>1. Head(events) \in ChangeRecord /\ queues' = Marked(queues, Head(events))
    BY <1>5 DEF WatcherMarks, IInv, Shape, Queued
  <2>2. Matched(Marked(queues, Head(events)))
    BY <1>1, <2>1, MarkedMatches
  <2> QED BY <2>1, <2>2
<1>6. CASE queues' = [queues EXCEPT !.priorityFolders = Tail(@)]
  BY <1>1, <1>6 DEF QueuesType
<1>7. CASE \E p \in Folder : IndexTouchFolder(p)
  <2>1. PICK p \in Folder : queues' = [queues EXCEPT !.priorityFolders = Append(@, p)]
    BY <1>7 DEF IndexTouchFolder
  <2> QED BY <1>1, <2>1 DEF QueuesType
<1> QED BY <1>2, <1>3, <1>4, <1>5, <1>6, <1>7, QueueSteps

LEMMA MatchedInvariance == Spec => []Matched(queues)
<1>1. Init => Matched(queues)
  BY NoneListed DEF Init, NoQueues, Matched
<1>2. IInv /\ Matched(queues) /\ [Next]_vars => Matched(queues)'
  BY MatchedStep DEF vars, Matched
<1> QED BY <1>1, <1>2, Invariance, PTL DEF Spec

\* The queue of folders to look at again and the set beside it agree whatever
\* the watcher marks while the scanner takes (MarkDirtyLocked, ScannerLoop).
THEOREM PendingQueued == Spec => []PendingIsQueued
<1>1. Matched(queues) => PendingIsQueued
  BY DEF Matched, PendingIsQueued
<1> QED BY <1>1, MatchedInvariance, PTL
-----------------------------------------------------------------------------
(* Folders being opened.  One in hand has left the queue.                   *)

InHand(p) == priority.pc \in {"look", "identify", "store", "mark"} /\ priority.held.path = p
ServedShape ==
  /\ TouchedIsServed
  /\ \A p \in Folder : InHand(p) => p \notin ToSet(queues.priorityFolders)

TakesFolder ==
  /\ priority.pc = "test" /\ queues.priorityFolders # <<>>
  /\ priority' = [pc |-> "look", held |-> [NoHeld EXCEPT !.path = Head(queues.priorityFolders)]]
  /\ queues' = [queues EXCEPT !.priorityFolders = Tail(@)]
  /\ UNCHANGED folderStates

LEMMA WokenHolds == \A p : InHand(p) <=> Woken.pc \in {"look", "identify", "store", "mark"} /\ Woken.held.path = p
BY DEF InHand, Woken

\* The steps the opening of a folder consists of; no other has a part in it.
LEMMA ServingSteps ==
  ASSUME IInv, Next
  PROVE  \/ /\ queues'.priorityFolders = queues.priorityFolders /\ UNCHANGED folderStates
            /\ \A p : InHand(p)' <=> InHand(p)
         \/ TakesFolder \/ PriorityMark \/ Restart
         \/ \E p \in Folder : IndexTouchFolder(p)
<1>1. priority \in PriorityType /\ queues \in QueuesType
  BY DEF IInv, Shape, Hands, Queued
<1>2. ASSUME UNCHANGED folderStates, priority' = priority \/ priority' = Woken,
             queues'.priorityFolders = queues.priorityFolders
      PROVE  /\ queues'.priorityFolders = queues.priorityFolders /\ UNCHANGED folderStates
             /\ \A p : InHand(p)' <=> InHand(p)
  BY <1>2, WokenHolds DEF InHand
<1>3. CASE Scanner
  <2>1. UNCHANGED folderStates /\ (priority' = priority \/ priority' = Woken)
    BY <1>3 DEF Scanner, ScannerLoad, ScannerReady, SpawnWatchers, BeginPass, WalkFolder,
       VerifyFolder, LookAtDirty, LookAgain, ScannerIdentify, StoreHeld, TruncateCache, SaveCache, TakeWork, ScannerExit
  <2>2. queues'.priorityFolders = queues.priorityFolders
    <3>1. CASE TakeWork
      BY <1>1, <3>1 DEF TakeWork, QueuesType
    <3>2. CASE ~TakeWork
      BY <1>3, <3>2 DEF Scanner, ScannerLoad, ScannerReady, SpawnWatchers, BeginPass, WalkFolder,
         VerifyFolder, LookAtDirty, LookAgain, ScannerIdentify, StoreHeld, TruncateCache, SaveCache, ScannerExit
    <3> QED BY <3>1, <3>2
  <2> QED BY <1>2, <2>1, <2>2
<1>4. CASE Watcher
  <2>1. UNCHANGED folderStates /\ (priority' = priority \/ priority' = Woken)
    BY <1>4 DEF Watcher, WatcherOpens, WatcherMarks, WatcherDrops
  <2>2. queues'.priorityFolders = queues.priorityFolders
    <3>1. CASE WatcherMarks
      <4> DEFINE e == Head(events)
      <4>1. e \in ChangeRecord /\ queues' = Marked(queues, e)
        BY <3>1 DEF WatcherMarks, IInv, Shape, Queued
      <4> HIDE DEF e
      <4> DEFINE parent == SpelledByWatcher(IF e.kind = "file" THEN e.path ELSE Root)
      <4>2. ASSUME NEW q \in QueuesType, NEW p \in Spelling
            PROVE  MarkDirty(q, p) \in QueuesType /\ MarkDirty(q, p).priorityFolders = q.priorityFolders
        BY <4>2, MarkDirtyShape DEF MarkDirty, QueuesType
      <4>3. parent \in Spelling /\ e.path \in Spelling /\ e.kind \in {"file", "added", "removed", "overflow"}
        BY <4>1, Spellings, WatcherSpells DEF ChangeRecord
      <4>4. Marked(queues, e) \in {queues, MarkDirty(queues, parent),
                                   MarkDirty(MarkDirty(queues, parent), e.path)}
        BY <4>3 DEF Marked
      <4> HIDE DEF parent
      <4> QED BY <1>1, <4>1, <4>2, <4>3, <4>4
    <3>2. CASE ~WatcherMarks
      BY <1>4, <3>2 DEF Watcher, WatcherOpens, WatcherDrops
    <3> QED BY <3>1, <3>2
  <2> QED BY <1>2, <2>1, <2>2
<1>5. CASE Calls
  BY <1>2, <1>5 DEF Calls, IndexRescan, IndexDrivesChanged, IndexSetPaused
<1>6. CASE BeginStop \/ JoinThreads \/ SaveAndReturn
  <2>1. UNCHANGED <<folderStates, queues>> /\ (priority' = priority \/ priority' = Woken)
    BY <1>6 DEF BeginStop, JoinThreads, SaveAndReturn, threads
  <2> QED BY <1>2, <2>1
<1>7. CASE FileSystem
  <2>1. UNCHANGED <<folderStates, queues, priority>>
    BY <1>7 DEF FileSystem, ChangePhotos, MakeFolder, DeleteFolder, RenameFolder, Changes, threads
  <2> QED BY <1>2, <2>1
<1>8. CASE Priority
  <2>1. CASE PriorityTest
    <3>1. CASE ~Stopping /\ cacheReady /\ queues.priorityFolders # <<>>
      BY <2>1, <3>1 DEF PriorityTest, TakesFolder
    <3>2. CASE ~(~Stopping /\ cacheReady /\ queues.priorityFolders # <<>>)
      <4>1. UNCHANGED <<queues, folderStates>> /\ priority.pc = "test"
            /\ (priority' = [priority EXCEPT !.pc = "park"] \/ priority' = [priority EXCEPT !.pc = "exited"])
        BY <2>1, <3>2 DEF PriorityTest
      <4> QED BY <1>1, <4>1 DEF InHand, PriorityType
    <3> QED BY <3>1, <3>2
  <2>2. CASE PriorityPark
    BY <1>1, <2>2 DEF PriorityPark, PrioritySteps, InHand, PriorityType
  <2>3. CASE PriorityLook
    <3>1. UNCHANGED <<queues, folderStates>> /\ priority.pc = "look"
          /\ priority'.pc \in {"identify", "store"} /\ priority'.held.path = priority.held.path
      BY <2>3 DEF PriorityLook, PrioritySteps, ScanOneFolder, AfterListing
    <3> QED BY <3>1 DEF InHand
  <2>5. CASE PriorityIdentify
    <3>1. UNCHANGED <<queues, folderStates>> /\ priority.pc = "identify" /\ priority'.pc = "store"
          /\ priority'.held.path = priority.held.path
      <4>1. priority.held \in Held
        BY <1>1 DEF PriorityType, Opened
      <4> QED BY <2>5, <4>1 DEF PriorityIdentify, PrioritySteps, Identified, Held
    <3> QED BY <3>1 DEF InHand
  <2>4. CASE PriorityStore
    <3>1. UNCHANGED <<queues, folderStates>> /\ priority.pc = "store" /\ priority'.pc = "mark"
          /\ priority'.held = priority.held
      BY <1>1, <2>4 DEF PriorityStore, PrioritySteps, PriorityType
    <3> QED BY <3>1 DEF InHand
  <2> QED BY <1>8, <2>1, <2>2, <2>3, <2>4, <2>5 DEF Priority
<1> QED BY <1>3, <1>4, <1>5, <1>6, <1>7, <1>8 DEF Next

LEMMA ServedStep ==
  ASSUME IInv, ServedShape, folderStates \in [Folder -> {"Unknown", "Indexing", "Ready", "Error"}], Next
  PROVE  ServedShape' /\ folderStates' \in [Folder -> {"Unknown", "Indexing", "Ready", "Error"}]
<1> DEFINE wanted == queues.priorityFolders
<1>1. wanted \in Seq(Folder) /\ queues \in QueuesType /\ priority \in PriorityType
  BY DEF IInv, Shape, Hands, Queued, QueuesType
<1>2. /\ \A p \in Folder : folderStates[p] = "Indexing" <=> p \in ToSet(wanted) \/ InHand(p)
      /\ \A p \in Folder : InHand(p) => p \notin ToSet(wanted)
      /\ IsInjective(wanted)
  BY DEF ServedShape, TouchedIsServed, InHand
<1>3. SUFFICES
        /\ \A p \in Folder : folderStates'[p] = "Indexing" <=> p \in ToSet(wanted') \/ InHand(p)'
        /\ \A p \in Folder : InHand(p)' => p \notin ToSet(wanted')
        /\ IsInjective(wanted')
        /\ folderStates' \in [Folder -> {"Unknown", "Indexing", "Ready", "Error"}]
  BY DEF ServedShape, TouchedIsServed, InHand
<1>4. CASE /\ wanted' = wanted /\ UNCHANGED folderStates
           /\ \A p : InHand(p)' <=> InHand(p)
  BY <1>2, <1>4
<1>5. CASE TakesFolder
  <2>1. wanted' = Tail(wanted) /\ UNCHANGED folderStates
    BY <1>1, <1>5 DEF TakesFolder, QueuesType
  <2>2. Head(wanted) \in Folder
    BY <1>1, <1>5 DEF TakesFolder
  <2>3. \A p \in Folder : ~InHand(p) /\ (InHand(p)' <=> p = Head(wanted))
    BY <1>5 DEF TakesFolder, InHand, NoHeld
  <2>4. /\ Head(wanted) \in ToSet(wanted) /\ ToSet(wanted') = ToSet(wanted) \ {Head(wanted)}
        /\ IsInjective(wanted')
    BY <1>1, <1>2, <1>5, <2>1, TailLists DEF TakesFolder
  <2> HIDE DEF wanted
  <2> QED BY <1>2, <2>1, <2>2, <2>3, <2>4
<1>6. CASE PriorityMark
  <2> DEFINE h == priority.held.path
  <2>1. /\ wanted' = wanted /\ priority.pc = "mark" /\ priority'.pc = "test"
        /\ folderStates' = [folderStates EXCEPT ![h] = IF Here(h) THEN "Ready" ELSE "Error"]
    BY <1>6 DEF PriorityMark, PrioritySteps
  <2>2. h \in Folder
    BY <1>1 DEF PriorityType, Opened
  <2>3. \A p \in Folder : ~InHand(p)' /\ (InHand(p) <=> p = h)
    BY <2>1 DEF InHand
  <2> HIDE DEF wanted, h
  <2> QED BY <1>2, <2>1, <2>2, <2>3
<1>7. CASE Restart
  BY <1>7, NoneListed DEF Restart, NoQueues, NoStates, NewPriority, InHand
<1>8. CASE \E p \in Folder : IndexTouchFolder(p)
  <2>1. PICK q \in Folder : IndexTouchFolder(q)
    BY <1>8
  <2>2. /\ folderStates[q] # "Indexing" /\ folderStates' = [folderStates EXCEPT ![q] = "Indexing"]
        /\ queues' = [queues EXCEPT !.priorityFolders = Append(@, q)] /\ priority' = Woken
    BY <2>1 DEF IndexTouchFolder
  <2>3. wanted' = Append(wanted, q)
    BY <1>1, <2>2 DEF QueuesType
  <2>4. \A p \in Folder : InHand(p)' <=> InHand(p)
    BY <2>2, WokenHolds DEF InHand
  <2>5. q \notin ToSet(wanted) /\ ~InHand(q)
    BY <1>2, <2>2
  <2>6. ToSet(wanted') = ToSet(wanted) \cup {q} /\ IsInjective(wanted')
    BY <1>1, <1>2, <2>3, <2>5, AppendLists
  <2> HIDE DEF wanted
  <2> QED BY <1>2, <2>2, <2>4, <2>5, <2>6
<1> QED BY <1>4, <1>5, <1>6, <1>7, <1>8, ServingSteps

Served == ServedShape /\ folderStates \in [Folder -> {"Unknown", "Indexing", "Ready", "Error"}]

LEMMA ServedInvariance == Spec => []Served
<1>1. Init => Served
  BY NoneListed DEF Init, NoQueues, NoStates, NewPriority, Served, ServedShape, TouchedIsServed, InHand
<1>2. IInv /\ Served /\ [Next]_vars => Served'
  <2> SUFFICES ASSUME IInv, Served, [Next]_vars PROVE Served'
    OBVIOUS
  <2>1. CASE Next
    BY <2>1, ServedStep DEF Served
  <2>2. CASE UNCHANGED vars
    BY <2>2 DEF vars, Served, ServedShape, TouchedIsServed, InHand
  <2> QED BY <2>1, <2>2
<1> QED BY <1>1, <1>2, Invariance, PTL DEF Spec

\* A folder shown as being indexed is queued, once, or in hand, and will be
\* marked; one that is not can be asked for again (IndexTouchFolder).
THEOREM TouchedServed == Spec => []TouchedIsServed
<1>1. Served => TouchedIsServed
  BY DEF Served, ServedShape
<1> QED BY <1>1, ServedInvariance, PTL
-----------------------------------------------------------------------------
(* Changes the watcher saw.  What leads the scanner to a folder is handed   *)
(* from the record to the queue or the flag, and from there to the pass or  *)
(* the targeted look that reads the folder.                                 *)

Recorded(p) == \E k \in 1..Len(events) :
  \/ events[k].kind = "overflow"
  \/ events[k].kind \in {"file", "added"} /\ events[k].path = p
InPass(p) ==
  \/ scanner.full
  \/ /\ scanner.job = "rebuild" /\ scanner.pc \in {"begin", "look", "identify", "store"}
     /\ scanner.pc = "begin" \/ {Root, p} \cap scanner.todo # {}
  \/ scanner.job = "dirty" /\ scanner.todo = {SpelledByWatcher(p)}
Led(p) == SpelledByWatcher(p) \in queues.dirtyPending \/ Recorded(p) \/ wants.full \/ InPass(p)

PassShape ==
  /\ scanner.full => scanner.job = "dirty"
  /\ scanner.job = "dirty" => scanner.pc \in {"look", "identify", "store"}
  /\ scanner.job = "dirty" /\ scanner.todo # {} => scanner.pc = "look"
OwedShape ==
  /\ PassShape
  /\ owed \subseteq Folder /\ \A p \in owed : Here(p)
  /\ phase = "running" => \A p \in owed \ Excluded : Led(p)

\* What a turn of the loop goes on with.
LEMMA ThenLeads ==
  ASSUME NEW s \in ScannerType
  PROVE  /\ Then(s).full = FALSE /\ Then(s).job # "dirty"
         /\ s.full => Then(s).job = "rebuild" /\ Then(s).pc = "begin"
<1>1. /\ Idle("begin") \in ScannerType /\ Idle("spawn") \in ScannerType
      /\ Idle("wait") \in ScannerType
  BY IdleShape DEF ScannerPc
<1>2. \A pc : Idle(pc).full = FALSE /\ Idle(pc).job = "none" /\ Idle(pc).pc = pc
  BY DEF Idle
<1>3. CASE s.full
  BY <1>1, <1>2, <1>3 DEF Then, ScannerType
<1>4. CASE ~s.full
  BY <1>1, <1>2, <1>4 DEF Then, ScannerType
<1> QED BY <1>3, <1>4

LEMMA PassShapeStep ==
  ASSUME IInv, PassShape, Next
  PROVE  PassShape'
<1> USE DEF PassShape
<1>1. scanner \in ScannerType
  BY DEF IInv, Shape, Hands
<1>2. CASE UNCHANGED scanner
  BY <1>2
<1>3. ASSUME NEW s \in ScannerType, scanner' = Then(s) PROVE PassShape'
  BY <1>3, ThenLeads
<1>4. CASE ScannerLoad \/ ScannerReady \/ SpawnWatchers \/ BeginPass \/ TruncateCache
  BY <1>1, <1>4 DEF ScannerLoad, ScannerReady, SpawnWatchers, BeginPass, TruncateCache, ScannerType
<1>5. CASE WalkFolder
  <2>1. /\ scanner.job \in {"walk", "rebuild"} /\ scanner'.job = scanner.job
        /\ scanner'.full = scanner.full
    BY <1>1, <1>5 DEF WalkFolder, ScannerType
  <2> QED BY <2>1
<1>6. CASE VerifyFolder
  <2>1. scanner.job = "verify" /\ scanner'.job = scanner.job /\ scanner'.full = scanner.full
    BY <1>1, <1>6 DEF VerifyFolder, LookAgain, ScannerType
  <2> QED BY <2>1
<1>7. CASE LookAtDirty
  <2>1. /\ scanner.job = "dirty" /\ scanner'.job = "dirty" /\ scanner'.pc \in {"identify", "store"}
        /\ scanner'.todo = {}
    BY <1>1, <1>7 DEF LookAtDirty, LookAgain, AfterListing, ScannerType
  <2> QED BY <2>1
<1>14. CASE ScannerIdentify
  <2>1. /\ scanner.pc = "identify" /\ scanner'.pc = "store"
        /\ UNCHANGED <<scanner.job, scanner.todo, scanner.full>>
    BY <1>1, <1>14 DEF ScannerIdentify, ScannerType
  <2> QED BY <2>1
<1>8. CASE StoreHeld
  <2>1. CASE scanner.job = "dirty"
    BY <1>1, <1>3, <1>8, <2>1 DEF StoreHeld
  <2>2. CASE scanner.job # "dirty"
    BY <1>1, <1>8, <2>2 DEF StoreHeld, ScannerType
  <2> QED BY <2>1, <2>2
<1>9. CASE SaveCache
  BY <1>1, <1>3, <1>9 DEF SaveCache
<1>10. CASE TakeWork
  <2> DEFINE flagged == [Idle("wait") EXCEPT !.full = wants.full, !.rescan = wants.rescan,
                                             !.drives = wants.drives]
             dirty == queues.dirtyFolders
  <2>1. flagged \in ScannerType
    BY IdleShape DEF IInv, Shape, Queued, ScannerType, ScannerPc
  <2>2. CASE dirty # <<>>
    <3>1. scanner' = [flagged EXCEPT !.pc = "look", !.job = "dirty", !.todo = {Head(dirty)}]
      BY <1>10, <2>2 DEF TakeWork
    <3> HIDE DEF flagged
    <3>2. scanner'.pc = "look" /\ scanner'.job = "dirty"
      BY <2>1, <3>1 DEF ScannerType
    <3> QED BY <3>2
  <2>3. CASE dirty = <<>>
    <3>1. scanner' = Then(flagged)
      BY <1>10, <2>3 DEF TakeWork
    <3> HIDE DEF flagged
    <3> QED BY <1>3, <2>1, <3>1
  <2> QED BY <2>2, <2>3
<1>11. CASE ScannerExit \/ Restart
  BY <1>11 DEF ScannerExit, Restart, Idle
<1>12. CASE Priority \/ Watcher \/ Calls \/ BeginStop \/ JoinThreads \/ SaveAndReturn
  BY <1>2, <1>12 DEF Priority, PriorityTest, PriorityPark, PriorityLook, PriorityIdentify, PriorityStore, PriorityMark,
     PrioritySteps, Watcher, WatcherOpens, WatcherMarks, WatcherDrops, Calls, IndexTouchFolder,
     IndexRescan, IndexDrivesChanged, IndexSetPaused, Calling, BeginStop, JoinThreads,
     SaveAndReturn, threads
<1>13. CASE FileSystem
  BY <1>2, <1>13 DEF FileSystem, ChangePhotos, MakeFolder, DeleteFolder, RenameFolder, Changes, threads
<1> QED BY <1>4, <1>5, <1>6, <1>7, <1>8, <1>9, <1>10, <1>11, <1>12, <1>13, <1>14
    DEF Next, Scanner

\* The scanner's steps.
LEMMA ScannerLeads ==
  ASSUME IInv, OwedShape, Scanner, PassShape',
         phase = "running", NEW p \in owed' \ Excluded
  PROVE  Led(p)'
<1>1. scanner \in ScannerType /\ queues \in QueuesType
  BY DEF IInv, Shape, Hands, Queued
<1>2. PassShape
  BY DEF OwedShape
<1>3. (events' = events /\ owed' \subseteq owed) \/ owed' = {}
  BY DEF Scanner, ScannerLoad, ScannerReady, SpawnWatchers, BeginPass, WalkFolder,
     VerifyFolder, LookAtDirty, LookAgain, ScannerIdentify, StoreHeld, TruncateCache, SaveCache, TakeWork, ScannerExit, outside
<1>4. Led(p) /\ events' = events /\ Here(p) /\ p \in Folder
  BY <1>3 DEF OwedShape
<1>5. scanner.pc \notin {"begin", "look", "identify", "store"} => ~InPass(p)
  BY <1>2 DEF PassShape, InPass
<1>6. Recorded(p) => Led(p)'
  BY <1>4 DEF Led, Recorded
<1>7. CASE TakeWork
  <2> DEFINE flagged == [Idle("wait") EXCEPT !.full = wants.full, !.rescan = wants.rescan,
                                             !.drives = wants.drives]
             dirty == queues.dirtyFolders
  <2>1. flagged \in ScannerType /\ flagged.full = wants.full
    BY IdleShape DEF IInv, Shape, Queued, ScannerType, ScannerPc, Idle
  <2>2. CASE dirty # <<>>
    <3>1. /\ scanner' = [flagged EXCEPT !.pc = "look", !.job = "dirty", !.todo = {Head(dirty)}]
          /\ queues' = [queues EXCEPT !.dirtyFolders = Tail(dirty),
                                      !.dirtyPending = @ \ {Head(dirty)}]
      BY <1>7, <2>2 DEF TakeWork
    <3>2. queues'.dirtyPending = queues.dirtyPending \ {Head(dirty)}
      BY <1>1, <3>1 DEF QueuesType
    <3>3. scanner'.job = "dirty" /\ scanner'.todo = {Head(dirty)} /\ scanner'.full = wants.full
      <4> HIDE DEF flagged, dirty
      <4> QED BY <2>1, <3>1 DEF ScannerType
    <3>4. ~InPass(p)
      BY <1>5, <1>7 DEF TakeWork
    <3> QED BY <1>4, <1>6, <3>2, <3>3, <3>4 DEF Led, InPass
  <2>3. CASE dirty = <<>>
    <3>1. scanner' = Then(flagged) /\ queues' = queues
      BY <1>7, <2>3 DEF TakeWork
    <3>2. wants.full => scanner'.job = "rebuild" /\ scanner'.pc = "begin"
      <4> HIDE DEF flagged
      <4> QED BY <2>1, <3>1, ThenLeads
    <3>3. ~InPass(p)
      BY <1>5, <1>7 DEF TakeWork
    <3> QED BY <1>4, <1>6, <3>1, <3>2, <3>3 DEF Led, InPass
  <2> QED BY <2>2, <2>3
<1>15. ~TakeWork => UNCHANGED <<queues, wants>>
  BY DEF Scanner, ScannerLoad, ScannerReady, SpawnWatchers, BeginPass, WalkFolder,
     VerifyFolder, LookAtDirty, LookAgain, ScannerIdentify, StoreHeld, TruncateCache, SaveCache, ScannerExit
<1> SUFFICES ASSUME ~TakeWork PROVE InPass(p) => InPass(p)'
  BY <1>4, <1>6, <1>7, <1>15 DEF Led
<1>8. CASE ScannerLoad \/ ScannerReady \/ SpawnWatchers \/ SaveCache \/ ScannerExit
  BY <1>5, <1>8 DEF ScannerLoad, ScannerReady, SpawnWatchers, SaveCache, ScannerExit
<1>9. CASE BeginPass
  <2>1. /\ scanner.pc = "begin" /\ scanner'.pc = "look" /\ scanner'.job = scanner.job
        /\ scanner.job = "rebuild" => scanner'.todo = {Root}
    BY <1>1, <1>9 DEF BeginPass, ScannerType
  <2> QED BY <1>2, <2>1 DEF PassShape, InPass
<1>10. CASE WalkFolder
  <2>1. PICK q \in scanner.todo :
          /\ scanner' = [scanner EXCEPT !.todo = (@ \ {q}) \cup Subfolders(q),
                           !.pc = IF ScanOneFolder(q, TRUE).photos = {} THEN "look" ELSE "identify",
                           !.held = IF ScanOneFolder(q, TRUE).photos = {} THEN NoHeld
                                    ELSE ScanOneFolder(q, TRUE)]
          /\ owed' = owed \ {q}
    BY <1>10 DEF WalkFolder
  <2>2. /\ scanner'.todo = (scanner.todo \ {q}) \cup Subfolders(q)
        /\ scanner'.pc \in {"look", "identify"} /\ scanner'.job = scanner.job
        /\ scanner.job # "dirty"
    BY <1>1, <1>10, <2>1 DEF WalkFolder, ScannerType
  <2>3. p # q /\ (q = Root => p \in Subfolders(q))
    BY <1>4, <2>1 DEF Subfolders
  <2>4. {Root, p} \cap scanner.todo # {} => {Root, p} \cap scanner'.todo # {}
    BY <2>2, <2>3
  <2>5. InPass(p) => scanner.job = "rebuild" /\ (scanner.pc = "begin" \/ {Root, p} \cap scanner.todo # {})
    BY <1>2, <2>2 DEF PassShape, InPass
  <2>6. scanner.pc = "look"
    BY <1>10 DEF WalkFolder
  <2> QED BY <2>2, <2>4, <2>5, <2>6 DEF InPass
<1>11. CASE VerifyFolder
  BY <1>1, <1>2, <1>11 DEF VerifyFolder, PassShape, InPass
<1>12. CASE LookAtDirty
  <2>1. PICK q \in scanner.todo :
          scanner'.full = scanner.full /\ owed' = owed \ {Lists(q)}
    BY <1>1, <1>12 DEF LookAtDirty, LookAgain, ScannerType
  <2>2. scanner.job = "dirty" /\ q # SpelledByWatcher(p)
    BY <1>4, <1>12, <2>1, WatcherSpells DEF LookAtDirty
  <2> QED BY <2>1, <2>2 DEF InPass
<1>16. CASE ScannerIdentify
  <2>1. /\ scanner.pc = "identify" /\ scanner'.pc = "store"
        /\ UNCHANGED <<scanner.job, scanner.todo, scanner.full>>
    BY <1>1, <1>16 DEF ScannerIdentify, ScannerType
  <2> QED BY <1>2, <2>1 DEF PassShape, InPass
<1>13. CASE StoreHeld
  <2>1. CASE scanner.job = "dirty"
    <3>1. scanner' = Then(scanner) /\ scanner.todo = {}
      BY <1>2, <1>13, <2>1 DEF StoreHeld, PassShape
    <3>2. scanner.full => scanner'.job = "rebuild" /\ scanner'.pc = "begin"
      BY <1>1, <3>1, ThenLeads
    <3> QED BY <2>1, <3>1, <3>2 DEF InPass
  <2>2. CASE scanner.job # "dirty"
    <3>1. /\ scanner'.pc = "look" /\ scanner'.job = scanner.job /\ scanner'.todo = scanner.todo
          /\ scanner.pc = "store"
      BY <1>1, <1>13, <2>2 DEF StoreHeld, ScannerType
    <3> QED BY <1>2, <2>2, <3>1 DEF PassShape, InPass
  <2> QED BY <2>1, <2>2
<1>14. CASE TruncateCache
  BY <1>2, <1>14 DEF TruncateCache, Stopping, PassShape, InPass
<1> QED BY <1>8, <1>9, <1>10, <1>11, <1>12, <1>13, <1>14, <1>16 DEF Scanner

\* The watcher hands on what the first record says.
LEMMA WatcherLeads ==
  ASSUME IInv, Matched(queues), OwedShape, Watcher, phase = "running", NEW p \in owed' \ Excluded
  PROVE  Led(p)'
<1>1. UNCHANGED <<owed, scanner, disk>>
  BY DEF Watcher, WatcherOpens, WatcherMarks, WatcherDrops, outside
<1>2. Led(p) /\ Here(p)
  BY <1>1 DEF OwedShape
<1>3. CASE WatcherOpens \/ WatcherDrops
  BY <1>1, <1>2, <1>3 DEF WatcherOpens, WatcherDrops, outside, Led, Recorded, InPass
<1>4. CASE WatcherMarks
  <2> DEFINE e == Head(events)
  <2>1. events \in Seq(ChangeRecord) /\ events # <<>> /\ queues \in QueuesType
    BY <1>4 DEF WatcherMarks, IInv, Shape, Queued
  <2>2. /\ queues' = Marked(queues, e) /\ events' = Tail(events)
        /\ wants' = [wants EXCEPT !.full = @ \/ e.kind = "overflow"]
    BY <1>4 DEF WatcherMarks
  <2>3. e \in ChangeRecord /\ e = events[1]
    BY <2>1
  <2>4. wants'.full = (wants.full \/ e.kind = "overflow")
    BY <2>2 DEF IInv, Shape, Queued
  <2>5. /\ queues.dirtyPending \subseteq queues'.dirtyPending
        /\ e.kind = "file" \/ (e.kind = "added" /\ Here(e.path)) =>
             SpelledByWatcher(e.path) \in queues'.dirtyPending
    BY <2>1, <2>2, <2>3, MarkedMatches
  <2>6. Recorded(p) => Led(p)'
    <3>1. SUFFICES ASSUME NEW k \in 1..Len(events),
                          \/ events[k].kind = "overflow"
                          \/ events[k].kind \in {"file", "added"} /\ events[k].path = p
                   PROVE  Led(p)'
      BY DEF Recorded
    <3>2. CASE k = 1
      BY <1>2, <2>3, <2>4, <2>5, <3>1, <3>2 DEF Led
    <3>3. CASE k # 1
      <4> DEFINE len == Len(events)
      <4>1. /\ len \in Nat /\ len # 0 /\ Len(events') = len - 1
            /\ \A i \in 1..len - 1 : events'[i] = events[i + 1]
        BY <2>1, <2>2
      <4>2. k - 1 \in 1..Len(events') /\ (k - 1) + 1 = k
        <5> HIDE DEF len
        <5> QED BY <3>3, <4>1 DEF len
      <4>3. events'[k - 1] = events[k]
        BY <4>1, <4>2
      <4>4. Recorded(p)'
        BY <3>1, <4>2, <4>3 DEF Recorded
      <4> QED BY <4>4 DEF Led
    <3> QED BY <3>2, <3>3
  <2> QED BY <1>1, <1>2, <2>4, <2>5, <2>6 DEF Led, InPass
<1> QED BY <1>3, <1>4 DEF Watcher

\* What changes is recorded, together with what was before it or instead.
LEMMA ChangeLeads ==
  ASSUME IInv, OwedShape, phase = "running",
         NEW records \in Seq(ChangeRecord), NEW touched, NEW gone,
         Changes(records, touched, gone),
         \A q \in touched : \E k \in 1..Len(records) :
           records[k].kind \in {"file", "added"} /\ records[k].path = q,
         NEW p \in owed' \ Excluded
  PROVE  Led(p)'
<1>1. /\ UNCHANGED <<scanner, queues, wants>> /\ Report(records)
      /\ owed' = (owed \ gone) \cup (IF watcher.pc \in {"on", "drop"} THEN touched ELSE {})
  BY DEF Changes, threads
<1>2. events \in Seq(ChangeRecord)
  BY DEF IInv, Shape, Queued
<1>3. CASE events' = <<[kind |-> "overflow", path |-> Root]>>
  <2>1. 1 \in 1..Len(events') /\ events'[1].kind = "overflow"
    BY <1>3
  <2> QED BY <2>1 DEF Led, Recorded
<1>4. CASE watcher.pc \notin {"on", "drop"}
  BY <1>1, <1>4 DEF Report, OwedShape, Led, Recorded, InPass
<1>5. CASE watcher.pc \in {"on", "drop"} /\ events' = events \o records
  <2> DEFINE m == Len(events)
             n == Len(records)
  <2>1. /\ m \in Nat /\ n \in Nat /\ Len(events') = m + n
        /\ \A i \in 1..m + n : events'[i] = IF i <= m THEN events[i] ELSE records[i - m]
    BY <1>2, <1>5
  <2>2. CASE p \in touched
    <3>1. PICK k \in 1..n : records[k].kind \in {"file", "added"} /\ records[k].path = p
      BY <2>2
    <3> HIDE DEF m, n
    <3>2. m + k \in 1..m + n /\ ~(m + k <= m) /\ (m + k) - m = k
      BY <2>1
    <3>3. events'[m + k] = records[k]
      BY <2>1, <3>2
    <3>4. m + k \in 1..Len(events')
      BY <2>1, <3>2
    <3> QED BY <3>1, <3>3, <3>4 DEF Led, Recorded
  <2>3. CASE p \notin touched
    <3>1. Led(p)
      BY <1>1, <2>3 DEF OwedShape
    <3>2. \A k \in 1..m : k \in 1..m + n /\ k <= m
      BY <2>1
    <3>3. \A k \in 1..m : k \in 1..Len(events') /\ events'[k] = events[k]
      BY <2>1, <3>2
    <3>4. Recorded(p) => Recorded(p)'
      BY <3>3 DEF Recorded
    <3> QED BY <1>1, <3>1, <3>4 DEF Led, InPass
  <2> QED BY <2>2, <2>3
<1> QED BY <1>1, <1>3, <1>4, <1>5 DEF Report

\* A folder that left is owed nothing, one that changed is there.
LEMMA OwedStep ==
  ASSUME IInv, OwedShape, Next
  PROVE  owed' \subseteq Folder /\ \A p \in owed' : Here(p)'
<1>1. owed \subseteq Folder /\ \A p \in owed : Here(p)
  BY DEF OwedShape
<1>2. CASE disk' = disk /\ owed' \subseteq owed
  BY <1>1, <1>2 DEF Here
<1>3. CASE Scanner
  <2>1. disk' = disk /\ owed' \subseteq owed
    BY <1>3 DEF Scanner, ScannerLoad, ScannerReady, SpawnWatchers, BeginPass, WalkFolder,
       VerifyFolder, LookAtDirty, LookAgain, ScannerIdentify, StoreHeld, TruncateCache, SaveCache, TakeWork, ScannerExit, outside
  <2> QED BY <1>2, <2>1
<1>4. CASE Priority \/ Watcher \/ Calls
  <2>1. disk' = disk /\ owed' = owed
    BY <1>4 DEF Priority, PriorityTest, PriorityPark, PriorityLook, PriorityIdentify, PriorityStore, PriorityMark,
       PrioritySteps, Watcher, WatcherOpens, WatcherMarks, WatcherDrops, Calls, IndexTouchFolder,
       IndexRescan, IndexDrivesChanged, IndexSetPaused, Calling, outside
  <2> QED BY <1>2, <2>1
<1>5. CASE BeginStop \/ JoinThreads \/ SaveAndReturn \/ Restart
  <2>1. disk' = disk /\ owed' \subseteq owed
    BY <1>5 DEF BeginStop, JoinThreads, SaveAndReturn, Restart, outside
  <2> QED BY <1>2, <2>1
<1>6. CASE FileSystem
  <2>1. disk \in [Folder -> [id : 0..MaxId, photos : SUBSET Photo]] /\ used.ids \in Nat
    BY DEF IInv, Shape, DiskShape
  <2>2. ASSUME NEW records, NEW touched \in SUBSET Folder, NEW gone, Changes(records, touched, gone),
               \A q \in touched : Here(q)', \A q \in Folder \ gone : Here(q) => Here(q)'
        PROVE  owed' \subseteq Folder /\ \A p \in owed' : Here(p)'
    BY <1>1, <2>2 DEF Changes
  <2>3. PICK p \in Folder : \/ ChangePhotos(p) \/ MakeFolder(p) \/ DeleteFolder(p)
                           \/ \E q \in Folder : RenameFolder(p, q)
    BY <1>6 DEF FileSystem
  <2>4. CASE ChangePhotos(p)
    <3>1. PICK new : disk' = [disk EXCEPT ![p].photos = new]
      BY <2>4 DEF ChangePhotos
    <3>2. \A q \in Folder : disk'[q].id = disk[q].id
      BY <2>1, <3>1
    <3>3. Here(p)' /\ \A q \in Folder : Here(q) => Here(q)'
      BY <2>4, <3>2 DEF ChangePhotos, Here
    <3> QED BY <2>2, <2>4, <3>3 DEF ChangePhotos
  <2>5. CASE MakeFolder(p)
    <3>1. PICK new : disk' = [disk EXCEPT ![p] = [id |-> used.ids + 1, photos |-> new]]
      BY <2>5 DEF MakeFolder
    <3>2. disk'[p].id # 0 /\ \A q \in Folder : q # p => disk'[q] = disk[q]
      BY <2>1, <3>1
    <3>3. Here(p)' /\ \A q \in Folder : Here(q) => Here(q)'
      BY <3>2 DEF Here
    <3> QED BY <2>2, <2>5, <3>3 DEF MakeFolder
  <2>6. CASE DeleteFolder(p)
    <3>1. \A q \in Folder \ {p} : Here(q) => Here(q)'
      BY <2>1, <2>6 DEF DeleteFolder, Here
    <3> QED BY <2>2, <2>6, <3>1 DEF DeleteFolder
  <2>7. ASSUME NEW q \in Folder, RenameFolder(p, q)
        PROVE  owed' \subseteq Folder /\ \A f \in owed' : Here(f)'
    <3>1. p # q /\ Here(p) /\ disk' = [disk EXCEPT ![q] = disk[p], ![p] = Nothing]
      BY <2>7 DEF RenameFolder
    <3>2. disk'[q] = disk[p] /\ \A f \in Folder \ {p, q} : disk'[f] = disk[f]
      BY <2>1, <3>1
    <3>3. Here(q)' /\ \A f \in Folder \ {p} : Here(f) => Here(f)'
      BY <3>1, <3>2 DEF Here
    <3> QED BY <2>2, <2>7, <3>3 DEF RenameFolder
  <2> QED BY <2>3, <2>4, <2>5, <2>6, <2>7
<1> QED BY <1>3, <1>4, <1>5, <1>6 DEF Next

LEMMA FileSystemLeads ==
  ASSUME IInv, OwedShape, FileSystem, phase = "running", NEW p \in owed' \ Excluded
  PROVE  Led(p)'
<1>1. PICK q \in Folder : \/ ChangePhotos(q) \/ MakeFolder(q) \/ DeleteFolder(q)
                         \/ \E r \in Folder : RenameFolder(q, r)
  BY DEF FileSystem
<1>2. ASSUME NEW kind, NEW f PROVE Record(kind, f).kind = kind /\ Record(kind, f).path = f
  BY DEF Record
<1>3. ASSUME NEW records \in Seq(ChangeRecord), NEW touched, NEW gone, Changes(records, touched, gone),
             \A f \in touched : \E k \in 1..Len(records) :
               records[k].kind \in {"file", "added"} /\ records[k].path = f
      PROVE  Led(p)'
  BY <1>3, ChangeLeads
<1>4. CASE ChangePhotos(q)
  <2> DEFINE records == <<Record("file", q)>>
  <2>1. records \in Seq(ChangeRecord) /\ Changes(records, {q}, {})
    BY <1>4, RecordsShape DEF ChangePhotos
  <2>2. 1 \in 1..Len(records) /\ records[1].kind = "file" /\ records[1].path = q
    BY <1>2
  <2> HIDE DEF records
  <2> QED BY <1>3, <2>1, <2>2
<1>5. CASE MakeFolder(q)
  <2> DEFINE records == <<Record("added", q)>>
  <2>1. records \in Seq(ChangeRecord) /\ Changes(records, {q}, {})
    BY <1>5, RecordsShape DEF MakeFolder
  <2>2. 1 \in 1..Len(records) /\ records[1].kind = "added" /\ records[1].path = q
    BY <1>2
  <2> HIDE DEF records
  <2> QED BY <1>3, <2>1, <2>2
<1>6. CASE DeleteFolder(q)
  <2> DEFINE records == <<Record("removed", q)>>
  <2>1. records \in Seq(ChangeRecord) /\ Changes(records, {}, {q})
    BY <1>6, RecordsShape DEF DeleteFolder
  <2> HIDE DEF records
  <2> QED BY <1>3, <2>1
<1>7. ASSUME NEW r \in Folder, RenameFolder(q, r) PROVE Led(p)'
  <2> DEFINE records == <<Record("removed", q), Record("added", r)>>
  <2>1. records \in Seq(ChangeRecord) /\ Changes(records, {r}, {q})
    BY <1>7, RecordsShape DEF RenameFolder
  <2>2. 2 \in 1..Len(records) /\ records[2].kind = "added" /\ records[2].path = r
    BY <1>2
  <2> HIDE DEF records
  <2> QED BY <1>3, <2>1, <2>2
<1> QED BY <1>1, <1>4, <1>5, <1>6, <1>7

\* The other actions leave everything that leads to a folder alone.
LEMMA OthersLead ==
  ASSUME IInv, OwedShape, Next, ~Scanner, ~Watcher, ~FileSystem, phase' = "running",
         NEW p \in owed' \ Excluded
  PROVE  Led(p)'
<1>1. ~BeginStop /\ ~JoinThreads /\ ~SaveAndReturn /\ ~Restart
  BY DEF BeginStop, JoinThreads, SaveAndReturn, Restart
<1>2. CASE Priority
  <2>1. UNCHANGED <<owed, events, scanner, wants, phase>>
    BY <1>2 DEF Priority, PriorityTest, PriorityPark, PriorityLook, PriorityIdentify, PriorityStore, PriorityMark,
       PrioritySteps, outside
  <2>2. queues'.dirtyPending = queues.dirtyPending
    <3>1. queues \in QueuesType
      BY DEF IInv, Shape, Queued
    <3> QED BY <1>2, <3>1 DEF Priority, PriorityTest, PriorityPark, PriorityLook,
            PriorityIdentify, PriorityStore, PriorityMark, PrioritySteps, QueuesType
  <2> QED BY <2>1, <2>2 DEF OwedShape, Led, Recorded, InPass
<1>3. CASE Calls
  <2>1. UNCHANGED <<owed, events, scanner, phase>>
    BY <1>3 DEF Calls, IndexTouchFolder, IndexRescan, IndexDrivesChanged, IndexSetPaused, Calling
  <2>2. queues'.dirtyPending = queues.dirtyPending /\ wants'.full = wants.full
    <3>1. queues \in QueuesType /\ wants \in [full : BOOLEAN, rescan : BOOLEAN, drives : BOOLEAN]
      BY DEF IInv, Shape, Queued
    <3> QED BY <1>3, <3>1 DEF Calls, IndexTouchFolder, IndexRescan, IndexDrivesChanged,
            IndexSetPaused, QueuesType
  <2> QED BY <2>1, <2>2 DEF OwedShape, Led, Recorded, InPass
<1> QED BY <1>1, <1>2, <1>3 DEF Next

LEMMA OwedInvariance == Spec => []OwedShape
<1>1. Init => OwedShape
  BY DEF Init, OwedShape, PassShape, Idle
<1>2. IInv /\ Matched(queues) /\ OwedShape /\ [Next]_vars => OwedShape'
  <2> SUFFICES ASSUME IInv, Matched(queues), OwedShape, [Next]_vars PROVE OwedShape'
    OBVIOUS
  <2>1. CASE UNCHANGED vars
    BY <2>1 DEF vars, OwedShape, PassShape, Led, Recorded, InPass, Here
  <2>2. CASE Next
    <3>1. PassShape' /\ owed' \subseteq Folder /\ \A p \in owed' : Here(p)'
      BY <2>2, PassShapeStep, OwedStep DEF OwedShape
    <3>2. ASSUME phase' = "running", NEW p \in owed' \ Excluded PROVE Led(p)'
      <4>1. CASE Scanner
        <5>1. phase = "running"
          BY <3>2, <4>1 DEF Scanner, ScannerLoad, ScannerReady, SpawnWatchers, BeginPass, WalkFolder,
             VerifyFolder, LookAtDirty, LookAgain, ScannerIdentify, StoreHeld, TruncateCache, SaveCache, TakeWork, ScannerExit
        <5> QED BY <3>1, <3>2, <4>1, <5>1, ScannerLeads
      <4>2. CASE Watcher
        <5>1. phase = "running"
          BY <3>2, <4>2 DEF Watcher, WatcherOpens, WatcherMarks, WatcherDrops
        <5> QED BY <3>2, <4>2, <5>1, WatcherLeads
      <4>3. CASE FileSystem
        <5>1. phase = "running"
          BY <3>2, <4>3 DEF FileSystem, ChangePhotos, MakeFolder, DeleteFolder, RenameFolder, Changes
        <5> QED BY <3>2, <4>3, <5>1, FileSystemLeads
      <4> QED BY <2>2, <3>2, <4>1, <4>2, <4>3, OthersLead
    <3> QED BY <3>1, <3>2 DEF OwedShape
  <2> QED BY <2>1, <2>2
<1> QED BY <1>1, <1>2, Invariance, MatchedInvariance, PTL DEF Spec

\* Whatever the scanner, the watcher and the disk do in between, a change the
\* watcher was told of is on its way to being looked at (MarkDirtyLocked,
\* ScannerLoop, WalkTree).
THEOREM ReportedIsPending == Spec => []ReportedChangeIsPending
<1>1. IInv /\ OwedShape => ReportedChangeIsPending
  <2> SUFFICES ASSUME IInv, OwedShape PROVE ReportedChangeIsPending
    OBVIOUS
  <2>1. DOMAIN events = 1..Len(events)
    BY DEF IInv, Shape, Queued
  <2> QED BY <2>1 DEF OwedShape, Led, Recorded, InPass, ReportedChangeIsPending
<1> QED BY <1>1, Invariance, OwedInvariance, PTL
-----------------------------------------------------------------------------
(* The photographs kept and the count of them.                              *)

Counts(photos) == [p \in Spelling |-> Cardinality(photos[p])]
KeptOf(photos) == Total(Counts(photos), Spelling)

LEMMA SpellingsAreFinite == IsFiniteSet(Spelling) /\ IsFiniteSet(Identity)
<1>1. IsFiniteSet(Id)
  <2>1. 1 \in Int /\ MaxId \in Int
    BY StoreAssumption
  <2> QED BY <2>1, FS_Interval DEF Id
<1>2. IsFiniteSet(Folder) /\ IsFiniteSet({Alias})
  BY IndexAssumption, FS_Singleton
<1>3. IsFiniteSet(Spelling)
  BY <1>2, FS_Union DEF Spelling
<1> QED BY <1>1, <1>3, FS_Union DEF Identity

LEMMA PhotosAreFinite ==
  ASSUME NEW S \in SUBSET Photo PROVE IsFiniteSet(S) /\ Cardinality(S) \in Nat
BY StoreAssumption, FS_Subset, FS_CardinalityType

LEMMA CountsAreNat ==
  ASSUME NEW photos \in [Spelling -> SUBSET Photo]
  PROVE  Counts(photos) \in [Spelling -> Nat] /\ KeptOf(photos) \in Nat
<1> DEFINE f == Counts(photos)
<1>1. f \in [Spelling -> Nat]
  BY PhotosAreFinite DEF Counts
<1> HIDE DEF f
<1>2. Spelling \in SUBSET Spelling /\ \A p \in Spelling : f[p] \in Nat
  BY <1>1
<1>3. Total(f, Spelling) \in Nat
  BY <1>2, SpellingsAreFinite, TotalIsNat
<1> QED BY <1>1, <1>3 DEF f, KeptOf

LEMMA FoldIsKept ==
  ASSUME NEW photos
  PROVE  MapThenSumSet(LAMBDA p : Cardinality(photos[p]), Spelling) = KeptOf(photos)
<1> DEFINE Iterates(g) ==
             g = [s \in SUBSET Spelling |-> IF s = {} THEN 0
                                  ELSE Cardinality(photos[FirstOf(s)]) + g[s \ {FirstOf(s)}]]
           g == CHOOSE g : Iterates(g)
           f == Counts(photos)
<1>1. MapThenSumSet(LAMBDA p : Cardinality(photos[p]), Spelling) = g[Spelling]
  BY DEF MapThenSumSet, MapThenFoldSet, FirstOf
<1>2. \A k : Iterates(k) <=> Sums(k, f, Spelling)
  <2>1. \A s \in SUBSET Spelling : s # {} => f[FirstOf(s)] = Cardinality(photos[FirstOf(s)])
    BY DEF Counts, FirstOf
  <2> QED BY <2>1 DEF Sums
<1>3. Spelling \in SUBSET Spelling
  OBVIOUS
<1>4. Sums(g, f, Spelling)
  <2>1. Sums(SumsOf(f, Spelling), f, Spelling)
    BY <1>3, SpellingsAreFinite, SumsExist
  <2> HIDE DEF Iterates, f
  <2> QED BY <1>2, <2>1
<1> HIDE DEF g, f
<1>5. g[Spelling] = Total(f, Spelling)
  BY <1>3, <1>4, SpellingsAreFinite, FoldIsTotal
<1> QED BY <1>1, <1>5 DEF f, KeptOf

LEMMA KeptNow == Kept = KeptOf(photosByFolder)
BY FoldIsKept DEF Kept

LEMMA KeptIsTotal == Kept = KeptOf(photosByFolder) /\ Kept' = KeptOf(photosByFolder')
<1>1. (Kept = KeptOf(photosByFolder))'
  BY KeptNow, PTL
<1> QED BY <1>1, KeptNow

\* A new listing for one folder.
LEMMA OneRelisted ==
  ASSUME NEW photos \in [Spelling -> SUBSET Photo], NEW p \in Spelling, NEW found \in SUBSET Photo
  PROVE  /\ [photos EXCEPT ![p] = found] \in [Spelling -> SUBSET Photo]
         /\ KeptOf([photos EXCEPT ![p] = found])
              = KeptOf(photos) - Cardinality(photos[p]) + Cardinality(found)
<1> DEFINE new == [photos EXCEPT ![p] = found]
           f == Counts(photos)
           e == Counts(new)
<1>1. new \in [Spelling -> SUBSET Photo] /\ new[p] = found /\ \A q \in Spelling \ {p} : new[q] = photos[q]
  OBVIOUS
<1> HIDE DEF new
<1>2. /\ f[p] = Cardinality(photos[p]) /\ e[p] = Cardinality(found)
      /\ \A q \in Spelling \ {p} : f[q] = e[q]
  BY <1>1 DEF Counts
<1>3. \A q \in Spelling : f[q] \in Nat /\ e[q] \in Nat
  BY <1>1, CountsAreNat
<1>4. KeptOf(photos) = Total(f, Spelling) /\ KeptOf(new) = Total(e, Spelling)
  BY DEF KeptOf
<1>5. KeptOf(photos) \in Nat /\ KeptOf(new) \in Nat
  BY <1>1, CountsAreNat
<1> HIDE DEF f, e
<1>6. Total(e, Spelling) - e[p] = Total(f, Spelling) - f[p]
  BY <1>2, <1>3, SpellingsAreFinite, TotalWithOneChanged
<1> DEFINE after == KeptOf(new)
           before == KeptOf(photos)
           fp == f[p]
           ep == e[p]
<1>7. /\ after \in Nat /\ before \in Nat /\ fp \in Nat /\ ep \in Nat
      /\ after - ep = before - fp
  BY <1>3, <1>4, <1>5, <1>6
<1>8. after = before - fp + ep
  <2> HIDE DEF after, before, fp, ep
  <2> QED BY <1>7
<1> QED BY <1>1, <1>2, <1>8 DEF new

LEMMA RemoveFolderCounts ==
  ASSUME StoreShape, knownPhotos \in Int, NEW p \in Spelling, RemoveFolder(p)
  PROVE  knownPhotos' \in Int /\ knownPhotos' - Kept' = knownPhotos - Kept
<1> DEFINE before == KeptOf(photosByFolder)
           after == KeptOf(photosByFolder')
           was == Cardinality(photosByFolder[p])
<1>1. photosByFolder \in [Spelling -> SUBSET Photo] /\ {} \in SUBSET Photo
  BY DEF StoreShape
<1>2. after = before - was + Cardinality({})
  BY <1>1, OneRelisted DEF RemoveFolder
<1>3. was \in Nat /\ before \in Nat /\ Cardinality({}) = 0
  BY <1>1, PhotosAreFinite, CountsAreNat, FS_EmptySet
<1>4. knownPhotos' = knownPhotos - was /\ Kept = before /\ Kept' = after
  BY KeptIsTotal DEF RemoveFolder
<1> HIDE DEF before, after, was
<1> QED BY <1>2, <1>3, <1>4

LEMMA StoreFolderCounts ==
  ASSUME StoreShape, knownPhotos \in Int, NEW p \in Spelling, NEW i \in Identity,
         NEW found \in SUBSET Photo, current \in Folder, StoreFolder(p, i, found)
  PROVE  knownPhotos' \in Int /\ knownPhotos' - Kept' = knownPhotos - Kept
<1> DEFINE was == folderIdByPath[p]
           unlisted == IF was # i THEN Without(folders, was) ELSE folders
           former == Former(unlisted, p, i)
           photos == [q \in Spelling |-> IF q \in former THEN {} ELSE photosByFolder[q]]
           dropped == UNION {photosByFolder[q] : q \in former}
           keep == found # {} /\ p \notin Technical
           new == IF keep THEN found ELSE {}
<1>1. /\ photosByFolder' = [photos EXCEPT ![p] = new]
      /\ knownPhotos' = knownPhotos - Cardinality(dropped) - Cardinality(photos[p])
                          + IF keep THEN Cardinality(found) ELSE 0
  BY DEF StoreFolder
<1>2. photosByFolder \in [Spelling -> SUBSET Photo] /\ Cardinality({}) = 0
  BY FS_EmptySet DEF StoreShape
<1>3. former \in SUBSET Spelling /\ \A q, r \in former : q = r
  <2>1. unlisted \in [Identity -> Spelling \cup {"none"}]
    BY Spellings DEF StoreShape, Without
  <2> HIDE DEF unlisted
  <2> QED BY <2>1, Spellings DEF Former, NormalisePath
<1>4. new \in SUBSET Photo /\ (IF keep THEN Cardinality(found) ELSE 0) = Cardinality(new)
  BY <1>2
<1> HIDE DEF former, keep, new
<1> DEFINE middle == KeptOf(photos)
           before == KeptOf(photosByFolder)
           gone == Cardinality(dropped)
<1>5. /\ photos \in [Spelling -> SUBSET Photo] /\ dropped \in SUBSET Photo
      /\ middle = before - gone
  <2>1. photos \in [Spelling -> SUBSET Photo] /\ dropped \in SUBSET Photo
    BY <1>2, <1>3
  <2>2. CASE former = {}
    <3>1. photos = photosByFolder /\ dropped = {}
      BY <2>2, <1>2
    <3>2. middle = before /\ gone = 0
      BY <3>1, <1>2
    <3>3. before \in Nat
      BY <1>2, CountsAreNat
    <3> HIDE DEF middle, before, gone
    <3> QED BY <2>1, <3>2, <3>3
  <2>3. CASE former # {}
    <3>1. PICK q \in former : former = {q}
      BY <2>3, <1>3
    <3>2. photos = [photosByFolder EXCEPT ![q] = {}] /\ dropped = photosByFolder[q]
      BY <3>1, <1>2, <1>3
    <3>3. middle = before - gone + Cardinality({})
      <4>1. q \in Spelling /\ {} \in SUBSET Photo
        BY <3>1, <1>3
      <4>2. KeptOf([photosByFolder EXCEPT ![q] = {}])
              = KeptOf(photosByFolder) - Cardinality(photosByFolder[q]) + Cardinality({})
        BY <4>1, <1>2, OneRelisted
      <4> QED BY <3>2, <4>2
    <3>4. before \in Nat /\ gone \in Nat
      BY <1>2, <2>1, CountsAreNat, PhotosAreFinite
    <3> HIDE DEF middle, before, gone
    <3> QED BY <2>1, <3>3, <3>4, <1>2
  <2> QED BY <2>2, <2>3
<1> HIDE DEF photos, dropped
<1> DEFINE after == KeptOf(photosByFolder')
           old == Cardinality(photos[p])
           fresh == Cardinality(new)
<1>6. after = middle - old + fresh
  BY <1>1, <1>4, <1>5, OneRelisted
<1>7. old \in Nat /\ fresh \in Nat /\ middle \in Nat /\ gone \in Nat /\ before \in Nat
  BY <1>2, <1>4, <1>5, CountsAreNat, PhotosAreFinite
<1>8. knownPhotos' = knownPhotos - gone - old + fresh /\ Kept = before /\ Kept' = after
  BY <1>1, <1>4, KeptIsTotal
<1> HIDE DEF after, middle, before, gone, old, fresh
<1> QED BY <1>5, <1>6, <1>7, <1>8

\* Nothing kept.
LEMMA NoneKept == KeptOf([p \in Spelling |-> {}]) = 0
<1> DEFINE f == Counts([p \in Spelling |-> {}])
<1>1. \A p \in Spelling : f[p] = 0
  BY FS_EmptySet DEF Counts
<1>2. Spelling \in SUBSET Spelling
  OBVIOUS
<1> HIDE DEF f
<1>3. Total(f, Spelling) = 0
  BY <1>1, <1>2, SpellingsAreFinite, TotalOfZeros
<1> QED BY <1>3 DEF f, KeptOf

\* The lines of the cache file: a path named twice is kept once and counted
\* twice, so that the count may exceed the photographs but never falls short.
LEMMA LoadCacheCounts ==
  ASSUME NEW saved \in [Identity -> Line], LoadCache(saved)
  PROVE  knownPhotos' \in Nat /\ Kept' \in Nat /\ Kept' <= knownPhotos'
<1> DEFINE kept == {i \in Identity : saved[i].photos # {}}
           sizes == [i \in Identity |-> Cardinality(saved[i].photos)]
           \* What the lines of K list.
           listed(K) == [p \in Spelling |-> UNION {saved[i].photos : i \in {j \in K : saved[j].path = p}}]
<1>1. IsFiniteSet(Identity) /\ kept \in SUBSET Identity
  BY SpellingsAreFinite
<1>2. \A i \in kept : saved[i].path \in Spelling /\ saved[i].photos \in SUBSET Photo
  BY DEF Line
<1>3. \A i \in kept : sizes[i] = Cardinality(saved[i].photos) /\ sizes[i] \in Nat
  BY <1>2, PhotosAreFinite
<1>4. photosByFolder' = listed(kept)
  <2>1. photosByFolder' = [p \in Spelling |-> UNION {saved[i].photos : i \in {j \in kept : saved[j].path = p}}]
    BY DEF LoadCache
  <2> QED BY <2>1
<1>5. knownPhotos' = Total(sizes, kept)
  <2> DEFINE Iterates(g) ==
               g = [s \in SUBSET kept |-> IF s = {} THEN 0
                                   ELSE Cardinality(saved[FirstOf(s)].photos) + g[s \ {FirstOf(s)}]]
             g == CHOOSE g : Iterates(g)
  <2>1. knownPhotos' = g[kept]
    BY DEF LoadCache, MapThenSumSet, MapThenFoldSet, FirstOf
  <2>2. \A k : Iterates(k) <=> Sums(k, sizes, kept)
    <3>1. \A s \in SUBSET kept : s # {} => sizes[FirstOf(s)] = Cardinality(saved[FirstOf(s)].photos)
      BY DEF FirstOf
    <3> HIDE DEF kept, sizes
    <3> QED BY <3>1 DEF Sums
  <2>3. Sums(g, sizes, kept)
    <3>1. Sums(SumsOf(sizes, kept), sizes, kept)
      BY <1>1, SumsExist
    <3> HIDE DEF Iterates, kept, sizes
    <3> QED BY <2>2, <3>1
  <2> HIDE DEF g, kept, sizes
  <2> QED BY <1>1, <2>1, <2>3, FoldIsTotal
<1> HIDE DEF kept, sizes
<1>6. ASSUME NEW K \in SUBSET kept
      PROVE  listed(K) \in [Spelling -> SUBSET Photo] /\ KeptOf(listed(K)) \in Nat /\ Total(sizes, K) \in Nat
  <2>1. listed(K) \in [Spelling -> SUBSET Photo]
    BY <1>2
  <2>2. Total(sizes, K) \in Nat
    BY <1>1, <1>3, TotalIsNat
  <2> HIDE DEF listed
  <2> QED BY <2>1, <2>2, CountsAreNat
<1> DEFINE Refuting == {K \in SUBSET kept : ~ (KeptOf(listed(K)) <= Total(sizes, K))}
<1>7. ASSUME Refuting # {} PROVE FALSE
  <2>1. PICK K \in Refuting : \A L \in SUBSET K : L # K => L \notin Refuting
    <3>1. Refuting \in SUBSET (SUBSET Identity)
      BY <1>1
    <3> HIDE DEF Refuting
    <3> QED BY <1>1, <1>7, <3>1, SmallestSet
  <2>2. K \in SUBSET kept /\ ~ (KeptOf(listed(K)) <= Total(sizes, K))
    BY <2>1
  <2>3. K # {}
    <3>1. ASSUME K = {} PROVE KeptOf(listed(K)) = 0
      <4>1. \A p \in Spelling : Counts(listed(K))[p] = 0
        <5>1. \A p \in Spelling : listed(K)[p] = {}
          BY <3>1
        <5> HIDE DEF listed
        <5> QED BY <5>1, FS_EmptySet DEF Counts
      <4>2. Spelling \in SUBSET Spelling
        OBVIOUS
      <4> HIDE DEF listed
      <4> QED BY <4>1, <4>2, SpellingsAreFinite, TotalOfZeros DEF KeptOf
    <3> HIDE DEF listed
    <3> QED BY <2>2, <3>1, TotalOfNone
  <2>4. PICK x \in K : TRUE
    BY <2>3
  <2> DEFINE L == K \ {x}
             p == saved[x].path
             found == listed(L)[p] \cup saved[x].photos
  <2>5. L \in SUBSET kept /\ KeptOf(listed(L)) <= Total(sizes, L)
    BY <2>1, <2>2, <2>4
  <2>6. p \in Spelling /\ found \in SUBSET Photo /\ listed(K) = [listed(L) EXCEPT ![p] = found]
    <3>1. p \in Spelling /\ saved[x].photos \in SUBSET Photo /\ listed(L) \in [Spelling -> SUBSET Photo]
      BY <1>2, <1>6, <2>2, <2>4, <2>5
    <3>2. \A q \in Spelling \ {p} : listed(K)[q] = listed(L)[q]
      BY <2>4
    <3>3. listed(K)[p] = found
      <4>1. {j \in K : saved[j].path = p} = {j \in L : saved[j].path = p} \cup {x}
        BY <2>4
      <4> QED BY <3>1, <4>1
    <3>4. listed(K) = [q \in Spelling |-> listed(K)[q]]
      OBVIOUS
    <3> HIDE DEF listed, L, p, found
    <3> QED BY <3>1, <3>2, <3>3, <3>4 DEF found
  <2>7. Cardinality(found) <= Cardinality(listed(L)[p]) + Cardinality(saved[x].photos)
    <3> DEFINE S == listed(L)[p]
               T == saved[x].photos
    <3>1. S \in SUBSET Photo /\ T \in SUBSET Photo /\ S \cap T \in SUBSET Photo
      BY <1>2, <1>6, <2>2, <2>4, <2>5, <2>6
    <3> HIDE DEF S, T
    <3>2. Cardinality(S \cup T) = Cardinality(S) + Cardinality(T) - Cardinality(S \cap T)
      BY <3>1, PhotosAreFinite, FS_Union
    <3>3. Cardinality(S) \in Nat /\ Cardinality(T) \in Nat /\ Cardinality(S \cap T) \in Nat
      BY <3>1, PhotosAreFinite
    <3>4. Cardinality(S \cup T) <= Cardinality(S) + Cardinality(T)
      BY <3>2, <3>3
    <3> QED BY <3>4 DEF S, T
  <2> HIDE DEF listed
  <2>8. KeptOf(listed(K)) = KeptOf(listed(L)) - Cardinality(listed(L)[p]) + Cardinality(found)
    <3> DEFINE photos == listed(L)
    <3>1. photos \in [Spelling -> SUBSET Photo] /\ p \in Spelling /\ found \in SUBSET Photo
      BY <1>6, <2>5, <2>6
    <3>2. KeptOf([photos EXCEPT ![p] = found])
            = KeptOf(photos) - Cardinality(photos[p]) + Cardinality(found)
      <4> HIDE DEF photos, p, found
      <4> QED BY <3>1, OneRelisted
    <3> QED BY <2>6, <3>2
  <2>9. Total(sizes, K) = Cardinality(saved[x].photos) + Total(sizes, L)
    <3>1. K \in SUBSET Identity /\ (\A i \in K : sizes[i] \in Nat)
      BY <1>1, <1>3, <2>2
    <3>2. Total(sizes, K) = sizes[x] + Total(sizes, K \ {x})
      BY <1>1, <2>4, <3>1, TotalWithout
    <3> QED BY <1>3, <2>2, <2>4, <3>2
  <2> DEFINE kk == KeptOf(listed(K))
             kl == KeptOf(listed(L))
             tk == Total(sizes, K)
             tl == Total(sizes, L)
             s == Cardinality(listed(L)[p])
             t == Cardinality(saved[x].photos)
             n == Cardinality(found)
  <2>10. kk \in Nat /\ kl \in Nat /\ tk \in Nat /\ tl \in Nat
    <3> HIDE DEF L
    <3> QED BY <1>6, <2>2, <2>5
  <2>11. s \in Nat /\ t \in Nat /\ n \in Nat
    <3>1. listed(L)[p] \in SUBSET Photo /\ saved[x].photos \in SUBSET Photo
      BY <1>2, <1>6, <2>2, <2>4, <2>5, <2>6
    <3> HIDE DEF found
    <3> QED BY <2>6, <3>1, PhotosAreFinite
  <2>12. kk = kl - s + n /\ tk = t + tl /\ n <= s + t /\ kl <= tl /\ ~ (kk <= tk)
    BY <2>2, <2>5, <2>7, <2>8, <2>9
  <2> HIDE DEF kk, kl, tk, tl, s, t, n
  <2> QED BY <2>10, <2>11, <2>12
<1>8. KeptOf(listed(kept)) <= Total(sizes, kept)
  BY <1>7
<1>9. kept \in SUBSET kept
  OBVIOUS
<1> HIDE DEF listed
<1> QED BY <1>4, <1>5, <1>6, <1>8, <1>9, KeptIsTotal

\* What a step does to the store.
LEMMA StoreSteps ==
  ASSUME IInv, Next
  PROVE  \/ UNCHANGED store
         \/ \E p \in Spelling : RemoveFolder(p)
         \/ \E p \in Spelling, i \in Identity, found \in SUBSET Photo : StoreFolder(p, i, found)
         \/ Clear
         \/ scanner'.pc = "ready" /\ \E saved \in [Identity -> Line] : LoadCache(saved)
         \/ scanner'.pc = "load" /\ NoLists
<1>1. ASSUME NEW h \in Held
      PROVE  h.path \in Spelling /\ h.id \in Identity /\ h.photos \in SUBSET Photo
  BY DEF Held
<1>2. /\ scanner \in ScannerType /\ scanner.held \in Held /\ scanner.todo \in SUBSET Spelling
      /\ priority.held \in Held /\ watcher.path \in Spelling
  BY Spellings DEF IInv, Shape, Hands, ScannerType, PriorityType, Opened
<1>3. CASE Scanner
  <2>1. CASE ScannerLoad
    <3>1. scanner'.pc = "ready"
      BY <1>2, <2>1 DEF ScannerLoad, ScannerType
    <3> QED BY <2>1, <3>1 DEF ScannerLoad, IInv, Shape, CacheShape
  <2>2. CASE BeginPass
    BY <2>2 DEF BeginPass
  <2>3. CASE VerifyFolder
    BY <1>2, <2>3 DEF VerifyFolder, LookAgain
  <2>4. CASE StoreHeld
    BY <1>1, <1>2, <2>4 DEF StoreHeld
  <2>5. CASE ~ (ScannerLoad \/ BeginPass \/ VerifyFolder \/ StoreHeld)
    BY <1>3, <2>5 DEF Scanner, ScannerReady, SpawnWatchers, WalkFolder, LookAtDirty, LookAgain, ScannerIdentify,
       TruncateCache, SaveCache, TakeWork, ScannerExit
  <2> QED BY <2>1, <2>2, <2>3, <2>4, <2>5
<1>4. CASE Priority
  <2>1. CASE PriorityStore
    BY <1>1, <1>2, <2>1 DEF PriorityStore
  <2>2. CASE ~PriorityStore
    BY <1>4, <2>2 DEF Priority, PriorityTest, PriorityPark, PriorityLook, PriorityIdentify,
       PriorityMark
  <2> QED BY <2>1, <2>2
<1>5. CASE Watcher
  BY <1>2, <1>5 DEF Watcher, WatcherOpens, WatcherMarks, WatcherDrops
<1>6. CASE Calls
  BY <1>6 DEF Calls, IndexTouchFolder, IndexRescan, IndexDrivesChanged, IndexSetPaused, Calling
<1>7. CASE BeginStop \/ JoinThreads \/ SaveAndReturn
  BY <1>7 DEF BeginStop, JoinThreads, SaveAndReturn
<1>8. CASE Restart
  BY <1>8 DEF Restart, Idle
<1>9. CASE FileSystem
  BY <1>9 DEF FileSystem, ChangePhotos, MakeFolder, DeleteFolder, RenameFolder, Changes
<1> QED BY <1>3, <1>4, <1>5, <1>6, <1>7, <1>8, <1>9 DEF Next

\* The count never falls short of the photographs kept: the program's is
\* unsigned, and taking away a listing cannot take it below zero.
Covers == knownPhotos \in Nat /\ Kept <= knownPhotos

LEMMA KeptIsNat == ASSUME StoreShape PROVE Kept \in Nat
BY KeptIsTotal, CountsAreNat DEF StoreShape

LEMMA StoreSame == ASSUME UNCHANGED store PROVE knownPhotos' - Kept' = knownPhotos - Kept
BY KeptIsTotal DEF store

LEMMA CountStep ==
  ASSUME IInv, IInv', Covers, [Next]_vars
  PROVE  /\ \/ scanner'.pc \in {"ready", "load"}
            \/ knownPhotos' = 0 /\ Kept' = 0
            \/ knownPhotos' - Kept' = knownPhotos - Kept
         /\ Covers'
<1>1. /\ knownPhotos \in Nat /\ Kept \in Nat /\ Kept' \in Nat /\ Kept <= knownPhotos
      /\ StoreShape /\ current \in Folder
  <2>1. StoreShape /\ StoreShape' /\ current \in Folder
    BY DEF IInv, Shape, DiskShape
  <2>2. Kept \in Nat
    BY <2>1, KeptIsNat
  <2>3. Kept' \in Nat
    BY <2>1, KeptIsTotal, CountsAreNat DEF StoreShape
  <2> QED BY <2>1, <2>2, <2>3 DEF Covers
<1>0. knownPhotos \in Int
  BY <1>1
<1>2. \/ /\ scanner'.pc \in {"ready", "load"}
         /\ knownPhotos' \in Nat /\ Kept' <= knownPhotos'
      \/ knownPhotos' = 0 /\ Kept' = 0
      \/ knownPhotos' \in Int /\ knownPhotos' - Kept' = knownPhotos - Kept
  <2>1. CASE UNCHANGED store
    <3>1. knownPhotos' = knownPhotos
      BY <2>1 DEF store
    <3>2. knownPhotos' \in Int
      BY <1>0, <3>1
    <3> QED BY <2>1, <3>2, StoreSame
  <2>2. ASSUME NEW p \in Spelling, RemoveFolder(p)
        PROVE  knownPhotos' \in Int /\ knownPhotos' - Kept' = knownPhotos - Kept
    BY <1>0, <1>1, <2>2, RemoveFolderCounts
  <2>3. ASSUME NEW p \in Spelling, NEW i \in Identity, NEW found \in SUBSET Photo, StoreFolder(p, i, found)
        PROVE  knownPhotos' \in Int /\ knownPhotos' - Kept' = knownPhotos - Kept
    BY <1>0, <1>1, <2>3, StoreFolderCounts
  <2>4. CASE NoLists
    BY <2>4, NoneKept, KeptIsTotal DEF NoLists
  <2>5. ASSUME NEW saved \in [Identity -> Line], LoadCache(saved)
        PROVE  knownPhotos' \in Nat /\ Kept' <= knownPhotos'
    BY <2>5, LoadCacheCounts
  <2>6. CASE UNCHANGED vars
    BY <2>1, <2>6 DEF vars
  <2>7. CASE Next
    BY <2>1, <2>2, <2>3, <2>4, <2>5, <2>7, StoreSteps DEF Clear
  <2> QED BY <2>6, <2>7
<1> DEFINE now == knownPhotos
           next == knownPhotos'
           kept == Kept
           left == Kept'
<1>3. next \in Nat /\ left <= next
  <2>1. /\ now \in Nat /\ kept \in Nat /\ left \in Nat /\ kept <= now
        /\ \/ next \in Nat /\ left <= next
           \/ next = 0 /\ left = 0
           \/ next \in Int /\ next - left = now - kept
    BY <1>1, <1>2
  <2> HIDE DEF now, next, kept, left
  <2> QED BY <2>1
<1> QED BY <1>2, <1>3 DEF Covers

LEMMA CountInvariance == Spec => []Covers
<1>1. Init => Covers
  BY NoneKept, KeptIsTotal DEF Init, EmptyStore, Covers
<1>2. IInv /\ IInv' /\ Covers /\ [Next]_vars => Covers'
  BY CountStep
<1> QED BY <1>1, <1>2, Invariance, PTL DEF Spec

\* The count shown follows the photographs kept: storing a listing, dropping
\* one and moving one to another path take away and add what the listing
\* holds, and a rebuild empties both (StoreFolder, RemoveFolder, ScannerLoop).
THEOREM CountFollows == Spec => CountFollowsPhotos
<1>1. IInv /\ IInv' /\ Covers /\ [Next]_vars =>
        [\/ UNCHANGED <<photosByFolder, knownPhotos>>
         \/ scanner'.pc \in {"ready", "load"}
         \/ knownPhotos' = 0 /\ Kept' = 0
         \/ knownPhotos' - Kept' = knownPhotos - Kept]_vars
  BY CountStep
<1> QED BY <1>1, Invariance, CountInvariance, PTL DEF Spec, CountFollowsPhotos

\* The count is never below the photographs kept, and never below zero, even
\* when the cache file names a path twice (LoadCache).
THEOREM CountIsEnough == Spec => [](Kept <= knownPhotos /\ knownPhotos \in Nat)
<1>1. Covers => Kept <= knownPhotos /\ knownPhotos \in Nat
  BY DEF Covers
<1> QED BY <1>1, CountInvariance, PTL

\* Every part of the index's state keeps its type.
THEOREM TypesHold == Spec => []TypeOK
<1>1. IInv /\ Covers /\ Served /\ OwedShape => TypeOK
  <2> SUFFICES ASSUME IInv, Covers, Served, OwedShape PROVE TypeOK
    OBVIOUS
  <2>1. StoreTypes
    BY DEF IInv, Shape, StoreShape, StoreTypes, Covers
  <2>2. disk \in [Folder -> [id : 0..MaxId, photos : SUBSET Photo]]
    BY DEF IInv, Shape, DiskShape
  <2>3. scanner \in [pc : ScannerPc, job : Job, todo : SUBSET Spelling, held : Held,
                     full : BOOLEAN, rescan : BOOLEAN, drives : BOOLEAN]
    BY DEF IInv, Shape, Hands, ScannerType
  <2>4. priority \in [pc : PriorityPc, held : Held] /\ watcher \in [pc : WatcherPc, path : Folder]
    BY DEF IInv, Shape, Hands, PriorityType, Opened
  <2>5. /\ queues.dirtyFolders \in Seq(Spelling) /\ queues.dirtyPending \subseteq Spelling
        /\ queues.priorityFolders \in Seq(Folder)
        /\ wants \in [full : BOOLEAN, rescan : BOOLEAN, drives : BOOLEAN]
    BY DEF IInv, Shape, Queued, QueuesType
  <2>6. folderStates \in [Folder -> {"Unknown", "Indexing", "Ready", "Error"}]
    BY DEF Served
  <2>7. owed \subseteq Folder /\ current \in Folder
    BY DEF OwedShape, IInv, Shape, DiskShape
  <2> QED BY <2>1, <2>2, <2>3, <2>4, <2>5, <2>6, <2>7 DEF TypeOK
<1> QED BY <1>1, Invariance, CountInvariance, ServedInvariance, OwedInvariance, PTL
=============================================================================
