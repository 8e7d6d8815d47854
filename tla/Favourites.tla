----------------------------- MODULE Favourites -----------------------------
(***************************************************************************)
(* The favourites (src/src/favourites.cpp): one heart per photograph, kept *)
(* against the file's identity where its volume gives one, so that renames *)
(* made by anybody keep it, and against path, size and time elsewhere.     *)
(* Three indexes over one vector answer every question, and a query that   *)
(* finds a file under a new name repairs them.  The file system is changed *)
(* by others at any time; the store is written beside itself and swapped.  *)
(*                                                                         *)
(* Every call is one critical section, but a lock on the list holds nobody *)
(* off the files: a call that looks at them twice (FavouriteSet, and the   *)
(* load from the registry, name by name) is as many steps here.  Data: a   *)
(* file is its identity; size and time are one value, its look; 0 is "no   *)
(* such entry" where the code has SIZE_MAX or an absent key.  Identities   *)
(* do not collide in Mix, and no file has two names (hard links).          *)
(***************************************************************************)
EXTENDS Integers, Sequences, FiniteSets

CONSTANTS
  File, None,
  Look,           \* sizes and times of last writing
  Path, Folder,
  FolderOf,       \* the folder a path is in
  Real,           \* the paths on volumes that give identities (NTFS)
  Registry,       \* the paths an older build kept in the registry
  MaxChanges,     \* bound: changes others make to the files
  MaxSets,        \* bound: calls of FavouriteSet
  MaxCrashes      \* bound: deaths and restarts of the process

Entry == [id : File \cup {None}, look : Look \cup {None}, path : Path]

ASSUME FavouritesAssumption ==
  /\ FolderOf \in [Path -> Folder] /\ Real \subseteq Path
  /\ None \notin File \cup Look \cup Seq(Entry) /\ None \notin Path
  /\ Registry \subseteq Path /\ IsFiniteSet(Registry)
  /\ MaxChanges \in Nat /\ MaxSets \in Nat /\ MaxCrashes \in Nat

VARIABLES
  at,          \* the file system: the file under a path, or None
  look,        \* its size and time
  entries, byIdentity, byPath, byFolder, dirty,
  store,       \* favourites.bin, None until it is first written
  toRead,      \* the names the load from the registry has still to look at
  brought,     \* and the entries it has made of the others
  marking,     \* the path FavouriteSet has found to have no heart and has
               \* still to read a second time, or None
  changes, sets, crashes   \* bounds

files == <<at, look>>
index == <<byIdentity, byPath, byFolder>>
under == <<toRead, brought, marking>>   \* the call under way
bounds == <<changes, sets, crashes>>
vars == <<at, look, entries, byIdentity, byPath, byFolder, dirty, store,
          toRead, brought, marking, changes, sets, crashes>>
-----------------------------------------------------------------------------
(* What the file system says of a path.                                    *)

Known(p) == at[p] # None
IdOf(p) == IF p \in Real THEN at[p] ELSE None
LookOf(p) == IF Known(p) THEN look[at[p]] ELSE None
EntryFor(p) == [id |-> IdOf(p), look |-> LookOf(p), path |-> p]

(* The indexes of a whole vector: where two entries share a key, the later *)
(* one wins.                                                               *)

Last(positions) ==
  IF positions = {} THEN 0
  ELSE CHOOSE i \in positions : \A j \in positions : j <= i
IdentityIndex(list) == [f \in File |-> Last({i \in 1..Len(list) : list[i].id = f})]
PathIndex(list) == [p \in Path |-> Last({i \in 1..Len(list) : list[i].path = p})]
Inside(list, d) == {i \in 1..Len(list) : FolderOf[list[i].path] = d}
FolderIndex(list) == [d \in Folder |-> Cardinality(Inside(list, d))]

ReindexLocked(list) ==
  /\ byIdentity' = IdentityIndex(list)
  /\ byPath' = PathIndex(list)
  /\ byFolder' = FolderIndex(list)

\* A process begins with the store, or with nothing but the registry to read.
Stored(stored) == IF stored = None THEN <<>> ELSE stored
Legacy(stored) == IF stored = None THEN Registry ELSE {}

Init ==
  /\ at \in [Path -> File \cup {None}]
  /\ \A p, q \in Path : at[p] = at[q] /\ Known(p) => p = q
  /\ look \in [File -> Look]
  /\ store = None
  /\ entries = Stored(store) /\ dirty = FALSE
  /\ byIdentity = IdentityIndex(entries) /\ byPath = PathIndex(entries)
  /\ byFolder = FolderIndex(entries)
  /\ toRead = Legacy(store) /\ brought = <<>> /\ marking = None
  /\ changes = 0 /\ sets = 0 /\ crashes = 0
-----------------------------------------------------------------------------
(* The calls.  One holds the lock to its end, and the load comes first.    *)

Free == toRead = {} /\ marking = None

\* The load looks at one name more; the last one brings the list into being.
LoadLocked(p) ==
  /\ p \in toRead /\ toRead' = toRead \ {p}
  /\ LET more == IF Known(p) THEN Append(brought, EntryFor(p)) ELSE brought
     IN  IF toRead' # {} THEN brought' = more /\ UNCHANGED <<entries, index, dirty>>
         ELSE /\ entries' = more /\ ReindexLocked(more) /\ dirty' = (more # <<>>)
              /\ brought' = <<>>
  /\ UNCHANGED <<files, store, marking, bounds>>

ByIdentity(p) == IF IdOf(p) = None THEN 0 ELSE byIdentity[IdOf(p)]

\* An entry without an identity counts only while the file looks the same.
LooksLike(e, p) == Known(p) /\ e.look # None => e.look = LookOf(p)
ByName(p) ==
  IF byPath[p] = 0 THEN 0
  ELSE IF entries[byPath[p]].id = None /\ ~LooksLike(entries[byPath[p]], p) THEN 0
  ELSE byPath[p]

FindLocked(p) == IF ByIdentity(p) # 0 THEN ByIdentity(p) ELSE ByName(p)

\* A file found under another name than the one remembered.
Moved(p) == ByIdentity(p) # 0 /\ entries[ByIdentity(p)].path # p

Repaired(p) ==
  IF Moved(p) THEN [entries EXCEPT ![ByIdentity(p)] = EntryFor(p)] ELSE entries

\* Mutant: the folder the file has left keeps counting it.
RepairLeavingCount(p) ==
  IF Moved(p)
  THEN LET i == ByIdentity(p)
       IN  /\ byPath' = [byPath EXCEPT ![entries[i].path] = 0, ![p] = i]
           /\ byFolder' = [byFolder EXCEPT ![FolderOf[p]] = @ + 1]
           /\ UNCHANGED byIdentity
  ELSE UNCHANGED index
\* Mutant: the name a file has left still leads to it.
RepairKeepingName(p) ==
  IF Moved(p)
  THEN LET i == ByIdentity(p)
           left == [byFolder EXCEPT ![FolderOf[entries[i].path]] = @ - 1]
       IN  /\ byPath' = [byPath EXCEPT ![p] = i]
           /\ byFolder' = [left EXCEPT ![FolderOf[p]] = @ + 1]
           /\ UNCHANGED byIdentity
  ELSE UNCHANGED index
RepairIndex(p) ==
  IF Moved(p)
  THEN LET i == ByIdentity(p)
           from == FolderOf[entries[i].path]
           left == [byFolder EXCEPT ![from] = IF @ = 0 THEN 0 ELSE @ - 1]
       IN  /\ byPath' = [byPath EXCEPT ![entries[i].path] = 0, ![p] = i]
           /\ byFolder' = [left EXCEPT ![FolderOf[p]] = @ + 1]
           /\ UNCHANGED byIdentity
  ELSE UNCHANGED index

\* Mutant: a write that failed counts as done.
SaveLockedOnce(list, needed) ==
  /\ dirty' = FALSE
  /\ \/ needed /\ store' = list
     \/ UNCHANGED store
\* Written beside the store and swapped, or not at all.
SaveLocked(list, needed) ==
  \/ needed /\ store' = list /\ dirty' = FALSE
  \/ needed /\ UNCHANGED store /\ dirty' = TRUE
  \/ ~needed /\ UNCHANGED store /\ dirty' = FALSE

\* Each tile of the grid asks in every frame.
FavouriteGet(p) ==
  /\ Free /\ Moved(p)
  /\ entries' = Repaired(p) /\ RepairIndex(p) /\ dirty' = TRUE
  /\ UNCHANGED <<files, store, under, bounds>>

\* What the call does when the heart is as asked already: the repair alone.
SetNothing(p) ==
  /\ entries' = Repaired(p) /\ RepairIndex(p) /\ dirty' = (dirty \/ Moved(p))
  /\ UNCHANGED <<store, marking>>

\* There is no heart yet: what the new entry is made of is read afresh.
BeginMark(p) ==
  /\ FindLocked(p) = 0 /\ marking' = p
  /\ UNCHANGED <<entries, index, dirty, store>>

\* Mutant: the file there by now is marked and its identity not indexed.
MarkUnindexed(p) ==
  /\ marking = p /\ marking' = None
  /\ entries' = Append(entries, EntryFor(p))
  /\ byPath' = [byPath EXCEPT ![p] = Len(entries')]
  /\ byFolder' = [byFolder EXCEPT ![FolderOf[p]] = @ + 1]
  /\ UNCHANGED byIdentity
  /\ SaveLocked(entries', TRUE)
  /\ UNCHANGED <<files, toRead, brought, bounds>>
\* Marked is whatever is at the path by now, a file that has its heart included.
Mark(p) ==
  /\ marking = p /\ marking' = None
  /\ entries' = Append(entries, EntryFor(p))
  /\ byIdentity' = IF IdOf(p) = None THEN byIdentity
                   ELSE [byIdentity EXCEPT ![IdOf(p)] = Len(entries')]
  /\ byPath' = [byPath EXCEPT ![p] = Len(entries')]
  /\ byFolder' = [byFolder EXCEPT ![FolderOf[p]] = @ + 1]
  /\ SaveLocked(entries', TRUE)
  /\ UNCHANGED <<files, toRead, brought, bounds>>

Without(list, i) == SubSeq(list, 1, i - 1) \o SubSeq(list, i + 1, Len(list))
\* Mutant: the entries behind the one taken out keep their old positions.
UnmarkInPlace(p) ==
  /\ FindLocked(p) # 0
  /\ entries' = Without(Repaired(p), FindLocked(p))
  /\ byIdentity' = [f \in File |-> IF f = Repaired(p)[FindLocked(p)].id THEN 0 ELSE byIdentity[f]]
  /\ byPath' = [q \in Path |-> IF q = Repaired(p)[FindLocked(p)].path THEN 0 ELSE byPath[q]]
  /\ byFolder' = FolderIndex(entries')
  /\ SaveLocked(entries', TRUE) /\ UNCHANGED marking
Unmark(p) ==
  /\ FindLocked(p) # 0
  /\ entries' = Without(Repaired(p), FindLocked(p))
  /\ ReindexLocked(entries')
  /\ SaveLocked(entries', TRUE) /\ UNCHANGED marking

FavouriteSet(p, on) ==
  /\ Free
  /\ sets < MaxSets /\ sets' = sets + 1
  /\ IF on THEN BeginMark(p) \/ (FindLocked(p) # 0 /\ SetNothing(p))
     ELSE Unmark(p) \/ (FindLocked(p) = 0 /\ SetNothing(p))
  /\ UNCHANGED <<files, toRead, brought, changes, crashes>>

\* At shutdown, before the process ends.
FavouritesFlush ==
  /\ Free /\ SaveLocked(entries, dirty)
  /\ UNCHANGED <<files, entries, index, under, bounds>>

\* The process ends, well or badly; the next one loads at its first question.
Restart ==
  /\ crashes < MaxCrashes /\ crashes' = crashes + 1
  /\ entries' = Stored(store) /\ ReindexLocked(entries') /\ dirty' = FALSE
  /\ toRead' = Legacy(store) /\ brought' = <<>> /\ marking' = None
  /\ UNCHANGED <<files, store, changes, sets>>
-----------------------------------------------------------------------------
(* Others change the files.  Within a volume a file keeps its identity; a  *)
(* file that comes from elsewhere is another one.                          *)

Placed == {at[p] : p \in Path} \ {None}
Change == changes < MaxChanges /\ changes' = changes + 1
          /\ UNCHANGED <<entries, index, dirty, store, under, sets, crashes>>

Create(f, p) == /\ Change /\ f \notin Placed /\ at' = [at EXCEPT ![p] = f]
                /\ \E l \in Look : look' = [look EXCEPT ![f] = l]
Delete(p) == Change /\ Known(p) /\ at' = [at EXCEPT ![p] = None] /\ UNCHANGED look
Rename(p, q) == /\ Change /\ Known(p) /\ p # q /\ (p \in Real <=> q \in Real)
                /\ at' = [at EXCEPT ![q] = at[p], ![p] = None] /\ UNCHANGED look
Write(p) == /\ Change /\ Known(p) /\ UNCHANGED at
            /\ \E l \in Look : look' = [look EXCEPT ![at[p]] = l]

Others ==
  \/ \E f \in File, p \in Path : Create(f, p)
  \/ \E p \in Path : Delete(p) \/ Write(p)
  \/ \E p, q \in Path : Rename(p, q)
Calls ==
  \/ \E p \in Path : FavouriteGet(p) \/ LoadLocked(p) \/ Mark(p)
  \/ \E p \in Path, on \in BOOLEAN : FavouriteSet(p, on)
  \/ FavouritesFlush \/ Restart

Next == Others \/ Calls
Spec == Init /\ [][Next]_vars
-----------------------------------------------------------------------------
(* Properties.                                                             *)

TypeOK ==
  /\ at \in [Path -> File \cup {None}] /\ look \in [File -> Look]
  /\ entries \in Seq(Entry) /\ store \in Seq(Entry) \cup {None}
  /\ byIdentity \in [File -> 0..Len(entries)]
  /\ byPath \in [Path -> 0..Len(entries)]
  /\ byFolder \in [Folder -> Nat]
  /\ dirty \in BOOLEAN
  /\ toRead \subseteq Registry /\ brought \in Seq(Entry) /\ marking \in Path \cup {None}
  /\ changes \in Nat /\ sets \in Nat /\ crashes \in Nat

\* A heart follows its file through every rename, deletion of others and
\* restart: a question about a file somebody marked finds an entry of this very
\* file (favourites.h: "renaming or moving a file inside the same volume keeps
\* it").  It need not be the only one: a marked file that others move onto a
\* path while that path is being marked has two entries from then on.
HeartFollowsFile ==
  \A i \in 1..Len(entries), p \in Path :
    entries[i].id # None /\ IdOf(p) = entries[i].id =>
      \E j \in 1..Len(entries) : FindLocked(p) = j /\ entries[j].id = IdOf(p)

\* The badge of a folder counts what is in it: the count is kept by
\* differences at marks and repairs, and from nothing at unmarks and loads.
FolderCountExact == byFolder = FolderIndex(entries)

\* A name leads to an entry that was last seen there, although two entries may
\* share a name and either of them may be repaired away from it.
NameIsLastKnown ==
  \A p \in Path : byPath[p] # 0 => entries[byPath[p]].path = p

\* What memory has and the store has not is known to be unsaved, whatever
\* writes failed, so that the flush at shutdown saves it.
UnsavedIsDirty == dirty \/ store = entries \/ (store = None /\ entries = <<>>)

\* "Otherwise a deleted-and-replaced file would inherit a heart" (favourites.cpp,
\* FindLocked): a file has a heart only by its identity, or by its name and look.
NoInheritedHeart ==
  \A p \in Path :
    Known(p) /\ FindLocked(p) # 0 =>
      LET e == entries[FindLocked(p)]
      IN  e.id = IdOf(p) \/ (e.id = None /\ LooksLike(e, p))
=============================================================================
