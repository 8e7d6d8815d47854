-------------------------- MODULE FavouritesProofs --------------------------
(***************************************************************************)
(* For any files, names, volumes and number of calls: a heart follows its  *)
(* file, the badges count what is there, and what is unsaved is known.     *)
(*                                                                         *)
(* The inductive invariant says what each index is of the vector: an       *)
(* identity that some entry has leads to an entry that has it, and any     *)
(* other to none; a name leads to some entry seen there; a folder's count  *)
(* is the number of entries in it.  Entries may share an identity, since a *)
(* file can be moved while it is marked.                                   *)
(***************************************************************************)
EXTENDS Favourites, FiniteSetTheorems, WellFoundedInduction, TLAPS

FilesShape ==
  /\ at \in [Path -> File \cup {None}] /\ look \in [File -> Look]
  /\ \A p, q \in Path : at[p] = at[q] /\ Known(p) => p = q

\* What an index must be of a vector.
Identities(list, m) ==
  /\ m \in [File -> 0..Len(list)]
  /\ \A f \in File, i \in 1..Len(list) : list[i].id = f => m[f] # 0
  /\ \A f \in File : m[f] # 0 => list[m[f]].id = f
Names(list, m) ==
  /\ m \in [Path -> 0..Len(list)]
  /\ \A p \in Path : m[p] # 0 => list[m[p]].path = p

IndexShape == /\ entries \in Seq(Entry)
              /\ Identities(entries, byIdentity) /\ Names(entries, byPath)
              /\ FolderCountExact
StoreShape == store \in Seq(Entry) \cup {None} /\ dirty \in BOOLEAN /\ UnsavedIsDirty
\* A process that still reads the registry has neither store nor entries.
LoadShape == /\ toRead \subseteq Registry /\ brought \in Seq(Entry)
             /\ toRead # {} => store = None /\ entries = <<>>
             /\ marking \in Path \cup {None} /\ (marking # None => toRead = {})
BoundsShape == changes \in Nat /\ sets \in Nat /\ crashes \in Nat

IInv == FilesShape /\ IndexShape /\ StoreShape /\ LoadShape /\ BoundsShape
-----------------------------------------------------------------------------
(* Facts about vectors and their indexes.                                  *)

\* A set of positions has a last one.
LEMMA LastIsIn ==
  ASSUME NEW n \in Nat, NEW S \in SUBSET (1..n)
  PROVE  /\ Last(S) \in 0..n
         /\ S # {} => Last(S) \in S
         /\ S = {} => Last(S) = 0
<1>1. CASE S = {}
  BY <1>1 DEF Last
<1>2. CASE S # {}
  <2> DEFINE T == {k \in Nat : \E i \in S : k = n - i}
  <2>1. PICK s \in S : TRUE
    BY <1>2
  <2>2. n - s \in T
    BY <2>1
  <2>3. T \subseteq Nat /\ T # {}
    BY <2>2
  <2>4. PICK x \in T : \A y \in T : ~(<<y, x>> \in OpToRel(<, Nat))
    <3> HIDE DEF T
    <3> QED BY <2>3, WFMin, NatLessThanWellFounded, Zenon
  <2>5. \A k \in Nat : k < x => k \notin T
    <3> HIDE DEF T
    <3>1. x \in Nat
      BY <2>3
    <3> QED BY <2>4, <3>1, Zenon DEF OpToRel
  <2>6. PICK i \in S : x = n - i
    BY <2>4
  <2>7. \A j \in S : j <= i
    <3> TAKE j \in S
    <3>1. n - j \in T /\ n - j \in Nat /\ j \in 1..n /\ i \in 1..n
      OBVIOUS
    <3>2. ~(n - j < n - i)
      BY <2>5, <2>6, <3>1
    <3> QED BY <3>1, <3>2
  <2>8. Last(S) \in S
    BY <1>2, <2>6, <2>7 DEF Last
  <2>9. \A j \in S : j \in 0..n
    OBVIOUS
  <2> QED BY <1>2, <2>8, <2>9
<1> QED BY <1>1, <1>2

\* Indexing a vector from nothing (ReindexLocked).
LEMMA Reindexed ==
  ASSUME NEW list \in Seq(Entry)
  PROVE  Identities(list, IdentityIndex(list)) /\ Names(list, PathIndex(list))
<1>1. Len(list) \in Nat
  OBVIOUS
<1>2. Identities(list, IdentityIndex(list))
  <2> DEFINE S(f) == {i \in 1..Len(list) : list[i].id = f}
             m == IdentityIndex(list)
  <2>1. \A f \in File : m[f] = Last(S(f))
    BY DEF IdentityIndex
  <2>2. \A f \in File : /\ Last(S(f)) \in 0..Len(list)
                        /\ S(f) # {} => Last(S(f)) \in S(f)
                        /\ S(f) = {} => Last(S(f)) = 0
    <3> TAKE f \in File
    <3>1. S(f) \in SUBSET (1..Len(list))
      OBVIOUS
    <3> HIDE DEF S
    <3> QED BY <1>1, <3>1, LastIsIn
  <2>3. m \in [File -> 0..Len(list)]
    BY <2>1, <2>2 DEF IdentityIndex
  <2>4. ASSUME NEW f \in File, NEW i \in 1..Len(list), list[i].id = f
        PROVE  m[f] # 0
    <3>1. i \in S(f)
      BY <2>4
    <3>2. m[f] \in S(f)
      BY <2>1, <2>2, <3>1
    <3>3. m[f] \in 1..Len(list)
      BY <3>2
    <3> HIDE DEF m, S
    <3> QED BY <1>1, <3>3
  <2>5. ASSUME NEW f \in File, m[f] # 0
        PROVE  list[m[f]].id = f
    <3>1. m[f] \in S(f)
      BY <2>1, <2>2, <2>5
    <3> QED BY <3>1
  <2> HIDE DEF m
  <2> QED BY <2>3, <2>4, <2>5 DEF Identities, m
<1>3. Names(list, PathIndex(list))
  <2> DEFINE S(p) == {i \in 1..Len(list) : list[i].path = p}
  <2>1. \A p \in Path : PathIndex(list)[p] = Last(S(p))
    BY DEF PathIndex
  <2>2. \A p \in Path : /\ Last(S(p)) \in 0..Len(list)
                        /\ S(p) # {} => Last(S(p)) \in S(p)
                        /\ S(p) = {} => Last(S(p)) = 0
    <3> TAKE p \in Path
    <3>1. S(p) \in SUBSET (1..Len(list))
      OBVIOUS
    <3> HIDE DEF S
    <3> QED BY <1>1, <3>1, LastIsIn
  <2>3. PathIndex(list) \in [Path -> 0..Len(list)]
    BY <2>1, <2>2 DEF PathIndex
  <2>4. \A p \in Path : PathIndex(list)[p] # 0 => PathIndex(list)[p] \in S(p)
    BY <2>1, <2>2
  <2> QED BY <2>3, <2>4 DEF Names
<1> QED BY <1>2, <1>3

\* The entries of a folder are finitely many.
LEMMA InsideFinite ==
  ASSUME NEW list \in Seq(Entry), NEW d
  PROVE  IsFiniteSet(Inside(list, d)) /\ Cardinality(Inside(list, d)) \in Nat
<1>1. Inside(list, d) \subseteq 1..Len(list) /\ Len(list) \in Nat
  BY DEF Inside
<1>2. IsFiniteSet(1..Len(list))
  BY <1>1, FS_Interval
<1> QED BY <1>1, <1>2, FS_Subset, FS_CardinalityType

\* One entry more: the folder it is in counts one more.
LEMMA CountAppended ==
  ASSUME NEW list \in Seq(Entry), NEW e \in Entry
  PROVE  FolderIndex(Append(list, e)) =
           [FolderIndex(list) EXCEPT ![FolderOf[e.path]] = @ + 1]
<1> DEFINE more == Append(list, e)
           n == Len(list) + 1
<1>1. /\ more \in Seq(Entry) /\ Len(more) = n /\ Len(list) \in Nat
      /\ more[n] = e /\ \A i \in 1..Len(list) : more[i] = list[i]
  OBVIOUS
<1>2. FolderOf[e.path] \in Folder
  BY FavouritesAssumption DEF Entry
<1>3. ASSUME NEW d \in Folder
      PROVE  Cardinality(Inside(more, d)) =
               IF d = FolderOf[e.path] THEN Cardinality(Inside(list, d)) + 1
               ELSE Cardinality(Inside(list, d))
  <2>1. Inside(more, d) = IF d = FolderOf[e.path] THEN Inside(list, d) \cup {n} ELSE Inside(list, d)
    BY <1>1 DEF Inside
  <2>2. n \notin Inside(list, d)
    BY <1>1 DEF Inside
  <2> QED BY <2>1, <2>2, InsideFinite, FS_AddElement
<1> HIDE DEF more
<1>4. FolderIndex(more) = [FolderIndex(list) EXCEPT ![FolderOf[e.path]] = @ + 1]
  BY <1>2, <1>3 DEF FolderIndex
<1> QED BY <1>4 DEF more

\* A list without one of its entries.
LEMMA Shortened ==
  ASSUME NEW list \in Seq(Entry), NEW i \in 1..Len(list)
  PROVE  Without(list, i) \in Seq(Entry)
<1>1. Len(list) \in Nat
  OBVIOUS
<1>2. SubSeq(list, 1, i - 1) \in Seq(Entry) /\ SubSeq(list, i + 1, Len(list)) \in Seq(Entry)
  BY <1>1
<1> QED BY <1>2 DEF Without

-----------------------------------------------------------------------------
(* The calls.                                                              *)

\* Replacing the whole vector and indexing it afresh.
LEMMA Replaced ==
  ASSUME entries' \in Seq(Entry), ReindexLocked(entries')
  PROVE  IndexShape'
BY Reindexed DEF ReindexLocked, IndexShape, FolderCountExact

\* A name of a place leads to its entry, or to none.
LEMMA Found ==
  ASSUME FilesShape, IndexShape, NEW p \in Path
  PROVE  /\ IdOf(p) \in File \cup {None}
         /\ ByIdentity(p) \in 0..Len(entries) /\ FindLocked(p) \in 0..Len(entries)
         /\ ByIdentity(p) # 0 => entries[ByIdentity(p)].id = IdOf(p)
         /\ EntryFor(p) \in Entry
<1>1. IdOf(p) \in File \cup {None} /\ LookOf(p) \in Look \cup {None}
  BY DEF FilesShape, IdOf, LookOf, Known
<1>2. entries \in Seq(Entry) /\ Len(entries) \in Nat
  BY DEF IndexShape
<1>3. /\ ByIdentity(p) \in 0..Len(entries)
      /\ ByIdentity(p) # 0 => entries[ByIdentity(p)].id = IdOf(p)
  BY <1>1, <1>2 DEF ByIdentity, IndexShape, Identities
<1>4. FindLocked(p) \in 0..Len(entries)
  BY <1>2, <1>3 DEF FindLocked, ByName, IndexShape, Names
<1>5. EntryFor(p) \in Entry
  BY <1>1 DEF EntryFor, Entry
<1> QED BY <1>1, <1>3, <1>4, <1>5

\* Repairing the name of an entry that was found by its identity.
LEMMA RepairKeeps ==
  ASSUME FilesShape, IndexShape, NEW p \in Path
  PROVE  /\ Repaired(p) \in Seq(Entry) /\ Len(Repaired(p)) = Len(entries)
         /\ \A i \in 1..Len(entries) : Repaired(p)[i].id = entries[i].id
         /\ entries' = Repaired(p) /\ RepairIndex(p) => IndexShape'
<1>1. entries \in Seq(Entry) /\ Len(entries) \in Nat
  BY DEF IndexShape
<1>2. CASE ~Moved(p)
  <2>1. Repaired(p) = entries
    BY <1>2 DEF Repaired
  <2>2. RepairIndex(p) => UNCHANGED index
    BY <1>2 DEF RepairIndex
  <2> QED BY <1>1, <2>1, <2>2 DEF IndexShape, index, FolderCountExact
<1>3. CASE Moved(p)
  <2> DEFINE i == ByIdentity(p)
             now == EntryFor(p)
             old == entries[i].path
  <2>1. i \in 1..Len(entries) /\ old \in Path
    <3>1. ByIdentity(p) \in 0..Len(entries) /\ ByIdentity(p) # 0
      BY <1>3, Found DEF Moved
    <3>2. entries[ByIdentity(p)] \in Entry
      BY <1>1, <3>1
    <3> QED BY <1>1, <3>1, <3>2 DEF Entry
  <2>2. Repaired(p) = [entries EXCEPT ![i] = now]
    BY <1>3 DEF Repaired
  <2>3. now \in Entry /\ now.id = entries[i].id /\ now.path = p
    BY <2>1, Found DEF EntryFor
  <2> HIDE DEF i, now
  <2>4. /\ Repaired(p) \in Seq(Entry) /\ Len(Repaired(p)) = Len(entries)
        /\ Repaired(p)[i] = now
        /\ \A j \in 1..Len(entries) : j # i => Repaired(p)[j] = entries[j]
    BY <1>1, <2>1, <2>2, <2>3
  <2>5. \A j \in 1..Len(entries) : Repaired(p)[j].id = entries[j].id
    BY <2>3, <2>4
  <2>6. ASSUME entries' = Repaired(p), RepairIndex(p)
        PROVE  IndexShape'
    <3>1. /\ byPath' = [byPath EXCEPT ![old] = 0, ![p] = i]
          /\ byFolder' = [[byFolder EXCEPT ![FolderOf[old]] = IF @ = 0 THEN 0 ELSE @ - 1]
                            EXCEPT ![FolderOf[p]] = @ + 1]
          /\ byIdentity' = byIdentity
      BY <1>3, <2>6 DEF RepairIndex, i
    <3>2. Identities(entries', byIdentity')
      BY <2>4, <2>5, <2>6, <3>1 DEF IndexShape, Identities
    <3>3. Names(entries', byPath')
      <4>1. byPath' \in [Path -> 0..Len(entries')]
        BY <1>1, <2>1, <2>4, <2>6, <3>1 DEF IndexShape, Names
      <4>2. ASSUME NEW q \in Path, byPath'[q] # 0
            PROVE  entries'[byPath'[q]].path = q
        <5>1. CASE q = p
          BY <2>3, <2>4, <2>6, <3>1, <5>1 DEF IndexShape, Names
        <5>2. CASE q # p
          <6>1. byPath'[q] = byPath[q] /\ q # old
            BY <3>1, <4>2, <5>2 DEF IndexShape, Names
          <6>2. byPath[q] \in 1..Len(entries) /\ byPath[q] # i
            BY <1>1, <2>1, <4>2, <6>1 DEF IndexShape, Names, i
          <6> QED BY <2>4, <2>6, <4>2, <6>1, <6>2 DEF IndexShape, Names
        <5> QED BY <5>1, <5>2
      <4> QED BY <4>1, <4>2 DEF Names
    <3>4. FolderCountExact'
      <4>1. FolderOf[old] \in Folder /\ FolderOf[p] \in Folder
        BY <2>1, FavouritesAssumption
      <4>2. ASSUME NEW d \in Folder
            PROVE  Cardinality(Inside(entries', d)) = byFolder'[d]
        <5> DEFINE before == Inside(entries, d)
                   rest == before \ {i}
        <5>1. byFolder = FolderIndex(entries) /\ byFolder[d] = Cardinality(before)
          BY DEF IndexShape, FolderCountExact, FolderIndex
        <5>2. IsFiniteSet(before) /\ Cardinality(before) \in Nat /\ IsFiniteSet(rest)
          BY <1>1, InsideFinite, FS_Subset
        <5>3. i \in before <=> d = FolderOf[old]
          BY <2>1 DEF Inside
        <5>4. Inside(entries', d) = IF d = FolderOf[p] THEN rest \cup {i} ELSE rest
          BY <2>1, <2>3, <2>4, <2>6 DEF Inside
        <5>5. Cardinality(rest) = IF i \in before THEN Cardinality(before) - 1 ELSE Cardinality(before)
          BY <5>2, FS_RemoveElement
        <5>6. /\ Cardinality(rest \cup {i}) = Cardinality(rest) + 1
              /\ i \in before => Cardinality(before) # 0
          BY <5>2, FS_AddElement, FS_EmptySet
        <5>7. byFolder'[d] =
                LET left == IF d = FolderOf[old]
                            THEN IF byFolder[d] = 0 THEN 0 ELSE byFolder[d] - 1
                            ELSE byFolder[d]
                IN  IF d = FolderOf[p] THEN left + 1 ELSE left
          BY <3>1, <4>1, <5>1 DEF FolderIndex
        <5> HIDE DEF before, rest
        <5> QED BY <5>1, <5>2, <5>3, <5>4, <5>5, <5>6, <5>7
      <4>3. byFolder' = [d \in Folder |-> byFolder'[d]]
        BY <3>1, <4>1 DEF IndexShape, FolderCountExact, FolderIndex
      <4> QED BY <4>2, <4>3 DEF FolderCountExact, FolderIndex
    <3> QED BY <2>4, <2>6, <3>2, <3>3, <3>4 DEF IndexShape
  <2> QED BY <2>4, <2>5, <2>6
<1> QED BY <1>2, <1>3

\* A new heart: one entry behind the others, indexed by itself.
LEMMA MarkKeeps ==
  ASSUME FilesShape, IndexShape, NEW p \in Path, Mark(p)
  PROVE  IndexShape'
<1> DEFINE e == EntryFor(p)
           n == Len(entries) + 1
<1>1. entries \in Seq(Entry) /\ Len(entries) \in Nat /\ e \in Entry
  BY Found DEF IndexShape
<1>2. /\ entries' = Append(entries, e)
      /\ byIdentity' = IF IdOf(p) = None THEN byIdentity
                       ELSE [byIdentity EXCEPT ![IdOf(p)] = Len(entries')]
      /\ byPath' = [byPath EXCEPT ![p] = Len(entries')]
      /\ byFolder' = [byFolder EXCEPT ![FolderOf[p]] = @ + 1]
  BY DEF Mark
<1>3. e.id = IdOf(p) /\ e.path = p
  BY DEF EntryFor
<1>4. IdOf(p) \in File \cup {None}
  BY Found
<1> HIDE DEF e
<1>5. /\ entries' \in Seq(Entry) /\ Len(entries') = n /\ entries'[n] = e
      /\ \A i \in 1..Len(entries) : entries'[i] = entries[i]
  BY <1>1, <1>2
<1>6. Identities(entries', byIdentity')
  <2>1. byIdentity' \in [File -> 0..n]
    BY <1>1, <1>2, <1>4, <1>5 DEF IndexShape, Identities
  <2>2. ASSUME NEW f \in File, NEW i \in 1..n, entries'[i].id = f
        PROVE  byIdentity'[f] # 0
    <3>1. f # None
      BY FavouritesAssumption
    <3>2. CASE f = IdOf(p)
      BY <1>1, <1>2, <1>5, <3>1, <3>2 DEF IndexShape, Identities
    <3>3. CASE f # IdOf(p)
      BY <1>1, <1>2, <1>3, <1>4, <1>5, <2>2, <3>1, <3>3 DEF IndexShape, Identities
    <3> QED BY <3>2, <3>3
  <2>3. ASSUME NEW f \in File, byIdentity'[f] # 0
        PROVE  entries'[byIdentity'[f]].id = f
    <3>1. f # None
      BY FavouritesAssumption
    <3>2. CASE f = IdOf(p)
      BY <1>1, <1>2, <1>3, <1>5, <3>1, <3>2 DEF IndexShape, Identities
    <3>3. CASE f # IdOf(p)
      <4>1. byIdentity'[f] = byIdentity[f] /\ byIdentity[f] \in 1..Len(entries)
        BY <1>1, <1>2, <1>4, <2>3, <3>1, <3>3 DEF IndexShape, Identities
      <4> QED BY <1>5, <4>1 DEF IndexShape, Identities
    <3> QED BY <3>2, <3>3
  <2> QED BY <1>5, <2>1, <2>2, <2>3 DEF Identities
<1>7. Names(entries', byPath')
  BY <1>1, <1>2, <1>3, <1>5 DEF IndexShape, Names
<1>8. FolderCountExact'
  BY <1>1, <1>2, <1>3, CountAppended DEF IndexShape, FolderCountExact
<1> QED BY <1>5, <1>6, <1>7, <1>8 DEF IndexShape

\* A heart taken back: the entry goes and everything is indexed afresh.
LEMMA UnmarkKeeps ==
  ASSUME FilesShape, IndexShape, NEW p \in Path, Unmark(p)
  PROVE  IndexShape'
<1>1. FindLocked(p) \in 1..Len(Repaired(p)) /\ Repaired(p) \in Seq(Entry)
  BY Found, RepairKeeps DEF Unmark, IndexShape
<1>2. entries' \in Seq(Entry)
  BY <1>1, Shortened DEF Unmark
<1> QED BY <1>2, Replaced DEF Unmark

\* A write replaces the store or leaves memory marked unsaved.
LEMMA SaveKeeps ==
  ASSUME StoreShape, NEW list \in Seq(Entry), NEW needed \in BOOLEAN, SaveLocked(list, needed),
         entries' = list, ~needed => list = entries /\ ~dirty
  PROVE  StoreShape'
BY DEF StoreShape, SaveLocked, UnsavedIsDirty

\* A name read from the registry; the last one replaces the empty list.
LEMMA LoadKeeps ==
  ASSUME IInv, NEW p \in Path, LoadLocked(p)
  PROVE  IInv'
<1> DEFINE more == IF Known(p) THEN Append(brought, EntryFor(p)) ELSE brought
<1>1. more \in Seq(Entry) /\ store = None /\ entries = <<>>
  BY Found DEF LoadLocked, IInv, LoadShape
<1>2. FilesShape' /\ BoundsShape'
  BY DEF LoadLocked, IInv, files, bounds, FilesShape, BoundsShape, Known
<1> HIDE DEF more
<1>3. CASE toRead' # {}
  <2>1. brought' = more /\ UNCHANGED <<entries, index, dirty, store>>
    BY <1>3 DEF LoadLocked, more
  <2>2. LoadShape'
    BY <1>1, <2>1 DEF LoadLocked, IInv, LoadShape
  <2>3. IndexShape' /\ StoreShape'
    BY <2>1 DEF index, IInv, IndexShape, FolderCountExact, StoreShape, UnsavedIsDirty
  <2> QED BY <1>2, <2>2, <2>3 DEF IInv
<1>4. CASE toRead' = {}
  <2>1. /\ entries' = more /\ ReindexLocked(more) /\ dirty' = (more # <<>>)
        /\ brought' = <<>> /\ UNCHANGED <<store, marking>>
    BY <1>4 DEF LoadLocked, more
  <2>2. IndexShape'
    BY <1>1, <2>1, Replaced
  <2>3. StoreShape'
    BY <1>1, <2>1 DEF StoreShape, UnsavedIsDirty
  <2>4. LoadShape'
    BY <1>4, <2>1 DEF IInv, LoadShape
  <2> QED BY <1>2, <2>2, <2>3, <2>4 DEF IInv
<1> QED BY <1>3, <1>4

\* The shape of a load is kept by what neither begins nor continues one.
LEMMA NoLoad ==
  ASSUME LoadShape, UNCHANGED <<toRead, brought>>, marking' \in Path \cup {None},
         marking' # None => toRead = {}, UNCHANGED <<store, entries>> \/ toRead = {}
  PROVE  LoadShape'
BY DEF LoadShape

LEMMA SetKeeps ==
  ASSUME IInv, NEW p \in Path, NEW on \in BOOLEAN, FavouriteSet(p, on)
  PROVE  IInv'
<1>1. FilesShape' /\ BoundsShape'
  BY DEF FavouriteSet, IInv, files, FilesShape, BoundsShape, Known
<1>2. marking' \in Path \cup {None} => LoadShape'
  BY NoLoad DEF FavouriteSet, Free, IInv
<1>3. CASE BeginMark(p)
  BY <1>1, <1>2, <1>3 DEF BeginMark, index, IInv, IndexShape, FolderCountExact, StoreShape, UnsavedIsDirty
<1>4. CASE Unmark(p)
  <2>1. IndexShape' /\ LoadShape'
    BY <1>2, <1>4, UnmarkKeeps DEF Unmark, IInv, LoadShape
  <2>2. StoreShape'
    BY <1>4, <2>1 DEF Unmark, IndexShape, IInv, StoreShape, SaveLocked, UnsavedIsDirty
  <2> QED BY <1>1, <2>1, <2>2 DEF IInv
<1>5. CASE SetNothing(p)
  <2>1. IndexShape' /\ LoadShape'
    BY <1>2, <1>5, RepairKeeps DEF SetNothing, IInv, LoadShape
  <2>2. StoreShape'
    BY <1>5 DEF SetNothing, IInv, StoreShape, UnsavedIsDirty, Repaired
  <2> QED BY <1>1, <2>1, <2>2 DEF IInv
<1> QED BY <1>3, <1>4, <1>5 DEF FavouriteSet

LEMMA CallsKeep ==
  ASSUME IInv, Calls
  PROVE  IInv'
<1>1. CASE \E p \in Path : FavouriteGet(p)
  <2>1. PICK p \in Path : FavouriteGet(p)
    BY <1>1
  <2>2. IndexShape' /\ UNCHANGED <<files, bounds>>
    BY <2>1, RepairKeeps DEF FavouriteGet, IInv
  <2>3. StoreShape'
    BY <2>1 DEF FavouriteGet, IInv, StoreShape, UnsavedIsDirty
  <2>4. LoadShape'
    BY <2>1, NoLoad DEF FavouriteGet, Free, under, IInv, LoadShape
  <2> QED BY <2>2, <2>3, <2>4 DEF IInv, files, bounds, FilesShape, BoundsShape, Known
<1>2. CASE \E p \in Path : LoadLocked(p)
  BY <1>2, LoadKeeps
<1>3. CASE \E p \in Path : Mark(p)
  <2>1. PICK p \in Path : Mark(p)
    BY <1>3
  <2>2. IndexShape' /\ UNCHANGED <<files, bounds>>
    BY <2>1, MarkKeeps DEF Mark, IInv
  <2>3. StoreShape'
    BY <2>1, <2>2 DEF Mark, IndexShape, IInv, StoreShape, SaveLocked, UnsavedIsDirty
  <2>4. LoadShape'
    BY <2>1, NoLoad, FavouritesAssumption DEF Mark, IInv, LoadShape
  <2> QED BY <2>2, <2>3, <2>4 DEF IInv, files, bounds, FilesShape, BoundsShape, Known
<1>4. CASE \E p \in Path, on \in BOOLEAN : FavouriteSet(p, on)
  BY <1>4, SetKeeps
<1>5. CASE FavouritesFlush
  <2>1. IndexShape' /\ FilesShape' /\ BoundsShape'
    BY <1>5 DEF FavouritesFlush, IInv, files, index, bounds, IndexShape, FolderCountExact,
       FilesShape, BoundsShape, Known
  <2>2. StoreShape'
    BY <1>5 DEF FavouritesFlush, IInv, IndexShape, StoreShape, SaveLocked, UnsavedIsDirty
  <2>3. LoadShape'
    BY <1>5, NoLoad DEF FavouritesFlush, Free, under, IInv, LoadShape
  <2> QED BY <2>1, <2>2, <2>3 DEF IInv
<1>6. CASE Restart
  <2>1. store \in Seq(Entry) \cup {None} /\ entries' = Stored(store) /\ store' = store
    BY <1>6 DEF Restart, IInv, StoreShape
  <2>2. entries' \in Seq(Entry)
    BY <2>1 DEF Stored
  <2>3. IndexShape'
    BY <1>6, <2>2, Replaced DEF Restart
  <2>4. StoreShape'
    BY <1>6, <2>1 DEF Restart, StoreShape, UnsavedIsDirty, Stored
  <2>5. LoadShape'
    BY <1>6, <2>1 DEF Restart, LoadShape, Legacy, Stored
  <2> QED BY <1>6, <2>3, <2>4, <2>5 DEF Restart, IInv, files, FilesShape, BoundsShape, Known
<1> QED BY <1>1, <1>2, <1>3, <1>4, <1>5, <1>6 DEF Calls

\* What others do to the files changes nothing of this and gives no file two names.
LEMMA OthersKeep ==
  ASSUME IInv, Others
  PROVE  IInv'
<1>1. Change
  BY DEF Others, Create, Delete, Rename, Write
<1>2. IndexShape' /\ StoreShape' /\ LoadShape' /\ BoundsShape'
  BY <1>1 DEF Change, IInv, index, under, IndexShape, FolderCountExact, StoreShape, UnsavedIsDirty,
     LoadShape, BoundsShape
<1>3. FilesShape'
  <2>1. CASE \E f \in File, p \in Path : Create(f, p)
    BY <2>1, FavouritesAssumption DEF Create, Placed, IInv, FilesShape, Known
  <2>2. CASE \E p \in Path : Delete(p) \/ Write(p)
    BY <2>2 DEF Delete, Write, IInv, FilesShape, Known
  <2>3. CASE \E p, q \in Path : Rename(p, q)
    BY <2>3 DEF Rename, IInv, FilesShape, Known
  <2> QED BY <2>1, <2>2, <2>3 DEF Others
<1> QED BY <1>2, <1>3 DEF IInv

\* The inductive invariant, for every value of the constants.
THEOREM Invariance == Spec => []IInv
<1>1. Init => IInv
  <2> SUFFICES ASSUME Init PROVE IInv
    OBVIOUS
  <2>1. FilesShape /\ BoundsShape
    BY DEF Init, FilesShape, BoundsShape
  <2>2. entries = <<>> /\ store = None
    BY DEF Init, Stored
  <2>3. IndexShape
    <3>1. entries \in Seq(Entry)
      BY <2>2
    <3> QED BY <3>1, Reindexed DEF Init, IndexShape, FolderCountExact
  <2>4. StoreShape
    BY <2>2 DEF Init, StoreShape, UnsavedIsDirty
  <2>5. LoadShape
    BY <2>2 DEF Init, LoadShape, Legacy
  <2> QED BY <2>1, <2>3, <2>4, <2>5 DEF IInv
<1>2. IInv /\ [Next]_vars => IInv'
  <2> SUFFICES ASSUME IInv, [Next]_vars PROVE IInv'
    OBVIOUS
  <2>1. CASE UNCHANGED vars
    BY <2>1 DEF vars, IInv, FilesShape, IndexShape, FolderCountExact, StoreShape,
       UnsavedIsDirty, LoadShape, BoundsShape, Known
  <2> QED BY <2>1, CallsKeep, OthersKeep DEF Next
<1> QED BY <1>1, <1>2, PTL DEF Spec

\* Every reachable state has its types: no index leads beyond the vector.
THEOREM TypeCorrect == Spec => []TypeOK
<1>1. IInv => TypeOK
  <2> SUFFICES ASSUME IInv PROVE TypeOK
    OBVIOUS
  <2>1. \A d \in Folder : Cardinality(Inside(entries, d)) \in Nat
    BY InsideFinite DEF IInv, IndexShape
  <2>2. byFolder \in [Folder -> Nat]
    BY <2>1 DEF IInv, IndexShape, FolderCountExact, FolderIndex
  <2> QED BY <2>2 DEF IInv, FilesShape, IndexShape, Identities, Names, StoreShape, LoadShape,
             BoundsShape, TypeOK
<1> QED BY <1>1, Invariance, PTL

\* Whatever is renamed, deleted, marked and unmarked, and whenever, a question
\* about a marked file under the name it has finds an entry of this file.
THEOREM HeartFollows == Spec => []HeartFollowsFile
<1>1. IInv => HeartFollowsFile
  <2> SUFFICES ASSUME IInv, NEW i \in 1..Len(entries), NEW p \in Path,
                      entries[i].id # None, IdOf(p) = entries[i].id
               PROVE  \E j \in 1..Len(entries) : FindLocked(p) = j /\ entries[j].id = IdOf(p)
    BY DEF HeartFollowsFile
  <2>1. IdOf(p) \in File
    BY Found DEF IInv
  <2>2. ByIdentity(p) # 0
    BY <2>1, FavouritesAssumption DEF ByIdentity, IInv, IndexShape, Identities
  <2>3. ByIdentity(p) \in 1..Len(entries) /\ entries[ByIdentity(p)].id = IdOf(p)
    BY <2>2, Found DEF IInv, IndexShape
  <2> QED BY <2>2, <2>3 DEF FindLocked
<1> QED BY <1>1, Invariance, PTL

\* The badges of folders are exact.
THEOREM BadgesExact == Spec => []FolderCountExact
<1>1. IInv => FolderCountExact
  BY DEF IInv, IndexShape
<1> QED BY <1>1, Invariance, PTL

\* A name leads to an entry last seen there.
THEOREM NamesKnown == Spec => []NameIsLastKnown
<1>1. IInv => NameIsLastKnown
  BY DEF IInv, IndexShape, Names, NameIsLastKnown
<1> QED BY <1>1, Invariance, PTL

\* Whatever writes fail, what is not in the store is known to be unsaved.
THEOREM UnsavedKnown == Spec => []UnsavedIsDirty
<1>1. IInv => UnsavedIsDirty
  BY DEF IInv, StoreShape
<1> QED BY <1>1, Invariance, PTL
=============================================================================
