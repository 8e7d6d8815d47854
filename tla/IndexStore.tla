----------------------------- MODULE IndexStore -----------------------------
(***************************************************************************)
(* The library's store (src/src/index.cpp): the folders by identity, their *)
(* photographs by path, the identity last seen at each path, and the count *)
(* shown while scanning.  All four are changed under one mutex, so each    *)
(* operation is one step of whichever thread calls it.                     *)
(*                                                                         *)
(* Data: an identity is the number the file system gave, or, for a path    *)
(* that was not there when it was asked, the hash of the path, for which   *)
(* the path itself stands; a folder's listing is the set of the supported  *)
(* images directly inside it.                                              *)
(*                                                                         *)
(* Keys are paths in lower case, not normalised, and one folder is spelled *)
(* in two ways: the watcher calls the root of the drive "C:", for "C:\".   *)
(* To the file system "C:" is the folder the process was started in.       *)
(***************************************************************************)
EXTENDS Integers, FiniteSets, FiniteSetsExt

CONSTANTS
  Folder,     \* folder paths, normalised
  Alias,      \* "C:"
  Photo,      \* the names photographs have
  MaxId,      \* bound: identities the file system hands out
  Technical   \* folders with a technical name ("assets", "icons", ...)

ASSUME StoreAssumption ==
  /\ MaxId \in Nat \ {0} /\ Technical \subseteq Folder
  /\ Alias \notin Folder /\ "none" \notin Folder \cup {Alias}
  /\ (Folder \cup {Alias}) \cap Nat = {}
  /\ IsFiniteSet(Photo)

VARIABLES
  folders,         \* folders[i]: the path identity i is listed under, or "none"
  photosByFolder,  \* photosByFolder[p]: the listing kept for p, {} for no entry
  folderIdByPath,  \* folderIdByPath[p]: the identity stored at p, 0 for none
  knownPhotos,     \* the count
  current          \* the folder on the drive the process was started in

store == <<folders, photosByFolder, folderIdByPath, knownPhotos>>

Spelling == Folder \cup {Alias}
NormalisePath(p) == IF p = Alias THEN current ELSE p
Id == 1..MaxId
Identity == Id \cup Spelling
Listed == {p \in Spelling : \E i \in Identity : folders[i] = p}

EmptyStore ==
  /\ folders = [i \in Identity |-> "none"]
  /\ photosByFolder = [p \in Spelling |-> {}]
  /\ folderIdByPath = [p \in Spelling |-> 0]
  /\ knownPhotos = 0

\* The listing of f without the identity i, which may be 0.
Without(f, i) == [j \in Identity |-> IF j = i THEN "none" ELSE f[j]]

\* The other path the folder i is listed under, as it is normalised now.
Former(f, p, i) == IF f[i] = "none" THEN {} ELSE {NormalisePath(f[i])} \ {p}

\* Mutant: photographs dropped with the folder's former path stay counted.
StoreFolderMiscounting(p, i, found) ==
  LET former == Former(folders, p, i)
      photos == [q \in Spelling |-> IF q \in former THEN {} ELSE photosByFolder[q]]
      keep == found # {} /\ p \notin Technical
  IN  /\ folders' = IF keep THEN [folders EXCEPT ![i] = p] ELSE Without(folders, folderIdByPath[p])
      /\ photosByFolder' = [photos EXCEPT ![p] = IF keep THEN found ELSE {}]
      /\ folderIdByPath' = [folderIdByPath EXCEPT ![p] = IF keep THEN i ELSE 0]
      /\ knownPhotos' = knownPhotos - Cardinality(photos[p]) + IF keep THEN Cardinality(found) ELSE 0

\* Mutant: nothing is dropped for the path a folder moved from.
StoreFolderLeavingOldPath(p, i, found) ==
  LET keep == found # {} /\ p \notin Technical
  IN  /\ folders' = IF keep THEN [folders EXCEPT ![i] = p] ELSE Without(folders, folderIdByPath[p])
      /\ photosByFolder' = [photosByFolder EXCEPT ![p] = IF keep THEN found ELSE {}]
      /\ folderIdByPath' = [folderIdByPath EXCEPT ![p] = IF keep THEN i ELSE 0]
      /\ knownPhotos' = knownPhotos - Cardinality(photosByFolder[p])
                          + IF keep THEN Cardinality(found) ELSE 0

\* A listing of p, found to have identity i, replaces what is known of p and
\* of the path the same folder was listed under before.
StoreFolder(p, i, found) ==
  LET was == folderIdByPath[p]
      unlisted == IF was # i THEN Without(folders, was) ELSE folders
      former == Former(unlisted, p, i)
      photos == [q \in Spelling |-> IF q \in former THEN {} ELSE photosByFolder[q]]
      ids == [q \in Spelling |-> IF q \in former THEN 0 ELSE folderIdByPath[q]]
      dropped == UNION {photosByFolder[q] : q \in former}
      count == knownPhotos - Cardinality(dropped) - Cardinality(photos[p])
      keep == found # {} /\ p \notin Technical
  IN  /\ folders' = IF keep THEN [unlisted EXCEPT ![i] = p] ELSE Without(unlisted, ids[p])
      /\ photosByFolder' = [photos EXCEPT ![p] = IF keep THEN found ELSE {}]
      /\ folderIdByPath' = [ids EXCEPT ![p] = IF keep THEN i ELSE 0]
      /\ knownPhotos' = count + IF keep THEN Cardinality(found) ELSE 0

RemoveFolder(p) ==
  /\ folders' = Without(folders, folderIdByPath[p])
  /\ photosByFolder' = [photosByFolder EXCEPT ![p] = {}]
  /\ folderIdByPath' = [folderIdByPath EXCEPT ![p] = 0]
  /\ knownPhotos' = knownPhotos - Cardinality(photosByFolder[p])

NoLists ==
  /\ folders' = [i \in Identity |-> "none"]
  /\ photosByFolder' = [p \in Spelling |-> {}]
  /\ knownPhotos' = 0

\* Mutant: the photographs themselves are not dropped.
ClearKeepingPhotos ==
  /\ folders' = [i \in Identity |-> "none"] /\ knownPhotos' = 0
  /\ UNCHANGED <<photosByFolder, folderIdByPath>>

\* A full rebuild starts from an empty gallery; the identities by path stay.
Clear == NoLists /\ UNCHANGED folderIdByPath

\* What SaveCache writes: for each folder listed, its path and the
\* photographs kept for that path.
Saved == [i \in Identity |->
            [path |-> folders[i],
             photos |-> IF folders[i] = "none" THEN {} ELSE photosByFolder[folders[i]]]]

\* LoadCache leaves out the folders without photographs and counts each line
\* of the file; of two lines for one path the last read gives the identity.
LoadCache(saved) ==
  LET kept == {i \in Identity : saved[i].photos # {}}
      at(p) == {i \in kept : saved[i].path = p}
  IN  /\ folders' = [i \in Identity |-> IF i \in kept THEN saved[i].path ELSE "none"]
      /\ photosByFolder' = [p \in Spelling |-> UNION {saved[i].photos : i \in at(p)}]
      /\ folderIdByPath' \in [Spelling -> Identity \cup {0}]
      /\ \A p \in Spelling : IF at(p) = {} THEN folderIdByPath'[p] = 0
                                         ELSE folderIdByPath'[p] \in at(p)
      /\ knownPhotos' = MapThenSumSet(LAMBDA i : Cardinality(saved[i].photos), kept)

StoreTypes ==
  /\ folders \in [Identity -> Spelling \cup {"none"}]
  /\ photosByFolder \in [Spelling -> SUBSET Photo]
  /\ folderIdByPath \in [Spelling -> Identity \cup {0}]
  /\ knownPhotos \in Nat

\* Photographs kept are kept under an identity, and an identity recorded for a
\* path is listed under that path.
Linked ==
  \A p \in Spelling :
    /\ folderIdByPath[p] # 0 => folders[folderIdByPath[p]] = p
    /\ photosByFolder[p] # {} => folderIdByPath[p] # 0
=============================================================================
