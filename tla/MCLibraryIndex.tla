---- MODULE MCLibraryIndex ----
EXTENDS LibraryIndex
\* Fewer states to start from: each folder but the root holds photographs, one
\* that is no project is there, and the first start is from another drive.
MCInit ==
  /\ Init /\ current = Root
  /\ \A p \in Folder : Here(p) => disk[p].photos = IF p = Root THEN {} ELSE Photo
  /\ \E p \in Folder \ (Project \cup {Root}) : Here(p)
MCSpec == MCInit /\ [][Next]_vars /\ Fairness
====
