---- MODULE MCThumbCache ----
EXTENDS ThumbCache, TLC
Symm == Permutations(Path) \cup Permutations(Worker)
====
