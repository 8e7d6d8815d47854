---- MODULE MCFavourites ----
EXTENDS Favourites
MCFolderOf == [p \in Path |-> IF p = "c:a" THEN "c" ELSE IF p = "c:b" THEN "c:sub" ELSE "d"]
====
