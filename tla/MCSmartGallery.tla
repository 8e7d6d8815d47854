---- MODULE MCSmartGallery ----
EXTENDS SmartGallery
CONSTANT p1
MCPhoto == {p1}
MCLastStamp == [p \in MCPhoto |-> 2]
====
