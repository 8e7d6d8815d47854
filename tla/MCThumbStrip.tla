---- MODULE MCThumbStrip ----
EXTENDS ThumbStrip
CONSTANTS p1, p2
MCPath == {p1, p2}
MCStrip == <<p1, p2>>
====
