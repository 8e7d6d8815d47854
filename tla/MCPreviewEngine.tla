---- MODULE MCPreviewEngine ----
EXTENDS PreviewEngine
\* Leisure, and a hurry that forbids previews and shrinks the cache.  Five
\* stills, one at each bucket, are more than either budget holds.
MCGrants == {[allowed |-> TRUE, settle |-> TRUE, scale |-> 2, budget |-> 9],
             [allowed |-> FALSE, settle |-> FALSE, scale |-> 1, budget |-> 8]}
====
