----------------------------- MODULE ThumbStrip -----------------------------
(***************************************************************************)
(* The filmstrip in front of the thumbnail cache: the UI thread paints a   *)
(* strip of siblings from its own GPU tiles (thumbBitmaps in main.cpp),    *)
(* asking the cache for every tile on every frame, moving the selected one *)
(* to the head of the queue at the end of the frame, and trimming the      *)
(* cache when another folder is opened; the smart gallery's worker asks    *)
(* for tiles of its own at any time.                                       *)
(*                                                                         *)
(* A frame is painted one call at a time, since the cache's mutex is       *)
(* released between the calls.                                             *)
(***************************************************************************)
EXTENDS ThumbCache

CONSTANT Strip   \* the paths of Path in the order a frame paints them

ASSUME StripAssumption ==
  Strip \in Seq(Path) /\ ToSet(Strip) = Path /\ Len(Strip) = Cardinality(Path)

VARIABLES
  siblings,  \* the open folder's photographs
  current,   \* the selected one
  cursor,    \* the frame's next call, 0 when no frame is being painted
  tile       \* tile[p]: the write its GPU tile shows, 0 for none

uiVars == <<siblings, current, cursor, tile>>
stripVars == <<entries, queue, worker, posted, phase, disk,
               siblings, current, cursor, tile>>

NoTiles == [p \in Path |-> 0]
LastCall == 2 * Len(Strip) + 1

StripInit ==
  /\ Init
  /\ siblings = Path /\ current \in Path
  /\ cursor = 0 /\ tile = NoTiles

UiFree == phase = "running" /\ cursor = 0

StartFrame ==
  /\ UiFree
  /\ cursor' = 1 /\ posted' = FALSE
  /\ UNCHANGED <<entries, queue, worker, phase, disk, siblings, current, tile>>

\* ThumbRequest for the sibling at this place of the strip.
AskTile ==
  /\ cursor \in 1..(LastCall - 1) /\ cursor % 2 = 1
  /\ LET p == Strip[(cursor + 1) \div 2]
     IN  IF p \in siblings THEN ThumbRequest(p) ELSE UNCHANGED cacheVars
  /\ cursor' = cursor + 1
  /\ UNCHANGED <<worker, posted, phase, disk, siblings, current, tile>>

\* A tile the GPU does not hold is made from what the cache holds.
DrawTile ==
  /\ cursor \in 1..(LastCall - 1) /\ cursor % 2 = 0
  /\ LET p == Strip[cursor \div 2]
     IN  IF p \in siblings /\ tile[p] = 0
           THEN tile' = [tile EXCEPT ![p] = entries[p].image] /\ ThumbLookup(p)
           ELSE UNCHANGED <<tile, entries, queue>>
  /\ cursor' = cursor + 1
  /\ UNCHANGED <<worker, posted, phase, disk, siblings, current>>

\* Mutant: the repaint is marked as done when the frame ends.
EndFrameClearing ==
  /\ cursor = LastCall
  /\ cursor' = 0 /\ posted' = FALSE
  /\ UNCHANGED <<entries, queue, worker, phase, disk, siblings, current, tile>>

EndFrame ==
  /\ cursor = LastCall
  /\ IF current \in siblings THEN ThumbPrioritize(current) ELSE UNCHANGED cacheVars
  /\ cursor' = 0
  /\ UNCHANGED <<worker, posted, phase, disk, siblings, current, tile>>

\* A folder's listing arrives: the strip follows it and a repaint is due.
OpenFolder ==
  /\ UiFree
  /\ siblings' \in SUBSET Path \ {{}} /\ current' \in siblings'
  /\ siblings' # siblings
  /\ ThumbTrim(siblings')
  /\ posted' = TRUE
  /\ UNCHANGED <<worker, phase, disk, cursor, tile>>

ReleaseBitmaps ==
  /\ UiFree
  /\ tile' = NoTiles /\ posted' = TRUE
  /\ UNCHANGED <<entries, queue, worker, phase, disk, siblings, current, cursor>>

SmartGalleryAsks(p) ==
  /\ phase = "running"
  /\ ThumbRequest(p) \/ ThumbLookup(p)
  /\ UNCHANGED <<worker, posted, phase, disk, siblings, current, cursor, tile>>

Ui == StartFrame \/ AskTile \/ DrawTile \/ EndFrame

StripNext ==
  \/ Ui \/ OpenFolder \/ ReleaseBitmaps
  \/ \E p \in Path : SmartGalleryAsks(p)
  \/ cursor = 0 /\ BeginStop /\ UNCHANGED uiVars
  \/ /\ FinishStop \/ Tick \/ Files \/ \E w \in Worker : Work(w) \/ Exit(w)
     /\ UNCHANGED uiVars

\* The strip is on screen and being looked at, so that frames keep coming;
\* threads able to run do run, and time passes.
StripFairness ==
  /\ WF_stripVars(Ui) /\ WF_stripVars(Tick /\ UNCHANGED uiVars)
  /\ WF_stripVars(FinishStop /\ UNCHANGED uiVars)
  /\ \A w \in Worker : WF_stripVars((Work(w) \/ Exit(w)) /\ UNCHANGED uiVars)
StripSpec == StripInit /\ [][StripNext]_stripVars /\ StripFairness
-----------------------------------------------------------------------------
\* A decoded tile is never left unpainted: if no frame is being painted, no
\* repaint is due and no thread is about to post one, every sibling the cache
\* holds an image of has a tile on the strip.
DecodedIsPainted ==
  cursor = 0 /\ ~posted /\ (\A w \in Worker : worker[w].pc # "post")
    => \A p \in siblings : entries[p].image # 0 => tile[p] # 0
=============================================================================
