---------------------------- MODULE ModeMachine ----------------------------
(***************************************************************************)
(* The presentation modes (src/src/modes.cpp): which of the two, photograph *)
(* or film, owns the media surface, and what a departure hands back to be   *)
(* released.  The machine is pure, so it is operators on a record here.     *)
(* Animated images are images and audio is video, as in the code's          *)
(* PreparingFor; nothing in src/ enters the state Probing.                  *)
(***************************************************************************)
EXTENDS Naturals

Kind == {"image", "video"}
ModeState == {"Empty", "ImagePreparing", "ImageActive",
              "VideoPreparing", "VideoActive", "Error"}

NoMode == [state |-> "Empty", generation |-> 0]

InVideo(m) == m.state \in {"VideoPreparing", "VideoActive"}
InImage(m) == m.state \in {"ImagePreparing", "ImageActive"}

PreparingFor(kind) == IF kind = "image" THEN "ImagePreparing" ELSE "VideoPreparing"

\* What ModeTransition reports when `next` is opened.
ReleasesVideo(m) == InVideo(m)
ReleasesImage(m, next) == InImage(m) /\ next = "video"

ModeOpen(m, next) == [state |-> PreparingFor(next), generation |-> m.generation + 1]

ModeReady(m) ==
  [m EXCEPT !.state = CASE @ = "ImagePreparing" -> "ImageActive"
                        [] @ = "VideoPreparing" -> "VideoActive"
                        [] OTHER -> @]

ModeFailed(m) == [m EXCEPT !.state = "Error"]

ModeClose(m) == [state |-> "Empty", generation |-> m.generation + 1]
=============================================================================
