------------------------------- MODULE Viewer -------------------------------
(***************************************************************************)
(* The viewer (src/src/main.cpp, src/src/videomode.cpp): one window that    *)
(* shows a photograph or a film.  The window thread handles one message at  *)
(* a time; a decode worker answers the newest request with a listing, a     *)
(* screen frame, a full frame or the news that the file is a film after     *)
(* all; Video Mode's worker reads what a film's bytes are; the playback     *)
(* engine runs by itself.                                                   *)
(*                                                                          *)
(* Data: a file is its name's kind (Image, Film) and what is inside.  The   *)
(* frame cache is the choice of what a look into it finds, among what the   *)
(* file can yield.  Album and library are one screen, "album".  The         *)
(* resident viewer is modelled, which a close hides and does not end.       *)
(***************************************************************************)
EXTENDS Naturals, Sequences, ModeMachine

CONSTANTS
  Image, Film,   \* files by their extension
  FilmInside,    \* images whose bytes are a film's
  Broken,        \* images that do not decode at all
  Truncated,     \* images that yield a screen frame and no full one
  PhotoInside,   \* films whose bytes are a photograph's
  MaxCalls,      \* bound: what the user asks for, and endings of films
  None

Item == Image \cup Film

\* A film in the engine.
Session == [path : Item, generation : Nat, shown : BOOLEAN, ended : BOOLEAN]

ASSUME ViewerAssumption ==
  /\ Image \cap Film = {} /\ None \notin Item \cup Session
  /\ FilmInside \subseteq Image /\ Broken \subseteq Image /\ Truncated \subseteq Image
  /\ FilmInside \cap Broken = {} /\ Truncated \cap (FilmInside \cup Broken) = {}
  /\ PhotoInside \subseteq Film /\ MaxCalls \in Nat

VARIABLES
  mode,        \* mediaMode
  window,      \* what the window thread keeps
  latest,      \* the newest decode request's number
  request,     \* requested, with the flags a request leaves behind
  job,         \* what the decode worker is at
  ready,       \* results posted and not yet handled
  session,     \* the film in the engine
  videoWork,   \* Video Mode's worker: pending, held, finished
  advancedFor, \* the mode generation whose ending has been followed
  calls        \* bound

vars == <<mode, window, latest, request, job, ready, session, videoWork, advancedFor, calls>>
filmVars == <<session, videoWork>>

KindFromExtension(p) == IF p \in Image THEN "image" ELSE "video"
Decodable == (Image \ (FilmInside \cup Broken)) \cup PhotoInside

\* The frames a look into the caches may find, by name of the tier; a film's
\* tile is its poster, and a warm frame stands in like a tile.
Frames(p) == {t \in {"thumb", "screen", "full"} :
                /\ p \in Decodable \/ (t = "thumb" /\ p \in Film)
                /\ t = "full" => p \notin Truncated}
FrameOf(p, t) == [item |-> p, tier |-> t]

NoWork == [pending |-> None, held |-> None, finished |-> None]

\* Started with the session, in the background.
Init ==
  /\ mode = NoMode /\ latest = 0 /\ job = None /\ ready = <<>>
  /\ window = [screen |-> "album", preview |-> FALSE, hidden |-> TRUE, depth |-> 0,
               path |-> None, frame |-> None, loading |-> FALSE]
  /\ request = [item |-> None, full |-> FALSE, listOnly |-> FALSE]
  /\ session = None /\ videoWork = NoWork /\ advancedFor = 0 /\ calls = 0
-----------------------------------------------------------------------------
(* Opening and closing.  `w` is the window as the caller has prepared it.   *)

\* A departure from a film: VideoModeLeave.
ReleaseVideo ==
  IF ReleasesVideo(mode)
    THEN /\ session' = None
         /\ videoWork' = [videoWork EXCEPT !.pending = None, !.finished = None]
    ELSE UNCHANGED filmVars

Request(p, full, listOnly) ==
  /\ request' = [item |-> p, full |-> full, listOnly |-> listOnly]
  /\ latest' = latest + 1

\* Mutant: a worker still busy with the film before is not asked again.
VideoModeEnterIfIdle(p, generation) ==
  /\ session' = [path |-> p, generation |-> generation, shown |-> FALSE, ended |-> FALSE]
  /\ videoWork' = [videoWork EXCEPT
       !.pending = IF videoWork.held = None THEN [item |-> p, generation |-> generation] ELSE None,
       !.finished = None]
\* Leave whatever film there was and enter this one.
VideoModeEnter(p, generation) ==
  /\ session' = [path |-> p, generation |-> generation, shown |-> FALSE, ended |-> FALSE]
  /\ videoWork' = [videoWork EXCEPT !.pending = [item |-> p, generation |-> generation],
                                    !.finished = None]

OpenVideo(w, p) ==
  /\ mode' = ModeOpen(mode, "video")
  /\ window' = [w EXCEPT !.screen = "viewer", !.path = p, !.loading = FALSE,
                  !.frame = IF ReleasesImage(mode, "video") \/ p # w.path THEN None ELSE @]
  /\ VideoModeEnter(p, mode'.generation)
  /\ Request(p, FALSE, TRUE)

\* A frame found in a cache is shown at once, and shows a preview's window;
\* without one the frame of before stays until the worker answers.
OpenImage(w, p) ==
  \E wantFull \in BOOLEAN, found \in Frames(p) \cup {None} :
    /\ mode' = ModeOpen(mode, "image")
    /\ ReleaseVideo
    /\ window' = [w EXCEPT !.screen = "viewer", !.path = p,
                    !.frame = IF found = None THEN @ ELSE FrameOf(p, found),
                    !.loading = found \in {None, "thumb"} \/ (found = "screen" /\ wantFull),
                    !.hidden = @ /\ ~(w.preview /\ found # None)]
    /\ Request(p, wantFull, FALSE)

Open(w, p, kind) == IF kind = "video" THEN OpenVideo(w, p) ELSE OpenImage(w, p)

\* Mutant: closing leaves the film in the engine.
ReleaseOnClosePlaying == UNCHANGED filmVars
ReleaseOnClose == ReleaseVideo

\* Close, leaving the mode as m.
CloseThen(w, m) ==
  /\ mode' = m
  /\ ReleaseOnClose
  /\ window' = [w EXCEPT !.hidden = TRUE, !.preview = FALSE]
  /\ request' = IF w.preview THEN [request EXCEPT !.item = None] ELSE request
  /\ latest' = IF w.preview THEN latest + 1 ELSE latest
Close == CloseThen(window, ModeClose(mode))
-----------------------------------------------------------------------------
(* The user.                                                                *)

Visible == ~window.hidden /\ ~window.preview
Asked == calls < MaxCalls /\ calls' = calls + 1 /\ UNCHANGED <<job, ready, advancedFor>>

\* Navigate, or a file dropped on the viewer.
Navigate(p) ==
  Asked /\ Visible /\ window.screen = "viewer" /\ Open(window, p, KindFromExtension(p))

OpenPhotoFromAlbum(p) ==
  /\ Asked /\ Visible /\ window.screen = "album"
  /\ Open([window EXCEPT !.depth = @ + 1], p, KindFromExtension(p))

\* WM_COPYDATA: the shell hands a file to the resident viewer.
OpenFromShell(p) ==
  Asked /\ Open([window EXCEPT !.preview = FALSE, !.hidden = FALSE], p, KindFromExtension(p))

NormalWindow ==
  /\ Asked
  /\ window' = [window EXCEPT !.preview = FALSE, !.hidden = FALSE]
  /\ UNCHANGED <<mode, latest, request, filmVars>>

\* Mutant: the stack is popped without a look whether it is empty.
ViewerBackUnchecked ==
  /\ Asked /\ Visible /\ window.screen = "viewer"
  /\ window' = [window EXCEPT !.screen = "album", !.depth = @ - 1]
  /\ UNCHANGED <<mode, latest, request, filmVars>>
\* Back returns to the screen below without a word to the mode.
ViewerBack ==
  /\ Asked /\ Visible /\ window.screen = "viewer"
  /\ IF window.depth = 0
       THEN Close
       ELSE /\ window' = [window EXCEPT !.screen = "album", !.depth = @ - 1]
            /\ UNCHANGED <<mode, latest, request, filmVars>>

GoToLibrary ==
  /\ Asked /\ Visible
  /\ mode' = ModeClose(mode) /\ ReleaseVideo
  /\ window' = [window EXCEPT !.screen = "album"]
  /\ UNCHANGED <<latest, request>>

CloseWindow == Asked /\ ~window.hidden /\ Close

\* The space bar in the Explorer: shows the file selected there, or hides it.
Preview(p) ==
  /\ Asked
  /\ LET w == [window EXCEPT !.preview = TRUE, !.hidden = TRUE]
     IN  IF window.preview THEN Close
         ELSE IF window.frame # None /\ window.path = p
           THEN /\ window' = [w EXCEPT !.hidden = FALSE]
                /\ UNCHANGED <<mode, latest, request, filmVars>>
           ELSE OpenImage([w EXCEPT !.frame = None], p)

\* Mutant: the newer number is taken and nothing is asked under it.
FullAskedUnheard ==
  /\ latest' = latest + 1 /\ request' = [request EXCEPT !.full = TRUE]
\* The full tier of what is shown; the listing flag of before stays.
FullAsked ==
  /\ latest' = latest + 1 /\ request' = [request EXCEPT !.item = window.path, !.full = TRUE]

RequestFullResolution ==
  /\ Asked /\ Visible /\ window.screen = "viewer" /\ window.path # None
  /\ window.frame # None => window.frame.tier # "full"
  /\ ~(request.full /\ request.item = window.path)
  /\ FullAsked
  /\ window' = [window EXCEPT !.loading = TRUE]
  /\ UNCHANGED <<mode, filmVars>>

User ==
  \/ \E p \in Item : Navigate(p) \/ OpenPhotoFromAlbum(p) \/ OpenFromShell(p)
  \/ \E p \in Image : Preview(p)
  \/ NormalWindow \/ ViewerBack \/ GoToLibrary \/ CloseWindow \/ RequestFullResolution
-----------------------------------------------------------------------------
(* The decode worker.  A request is stale as soon as there is a newer one.  *)

Stale == job.id # latest
Take ==
  /\ job = None /\ request.item # None
  /\ job' = [item |-> request.item, id |-> latest, full |-> request.full,
             listOnly |-> request.listOnly, stage |-> "screen"]
  /\ request' = [request EXCEPT !.item = None]
  /\ UNCHANGED <<mode, window, latest, ready, filmVars, advancedFor, calls>>

Result == [id |-> job.id, item |-> job.item, tier |-> None, partial |-> FALSE,
           listOnly |-> FALSE, reroute |-> FALSE]
Post(r) == ready' = Append(ready, r)

Abandon == Stale /\ job' = None /\ UNCHANGED ready
List == ~Stale /\ job.listOnly /\ job' = None /\ Post([Result EXCEPT !.listOnly = TRUE])
DecodeScreen ==
  /\ ~Stale /\ ~job.listOnly /\ job.stage = "screen"
  /\ \/ /\ "full" \in Frames(job.item) \/ job.item \notin Decodable
        /\ job' = [job EXCEPT !.stage = "full"] /\ UNCHANGED ready
     \/ /\ job.item \in Decodable
        /\ Post([Result EXCEPT !.tier = "screen", !.partial = job.full])
        /\ job' = IF job.full THEN [job EXCEPT !.stage = "full"] ELSE None
\* The full tier; failing that the screen frame, if it is still cached; and
\* for bytes that are no photograph's, what they are.
Decode ==
  /\ ~Stale /\ job.stage = "full"
  /\ job' = None
  /\ \/ "full" \in Frames(job.item) /\ Post([Result EXCEPT !.tier = "full"])
     \/ job.item \in Truncated /\ Post([Result EXCEPT !.tier = "screen", !.partial = TRUE])
     \/ "full" \notin Frames(job.item) /\ Post([Result EXCEPT !.reroute = job.item \in FilmInside])

Worker ==
  \/ Take
  \/ /\ job # None /\ (Abandon \/ List \/ DecodeScreen \/ Decode)
     /\ UNCHANGED <<mode, window, latest, request, filmVars, advancedFor, calls>>
-----------------------------------------------------------------------------
(* The window thread's messages.                                            *)

\* Mutant: results are shown whichever request they answer.
CurrentAlways(r) == TRUE
Current(r) == r.id = latest

\* What a frame that has arrived does to the window and the mode.
Show(r) ==
  IF r.tier # None
    THEN /\ window' = [window EXCEPT !.frame = FrameOf(r.item, r.tier), !.loading = r.partial,
                                     !.hidden = @ /\ ~window.preview]
         /\ mode' = ModeReady(mode)
         /\ UNCHANGED <<latest, request, filmVars>>
    ELSE LET w == [window EXCEPT !.frame = None, !.loading = r.partial]
         IN  IF window.preview THEN CloseThen(w, ModeFailed(ModeClose(mode)))
             ELSE /\ window' = w /\ mode' = ModeFailed(mode)
                  /\ UNCHANGED <<latest, request, filmVars>>

Loaded ==
  /\ ready # <<>> /\ ready' = Tail(ready)
  /\ LET r == Head(ready)
     IN  \/ /\ ~Current(r) \/ r.listOnly
            /\ UNCHANGED <<mode, window, latest, request, filmVars>>
         \/ Current(r) /\ r.reroute /\ OpenVideo(window, r.item)
         \/ Current(r) /\ ~r.listOnly /\ ~r.reroute /\ Show(r)
  /\ UNCHANGED <<job, advancedFor, calls>>

\* A thumbnail stands in for a frame that is not there.
ThumbReady ==
  /\ window.screen = "viewer" /\ ~InVideo(mode) /\ window.frame = None
  /\ window.path # None /\ "thumb" \in Frames(window.path)
  /\ window' = [window EXCEPT !.frame = FrameOf(window.path, "thumb")]
  /\ UNCHANGED <<mode, latest, request, job, ready, filmVars, advancedFor, calls>>

Collected(f) ==
  f # None /\ f.generation = mode.generation /\ f.generation = session.generation

\* The engine's wake-up and the worker's answer are one message.
Ended == session.ended /\ advancedFor # mode.generation
Advance == \E next \in Film \ {window.path} : OpenVideo(window, next)
Pump ==
  LET shown == IF session.shown /\ mode.state = "VideoPreparing" THEN ModeReady(mode) ELSE mode
      f == videoWork.finished
  IN  \/ /\ Collected(f) /\ f.item \in PhotoInside
         /\ OpenImage(window, window.path)
      \/ /\ ~(Collected(f) /\ f.item \in PhotoInside)
         /\ videoWork' = [videoWork EXCEPT !.finished = None]
         /\ \/ mode' = shown
            \/ Collected(f) /\ mode' = ModeReady(shown)      \* with a poster
         /\ UNCHANGED <<window, latest, request, session>>
VideoReady ==
  /\ InVideo(mode)
  /\ \/ Ended /\ advancedFor' = mode.generation /\ (Advance \/ Pump)
     \/ /\ videoWork.finished # None \/ (session.shown /\ mode.state = "VideoPreparing")
        /\ ~Ended /\ UNCHANGED advancedFor /\ Pump
  /\ UNCHANGED <<job, ready, calls>>
-----------------------------------------------------------------------------
(* Video Mode's worker and the engine.                                      *)

VideoTake ==
  /\ videoWork.held = None /\ videoWork.pending # None
  /\ videoWork' = [videoWork EXCEPT !.held = videoWork.pending, !.pending = None]
VideoAnswer ==
  /\ videoWork.held # None
  /\ videoWork' = [videoWork EXCEPT !.finished = videoWork.held, !.held = None]
VideoWorker ==
  /\ VideoTake \/ VideoAnswer
  /\ UNCHANGED <<mode, window, latest, request, job, ready, session, advancedFor, calls>>

EngineShows ==
  /\ session # None /\ ~session.shown
  /\ session' = [session EXCEPT !.shown = TRUE]
  /\ UNCHANGED calls
EngineEnds ==
  /\ session # None /\ session.shown /\ ~session.ended /\ calls < MaxCalls
  /\ session' = [session EXCEPT !.ended = TRUE]
  /\ calls' = calls + 1
Engine ==
  /\ EngineShows \/ EngineEnds
  /\ UNCHANGED <<mode, window, latest, request, job, ready, videoWork, advancedFor>>

Next == User \/ Worker \/ Loaded \/ ThumbReady \/ VideoReady \/ VideoWorker \/ Engine

Spec == Init /\ [][Next]_vars
\* Threads that are not blocked run, and messages posted are handled.
FairSpec == Spec /\ WF_vars(Worker) /\ WF_vars(Loaded) /\ WF_vars(VideoReady)
                 /\ WF_vars(VideoWorker)
-----------------------------------------------------------------------------
(* What the viewer promises.                                                *)

\* Types.
Job == [item : Item, id : Nat, full : BOOLEAN, listOnly : BOOLEAN, stage : {"screen", "full"}]
Answer == [id : Nat, item : Item, tier : {None, "screen", "full"}, partial : BOOLEAN,
           listOnly : BOOLEAN, reroute : BOOLEAN]
Window == [screen : {"viewer", "album"}, preview : BOOLEAN, hidden : BOOLEAN, depth : Nat,
           path : Item \cup {None},
           frame : [item : Item, tier : {"thumb", "screen", "full"}] \cup {None},
           loading : BOOLEAN]
TypeOK ==
  /\ mode \in [state : ModeState, generation : Nat]
  /\ window \in Window
  /\ request \in [item : Item \cup {None}, full : BOOLEAN, listOnly : BOOLEAN]
  /\ latest \in Nat /\ job \in Job \cup {None} /\ ready \in Seq(Answer)
  /\ session \in Session \cup {None}
  /\ advancedFor \in 0..mode.generation /\ calls \in 0..MaxCalls

\* A photograph on screen that is not said to be loading is the photograph
\* the title, Save, Copy and Print speak of.
PhotographIsItself ==
  InImage(mode) /\ ~window.loading /\ window.frame # None => window.frame.item = window.path

\* The engine holds a film exactly while the mode is video: the film the
\* window names, entered for the mode's own generation.
SessionMatchesMode ==
  /\ InVideo(mode) <=> session # None
  /\ InVideo(mode) => session.path = window.path /\ session.generation = mode.generation

\* What is being prepared is shown, found to be a film, refused or left.
OpenSettles == mode.state = "ImagePreparing" ~> mode.state # "ImagePreparing"

\* A file whose name lies does not stay in the mode its name called for.
Misplaced ==
  \/ InImage(mode) /\ window.path \in FilmInside
  \/ InVideo(mode) /\ window.path \in PhotoInside
MisnamedIsCorrected == Misplaced ~> ~Misplaced

\* modes.h, of Close: "The viewer left the media surface entirely: library,
\* album, or shutdown", and main.cpp on films that play in a hidden window.
FilmIsWatched == session # None => window.screen = "viewer" /\ ~window.hidden
=============================================================================
