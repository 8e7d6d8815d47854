----------------------------- MODULE ViewerProofs -----------------------------
(***************************************************************************)
(* Proofs about Viewer, for any files, whatever their bytes, and any number *)
(* of calls: what is shown is what is named, and the film in the engine is  *)
(* the mode's.                                                              *)
(*                                                                          *)
(* Neither holds by itself: both depend on what may still answer the newest *)
(* request.  A job or a result that carries the newest number is for the    *)
(* file the window names, and in a video mode it is nothing but a listing.  *)
(***************************************************************************)
EXTENDS Viewer, SequenceTheorems, TLAPS

\* What carries the newest number speaks of the file the window names.
AnswerOf(a) == a.id <= latest /\ (a.id = latest => a.item = window.path)
AnswersAreNamed ==
  /\ request.item \in {None, window.path}
  /\ job # None => AnswerOf(job)
  /\ \A i \in 1..Len(ready) : AnswerOf(ready[i])

\* In a video mode the decode worker only lists.
OnlyListed ==
  /\ job # None /\ job.stage = "full" => ~job.listOnly
  /\ InVideo(mode) =>
       /\ request.listOnly
       /\ job # None /\ job.id = latest => job.listOnly
       /\ \A i \in 1..Len(ready) : ready[i].id = latest => ready[i].listOnly

IInv == TypeOK /\ AnswersAreNamed /\ OnlyListed /\ SessionMatchesMode /\ PhotographIsItself

-----------------------------------------------------------------------------
\* What a handler may leave behind of the results posted.
Fewer == /\ ready' \in Seq(Answer)
         /\ \A i \in 1..Len(ready') : \E j \in 1..Len(ready) : ready'[i] = ready[j]
\* What an opening or a closing finds done by its caller.
Around == job' = job /\ Fewer /\ calls' \in 0..MaxCalls /\ advancedFor' \in 0..mode.generation

LEMMA InitKeeps == Init => IInv
  BY ViewerAssumption DEF Init, IInv, TypeOK, AnswersAreNamed, OnlyListed, SessionMatchesMode,
     PhotographIsItself, NoMode, InVideo, InImage, ModeState, Window

LEMMA SameFewer == ASSUME TypeOK, ready' = ready PROVE Fewer
  BY DEF TypeOK, Fewer

LEMMA TailFewer == ASSUME TypeOK, ready # <<>>, ready' = Tail(ready) PROVE Fewer
<1>1. ready \in Seq(Answer) BY DEF TypeOK
<1>2. Len(ready) \in Nat /\ Len(ready) > 0 BY <1>1
<1>3. Tail(ready) \in Seq(Answer) /\ Len(Tail(ready)) = Len(ready) - 1 BY <1>1
<1>4. ASSUME NEW i \in 1..Len(Tail(ready))
      PROVE  \E j \in 1..Len(ready) : Tail(ready)[i] = ready[j]
  <2>1. i + 1 \in 1..Len(ready) BY <1>2, <1>3
  <2>2. Tail(ready)[i] = ready[i + 1] BY <1>1, <1>2, <1>3
  <2> QED BY <2>1, <2>2
<1> QED BY <1>3, <1>4 DEF Fewer

\* Results left over from before a new number is taken do not carry it.
LEMMA FewerAreOld ==
  ASSUME IInv, Around, latest' = latest + 1
  PROVE  /\ \A i \in 1..Len(ready') : ready'[i].id <= latest' /\ ready'[i].id # latest'
         /\ job' # None => job'.id <= latest' /\ job'.id # latest'
<1>1. latest \in Nat /\ ready \in Seq(Answer) /\ job \in Job \cup {None} BY DEF IInv, TypeOK
<1>2. \A i \in 1..Len(ready) : ready[i].id \in Nat /\ ready[i].id <= latest
  <2>1. \A i \in 1..Len(ready) : ready[i] \in Answer BY <1>1
  <2> QED BY <2>1 DEF IInv, AnswersAreNamed, AnswerOf, Answer
<1>3. job # None => job.id \in Nat /\ job.id <= latest
  BY <1>1 DEF IInv, AnswersAreNamed, AnswerOf, Job
<1>4. ASSUME NEW i \in 1..Len(ready')
      PROVE  ready'[i].id <= latest' /\ ready'[i].id # latest'
  <2>1. PICK j \in 1..Len(ready) : ready'[i] = ready[j] BY DEF Around, Fewer
  <2> QED BY <1>1, <1>2, <2>1
<1>5. job' # None => job'.id <= latest' /\ job'.id # latest' BY <1>1, <1>3 DEF Around
<1> QED BY <1>4, <1>5

\* The new request is the only one that may be answered: it speaks of p.
LEMMA RequestKeeps ==
  ASSUME IInv, Around, NEW p \in Item, NEW full \in BOOLEAN, NEW listOnly \in BOOLEAN,
         Request(p, full, listOnly), window'.path = p, InVideo(mode') => listOnly
  PROVE  /\ AnswersAreNamed' /\ OnlyListed'
         /\ request' \in [item : Item \cup {None}, full : BOOLEAN, listOnly : BOOLEAN]
         /\ latest' \in Nat /\ job' \in Job \cup {None} /\ ready' \in Seq(Answer)
<1>1. latest' = latest + 1 BY DEF Request
<1>2. /\ \A i \in 1..Len(ready') : ready'[i].id <= latest' /\ ready'[i].id # latest'
      /\ job' # None => job'.id <= latest' /\ job'.id # latest'
  BY <1>1, FewerAreOld
<1>3. request' = [item |-> p, full |-> full, listOnly |-> listOnly] BY DEF Request
<1>4. AnswersAreNamed' BY <1>2, <1>3 DEF AnswersAreNamed, AnswerOf
<1>5. (job # None /\ job.stage = "full" => ~job.listOnly)' BY DEF IInv, OnlyListed, Around
<1>6. OnlyListed' BY <1>2, <1>3, <1>5 DEF OnlyListed
<1>7. latest' \in Nat BY <1>1 DEF IInv, TypeOK
<1>8. job' \in Job \cup {None} /\ ready' \in Seq(Answer)
  BY DEF IInv, TypeOK, Around, Fewer
<1> QED BY <1>3, <1>4, <1>6, <1>7, <1>8

LEMMA OpenVideoKeeps ==
  ASSUME IInv, Around, NEW w \in Window, NEW p \in Item, OpenVideo(w, p)
  PROVE  IInv'
<1>1. mode' = [state |-> "VideoPreparing", generation |-> mode.generation + 1]
  BY DEF OpenVideo, ModeOpen, PreparingFor
<1>2. mode.generation \in Nat /\ advancedFor' \in 0..mode.generation /\ calls' \in 0..MaxCalls
  BY DEF IInv, TypeOK, Around
<1>3. mode' \in [state : ModeState, generation : Nat] /\ advancedFor' \in 0..mode'.generation
  BY <1>1, <1>2 DEF ModeState
<1>4. InVideo(mode') /\ ~InImage(mode') BY <1>1 DEF InVideo, InImage
<1>5. window' \in Window /\ window'.path = p
  <2>1. \E f \in {None, w.frame} :
          window' = [w EXCEPT !.screen = "viewer", !.path = p, !.loading = FALSE, !.frame = f]
    BY DEF OpenVideo, Window
  <2> QED BY <2>1 DEF Window
<1>6. session' = [path |-> p, generation |-> mode'.generation, shown |-> FALSE, ended |-> FALSE]
  BY DEF OpenVideo, VideoModeEnter
<1>7. session' \in Session /\ session' # None
  <2>1. session' \in Session BY <1>3, <1>6 DEF Session
  <2>2. None \notin Session BY ViewerAssumption DEF ViewerAssumption
  <2> QED BY <2>1, <2>2
<1>8. Request(p, FALSE, TRUE) BY DEF OpenVideo
<1>9. /\ AnswersAreNamed' /\ OnlyListed'
      /\ request' \in [item : Item \cup {None}, full : BOOLEAN, listOnly : BOOLEAN]
      /\ latest' \in Nat /\ job' \in Job \cup {None} /\ ready' \in Seq(Answer)
  BY <1>5, <1>8, RequestKeeps
<1>10. TypeOK' BY <1>2, <1>3, <1>5, <1>7, <1>9 DEF TypeOK
<1>11. SessionMatchesMode' BY <1>4, <1>5, <1>6, <1>7 DEF SessionMatchesMode
<1>12. PhotographIsItself' BY <1>4 DEF PhotographIsItself
<1> QED BY <1>9, <1>10, <1>11, <1>12 DEF IInv

LEMMA ReleaseVideoKeeps ==
  ASSUME IInv, ReleaseVideo, ~InVideo(mode')
  PROVE  SessionMatchesMode' /\ session' \in Session \cup {None}
<1>1. CASE InVideo(mode)
  BY <1>1 DEF ReleaseVideo, ReleasesVideo, SessionMatchesMode
<1>2. CASE ~InVideo(mode)
  BY <1>2 DEF ReleaseVideo, ReleasesVideo, filmVars, SessionMatchesMode, IInv, TypeOK
<1> QED BY <1>1, <1>2

LEMMA OpenImageKeeps ==
  ASSUME IInv, Around, NEW w \in Window, NEW p \in Item, OpenImage(w, p)
  PROVE  IInv'
<1>1. PICK full \in BOOLEAN, found \in Frames(p) \cup {None} :
        /\ mode' = ModeOpen(mode, "image")
        /\ ReleaseVideo
        /\ window' = [w EXCEPT !.screen = "viewer", !.path = p,
                        !.frame = IF found = None THEN @ ELSE FrameOf(p, found),
                        !.loading = found \in {None, "thumb"} \/ (found = "screen" /\ full),
                        !.hidden = @ /\ ~(w.preview /\ found # None)]
        /\ Request(p, full, FALSE)
  BY DEF OpenImage
<1>2. mode' = [state |-> "ImagePreparing", generation |-> mode.generation + 1]
  BY <1>1 DEF ModeOpen, PreparingFor
<1>3. mode.generation \in Nat /\ advancedFor' \in 0..mode.generation /\ calls' \in 0..MaxCalls
  BY DEF IInv, TypeOK, Around
<1>4. mode' \in [state : ModeState, generation : Nat] /\ advancedFor' \in 0..mode'.generation
  BY <1>2, <1>3 DEF ModeState
<1>5. ~InVideo(mode') BY <1>2 DEF InVideo
<1> DEFINE loads == found \in {None, "thumb"} \/ (found = "screen" /\ full)
           hides == w.hidden /\ ~(w.preview /\ found # None)
           frame == IF found = None THEN w.frame ELSE FrameOf(p, found)
<1>6. window' = [w EXCEPT !.screen = "viewer", !.path = p, !.frame = frame,
                          !.loading = loads, !.hidden = hides]
  BY <1>1 DEF Window
<1>7. loads \in BOOLEAN /\ hides \in BOOLEAN OBVIOUS
<1>8. frame \in [item : Item, tier : {"thumb", "screen", "full"}] \cup {None}
  BY DEF Window, FrameOf, Frames
<1>9. found = None => loads OBVIOUS
<1>10. found # None => frame = FrameOf(p, found) OBVIOUS
<1> HIDE DEF loads, hides, frame
<1>11. window' \in Window /\ window'.path = p /\ window'.frame = frame /\ window'.loading = loads
  BY <1>6, <1>7, <1>8 DEF Window
<1>12. PhotographIsItself' BY <1>9, <1>10, <1>11 DEF PhotographIsItself, FrameOf
<1>13. SessionMatchesMode' /\ session' \in Session \cup {None}
  BY <1>1, <1>5, ReleaseVideoKeeps
<1>14. /\ AnswersAreNamed' /\ OnlyListed'
       /\ request' \in [item : Item \cup {None}, full : BOOLEAN, listOnly : BOOLEAN]
       /\ latest' \in Nat /\ job' \in Job \cup {None} /\ ready' \in Seq(Answer)
  BY <1>1, <1>5, <1>11, RequestKeeps
<1>15. TypeOK' BY <1>3, <1>4, <1>11, <1>13, <1>14 DEF TypeOK
<1> QED BY <1>12, <1>13, <1>14, <1>15 DEF IInv

\* Nothing is asked, or what was asked of a preview is withdrawn.
LEMMA CloseThenKeeps ==
  ASSUME IInv, Around, NEW w \in Window, w.path = window.path,
         NEW m, m \in {ModeClose(mode), ModeFailed(ModeClose(mode))}, CloseThen(w, m)
  PROVE  IInv'
<1>1. mode.generation \in Nat /\ advancedFor' \in 0..mode.generation /\ calls' \in 0..MaxCalls
  BY DEF IInv, TypeOK, Around
<1>2. mode' \in {[state |-> "Empty", generation |-> mode.generation + 1],
                [state |-> "Error", generation |-> mode.generation + 1]}
  BY DEF CloseThen, ModeClose, ModeFailed
<1>3. mode' \in [state : ModeState, generation : Nat] /\ advancedFor' \in 0..mode'.generation
  BY <1>1, <1>2 DEF ModeState
<1>4. ~InVideo(mode') /\ ~InImage(mode') BY <1>2 DEF InVideo, InImage
<1>5. SessionMatchesMode' /\ session' \in Session \cup {None}
  BY <1>4, ReleaseVideoKeeps DEF CloseThen, ReleaseOnClose
<1>6. window' \in Window /\ window'.path = window.path
  BY DEF CloseThen, Window
<1>7. request' \in [item : Item \cup {None}, full : BOOLEAN, listOnly : BOOLEAN]
      /\ request'.item \in {None, window.path}
  <2>1. request' \in {request, [request EXCEPT !.item = None]} BY DEF CloseThen
  <2>2. request \in [item : Item \cup {None}, full : BOOLEAN, listOnly : BOOLEAN]
        /\ request.item \in {None, window.path}
    BY DEF IInv, TypeOK, AnswersAreNamed
  <2> QED BY <2>1, <2>2
<1>8. latest' = latest + 1 \/ latest' = latest BY DEF CloseThen
<1>9. latest \in Nat /\ latest' \in Nat BY <1>8 DEF IInv, TypeOK
<1>10. (job # None => AnswerOf(job))' /\ (\A i \in 1..Len(ready) : AnswerOf(ready[i]))'
  <2>1. CASE latest' = latest + 1
    BY <2>1, FewerAreOld DEF AnswerOf
  <2>2. CASE latest' = latest
    <3>1. \A a : AnswerOf(a) => AnswerOf(a)' BY <1>6, <2>2 DEF AnswerOf
    <3>2. job' # None => AnswerOf(job') BY DEF IInv, AnswersAreNamed, Around
    <3>3. \A i \in 1..Len(ready') : AnswerOf(ready'[i])
      BY DEF IInv, AnswersAreNamed, Around, Fewer
    <3> QED BY <1>6, <2>2, <3>2, <3>3 DEF AnswerOf
  <2> QED BY <1>8, <2>1, <2>2
<1>11. AnswersAreNamed' BY <1>6, <1>7, <1>10 DEF AnswersAreNamed
<1>12. OnlyListed' BY <1>4 DEF OnlyListed, IInv, Around
<1>13. job' \in Job \cup {None} /\ ready' \in Seq(Answer) BY DEF IInv, TypeOK, Around, Fewer
<1>14. TypeOK' BY <1>1, <1>3, <1>5, <1>6, <1>7, <1>9, <1>13 DEF TypeOK
<1>15. PhotographIsItself' BY <1>4 DEF PhotographIsItself
<1> QED BY <1>5, <1>11, <1>12, <1>14, <1>15 DEF IInv

\* Steps that ask nothing, open nothing and leave the kind of the mode: what
\* they do to the window keeps its file, and its frame is that file's.
LEMMA StayingKeeps ==
  ASSUME IInv, Around, latest' = latest, request' = request,
         mode' \in [state : ModeState, generation : Nat], mode'.generation = mode.generation,
         InVideo(mode') <=> InVideo(mode), InImage(mode') => InImage(mode),
         window' \in Window, window'.path = window.path,
         session' \in Session \cup {None}, session' # None <=> session # None,
         session # None => session'.path = session.path
                           /\ session'.generation = session.generation,
         \/ window'.loading \/ window'.frame = None \/ window'.frame.item = window.path
         \/ window'.frame = window.frame /\ window'.loading = window.loading
  PROVE  IInv'
<1>1. TypeOK' BY DEF IInv, TypeOK, Around, Fewer
<1>2. \A i \in 1..Len(ready') : \E j \in 1..Len(ready) : ready'[i] = ready[j] BY DEF Around, Fewer
<1>3. AnswersAreNamed'
  <2>1. job' # None => AnswerOf(job') BY DEF IInv, AnswersAreNamed, Around
  <2>2. \A i \in 1..Len(ready') : AnswerOf(ready'[i]) BY <1>2 DEF IInv, AnswersAreNamed
  <2>3. request'.item \in {None, window'.path} BY DEF IInv, AnswersAreNamed
  <2> QED BY <2>1, <2>2, <2>3 DEF AnswersAreNamed, AnswerOf
<1>4. OnlyListed' BY <1>2 DEF IInv, OnlyListed, Around
<1>5. SessionMatchesMode' BY DEF IInv, SessionMatchesMode
<1>6. PhotographIsItself' BY DEF IInv, PhotographIsItself
<1> QED BY <1>1, <1>3, <1>4, <1>5, <1>6 DEF IInv

-----------------------------------------------------------------------------
(* The user.                                                                *)

LEMMA AskedAround == ASSUME IInv, Asked PROVE Around
<1>1. calls' \in 0..MaxCalls BY ViewerAssumption DEF ViewerAssumption, IInv, TypeOK, Asked
<1>2. Fewer BY SameFewer DEF IInv, Asked
<1> QED BY <1>1, <1>2 DEF Around, Asked, IInv, TypeOK

LEMMA OpenKeeps ==
  ASSUME IInv, Around, NEW w \in Window, NEW p \in Item, NEW kind, Open(w, p, kind)
  PROVE  IInv'
BY OpenVideoKeeps, OpenImageKeeps DEF Open

LEMMA WindowTyped == ASSUME IInv PROVE window \in Window
BY DEF IInv, TypeOK

\* The window alone changes, and not what it shows.
LEMMA MovingKeeps ==
  ASSUME IInv, Asked, UNCHANGED <<mode, latest, request, filmVars>>, window' \in Window,
         window'.path = window.path, window'.frame = window.frame,
         window'.loading = window.loading
  PROVE  IInv'
<1>1. Around BY AskedAround
<1>2. mode \in [state : ModeState, generation : Nat] /\ session \in Session \cup {None}
  BY DEF IInv, TypeOK
<1> QED BY <1>1, <1>2, StayingKeeps DEF filmVars

LEMMA FullKeeps == ASSUME IInv, RequestFullResolution PROVE IInv'
<1>1. Around BY AskedAround DEF RequestFullResolution
<1>2. latest' = latest + 1 /\ request' = [request EXCEPT !.item = window.path, !.full = TRUE]
  BY DEF RequestFullResolution, FullAsked
<1>3. window' = [window EXCEPT !.loading = TRUE] /\ window' \in Window
      /\ window'.path = window.path /\ window'.loading
  BY WindowTyped DEF RequestFullResolution, Window
<1>4. mode' = mode /\ session' = session BY DEF RequestFullResolution, filmVars
<1>5. request' \in [item : Item \cup {None}, full : BOOLEAN, listOnly : BOOLEAN]
      /\ request'.item = window.path /\ request'.listOnly = request.listOnly
  BY <1>2, WindowTyped DEF IInv, TypeOK, Window
<1>6. /\ \A i \in 1..Len(ready') : ready'[i].id <= latest' /\ ready'[i].id # latest'
      /\ job' # None => job'.id <= latest' /\ job'.id # latest'
  BY <1>1, <1>2, FewerAreOld
<1>7. TypeOK' BY <1>1, <1>2, <1>3, <1>4, <1>5 DEF IInv, TypeOK, Around, Fewer
<1>8. AnswersAreNamed' BY <1>3, <1>5, <1>6 DEF AnswersAreNamed, AnswerOf
<1>9. OnlyListed' BY <1>1, <1>4, <1>5, <1>6 DEF IInv, OnlyListed, Around
<1>10. SessionMatchesMode' BY <1>3, <1>4 DEF IInv, SessionMatchesMode
<1>11. PhotographIsItself' BY <1>3 DEF PhotographIsItself
<1> QED BY <1>7, <1>8, <1>9, <1>10, <1>11 DEF IInv

LEMMA PreviewKeeps == ASSUME IInv, NEW p \in Image, Preview(p) PROVE IInv'
<1>1. Asked /\ Around BY AskedAround DEF Preview
<1> DEFINE w == [window EXCEPT !.preview = TRUE, !.hidden = TRUE]
<1>2. w \in Window /\ w.path = window.path /\ w.frame = window.frame /\ w.loading = window.loading
  BY WindowTyped DEF Window
<1>3. CASE window.preview
  <2>1. CloseThen(window, ModeClose(mode)) BY <1>3 DEF Preview, Close
  <2> QED BY <1>1, <2>1, WindowTyped, CloseThenKeeps
<1>4. CASE ~window.preview /\ window.frame # None /\ window.path = p
  <2>1. window' = [w EXCEPT !.hidden = FALSE] /\ UNCHANGED <<mode, latest, request, filmVars>>
    BY <1>4 DEF Preview
  <2>2. window' \in Window /\ window'.path = window.path /\ window'.frame = window.frame
        /\ window'.loading = window.loading
    BY <1>2, <2>1 DEF Window
  <2> QED BY <1>1, <2>1, <2>2, MovingKeeps
<1>5. CASE ~window.preview /\ ~(window.frame # None /\ window.path = p)
  <2>1. OpenImage([w EXCEPT !.frame = None], p) BY <1>5 DEF Preview
  <2>2. [w EXCEPT !.frame = None] \in Window BY <1>2 DEF Window
  <2>3. p \in Item BY DEF Item
  <2> QED BY <1>1, <2>1, <2>2, <2>3, OpenImageKeeps
<1> QED BY <1>3, <1>4, <1>5

LEMMA UserKeeps == ASSUME IInv, User PROVE IInv'
<1>1. ASSUME NEW p \in Item, Navigate(p) PROVE IInv'
  BY <1>1, AskedAround, WindowTyped, OpenKeeps DEF Navigate
<1>2. ASSUME NEW p \in Item, OpenPhotoFromAlbum(p) PROVE IInv'
  <2>1. [window EXCEPT !.depth = @ + 1] \in Window BY WindowTyped DEF Window
  <2> QED BY <1>2, <2>1, AskedAround, OpenKeeps DEF OpenPhotoFromAlbum
<1>3. ASSUME NEW p \in Item, OpenFromShell(p) PROVE IInv'
  <2>1. [window EXCEPT !.preview = FALSE, !.hidden = FALSE] \in Window BY WindowTyped DEF Window
  <2> QED BY <1>3, <2>1, AskedAround, OpenKeeps DEF OpenFromShell
<1>4. ASSUME NEW p \in Image, Preview(p) PROVE IInv'
  BY <1>4, PreviewKeeps
<1>5. ASSUME NormalWindow PROVE IInv'
  <2>1. window' \in Window /\ window'.path = window.path /\ window'.frame = window.frame
        /\ window'.loading = window.loading
    BY <1>5, WindowTyped DEF NormalWindow, Window
  <2> QED BY <1>5, <2>1, MovingKeeps DEF NormalWindow
<1>6. ASSUME ViewerBack PROVE IInv'
  <2>1. CASE window.depth = 0
    BY <1>6, <2>1, AskedAround, WindowTyped, CloseThenKeeps DEF ViewerBack, Close
  <2>2. CASE window.depth # 0
    <3>1. window' = [window EXCEPT !.screen = "album", !.depth = window.depth - 1]
          /\ UNCHANGED <<mode, latest, request, filmVars>>
      BY <1>6, <2>2, WindowTyped DEF ViewerBack, Window
    <3>2. window.depth - 1 \in Nat BY <2>2, WindowTyped DEF Window
    <3>3. window' \in Window /\ window'.path = window.path /\ window'.frame = window.frame
          /\ window'.loading = window.loading
      BY <3>1, <3>2, WindowTyped DEF Window
    <3> QED BY <1>6, <3>1, <3>3, MovingKeeps DEF ViewerBack
  <2> QED BY <2>1, <2>2
<1>7. ASSUME GoToLibrary PROVE IInv'
  <2>1. mode' = [state |-> "Empty", generation |-> mode.generation + 1]
    BY <1>7 DEF GoToLibrary, ModeClose
  <2>2. ~InVideo(mode') /\ ~InImage(mode') BY <2>1 DEF InVideo, InImage
  <2>3. mode' \in [state : ModeState, generation : Nat] /\ advancedFor' \in 0..mode'.generation
    BY <1>7, <2>1 DEF GoToLibrary, Asked, IInv, TypeOK, ModeState
  <2>4. SessionMatchesMode' /\ session' \in Session \cup {None}
    BY <1>7, <2>2, ReleaseVideoKeeps DEF GoToLibrary
  <2>5. window' \in Window /\ window'.path = window.path
    BY <1>7, WindowTyped DEF GoToLibrary, Window
  <2>6. latest' = latest /\ request' = request /\ job' = job /\ ready' = ready
    BY <1>7 DEF GoToLibrary, Asked
  <2>7. calls' \in 0..MaxCalls BY <1>7, AskedAround DEF GoToLibrary, Around
  <2>8. TypeOK' BY <2>3, <2>4, <2>5, <2>6, <2>7 DEF IInv, TypeOK
  <2>9. AnswersAreNamed' BY <2>5, <2>6 DEF IInv, AnswersAreNamed, AnswerOf
  <2>10. OnlyListed' BY <2>2, <2>6 DEF IInv, OnlyListed
  <2>11. PhotographIsItself' BY <2>2 DEF PhotographIsItself
  <2> QED BY <2>4, <2>8, <2>9, <2>10, <2>11 DEF IInv
<1>8. ASSUME CloseWindow PROVE IInv'
  BY <1>8, AskedAround, WindowTyped, CloseThenKeeps DEF CloseWindow, Close
<1>9. ASSUME RequestFullResolution PROVE IInv'
  BY <1>9, FullKeeps
<1> QED BY <1>1, <1>2, <1>3, <1>4, <1>5, <1>6, <1>7, <1>8, <1>9 DEF User

-----------------------------------------------------------------------------
(* The decode worker.                                                       *)

\* A result posted for the newest number is the job's, and a job that only
\* lists posts nothing but the listing.
LEMMA PostKeeps ==
  ASSUME IInv, job # None, NEW r \in Answer, r.id = job.id, r.item = job.item,
         job.listOnly => r.listOnly, Post(r),
         NEW stage \in {"screen", "full"},
         \/ job' = None
         \/ job' = [job EXCEPT !.stage = stage] /\ ~job.listOnly,
         UNCHANGED <<mode, window, latest, request, filmVars, advancedFor, calls>>
  PROVE  IInv'
<1>1. ready \in Seq(Answer) /\ job \in Job BY DEF IInv, TypeOK
<1>2. /\ ready' \in Seq(Answer) /\ Len(ready') = Len(ready) + 1
      /\ \A i \in 1..Len(ready) : ready'[i] = ready[i]
      /\ ready'[Len(ready) + 1] = r
  BY <1>1 DEF Post
<1>3. ASSUME NEW i \in 1..Len(ready')
      PROVE  ready'[i] = r \/ \E j \in 1..Len(ready) : ready'[i] = ready[j]
  <2>1. Len(ready) \in Nat BY <1>1
  <2>2. i = Len(ready) + 1 \/ i \in 1..Len(ready) BY <1>2, <2>1
  <2> QED BY <1>2, <2>2
<1>4. job' \in Job \cup {None}
      /\ (job' # None => job'.id = job.id /\ job'.item = job.item /\ job'.listOnly = job.listOnly
                          /\ ~job.listOnly)
  <2>1. CASE job' = None BY <2>1
  <2>2. CASE job' = [job EXCEPT !.stage = stage] /\ ~job.listOnly
    <3>1. [job EXCEPT !.stage = stage] \in Job BY <1>1 DEF Job
    <3>2. job'.id = job.id /\ job'.item = job.item BY <1>1, <2>2 DEF Job
    <3>3. job'.listOnly = job.listOnly BY <1>1, <2>2 DEF Job
    <3> QED BY <2>2, <3>1, <3>2, <3>3
  <2> QED BY <2>1, <2>2
<1>5. TypeOK' BY <1>2, <1>4 DEF IInv, TypeOK, filmVars
<1>6. AnswersAreNamed'
  <2>1. \A i \in 1..Len(ready') : AnswerOf(ready'[i])
    <3>1. AnswerOf(r) BY DEF IInv, AnswersAreNamed, AnswerOf
    <3> QED BY <1>3, <3>1 DEF IInv, AnswersAreNamed
  <2>2. job' # None => AnswerOf(job') BY <1>4 DEF IInv, AnswersAreNamed, AnswerOf
  <2> QED BY <2>1, <2>2 DEF IInv, AnswersAreNamed, AnswerOf
<1>7. OnlyListed'
  <2>1. InVideo(mode) => \A i \in 1..Len(ready') : ready'[i].id = latest => ready'[i].listOnly
    <3>1. InVideo(mode) => (r.id = latest => r.listOnly) BY DEF IInv, OnlyListed
    <3> QED BY <1>3, <3>1 DEF IInv, OnlyListed
  <2>2. InVideo(mode) => request.listOnly /\ (job' # None /\ job'.id = latest => job'.listOnly)
    BY <1>4 DEF IInv, OnlyListed
  <2>3. job' # None /\ job'.stage = "full" => ~job'.listOnly BY <1>4
  <2> QED BY <2>1, <2>2, <2>3 DEF OnlyListed
<1>8. SessionMatchesMode' BY DEF IInv, SessionMatchesMode, filmVars
<1>9. PhotographIsItself' BY DEF IInv, PhotographIsItself
<1> QED BY <1>5, <1>6, <1>7, <1>8, <1>9 DEF IInv

\* The job is dropped or goes on to its full tier.
LEMMA MoveOnKeeps ==
  ASSUME IInv, job # None, job' = None \/ (job' = [job EXCEPT !.stage = "full"] /\ ~job.listOnly),
         UNCHANGED <<mode, window, latest, request, ready, filmVars, advancedFor, calls>>
  PROVE  IInv'
<1>1. job \in Job BY DEF IInv, TypeOK
<1>2. job' \in Job \cup {None}
      /\ (job' # None => job'.id = job.id /\ job'.item = job.item /\ job'.listOnly = job.listOnly
                          /\ ~job.listOnly)
  BY <1>1 DEF Job
<1>3. TypeOK' BY <1>2 DEF IInv, TypeOK, filmVars
<1>4. AnswersAreNamed' BY <1>2 DEF IInv, AnswersAreNamed, AnswerOf
<1>5. OnlyListed' BY <1>2 DEF IInv, OnlyListed
<1>6. SessionMatchesMode' BY DEF IInv, SessionMatchesMode, filmVars
<1>7. PhotographIsItself' BY DEF IInv, PhotographIsItself
<1> QED BY <1>3, <1>4, <1>5, <1>6, <1>7 DEF IInv

LEMMA TakeKeeps == ASSUME IInv, Take PROVE IInv'
<1>1. request \in [item : Item \cup {None}, full : BOOLEAN, listOnly : BOOLEAN]
      /\ request.item # None /\ request.item = window.path /\ latest \in Nat
  BY DEF Take, IInv, TypeOK, AnswersAreNamed
<1>2. job' = [item |-> request.item, id |-> latest, full |-> request.full,
              listOnly |-> request.listOnly, stage |-> "screen"]
  BY DEF Take
<1>3. job' \in Job BY <1>1, <1>2 DEF Job
<1>4. request' = [request EXCEPT !.item = None]
      /\ UNCHANGED <<mode, window, latest, ready, filmVars, advancedFor, calls>>
  BY DEF Take
<1>5. request' \in [item : Item \cup {None}, full : BOOLEAN, listOnly : BOOLEAN]
      /\ request'.item = None /\ request'.listOnly = request.listOnly
  BY <1>1, <1>4
<1>6. TypeOK' BY <1>3, <1>4, <1>5 DEF IInv, TypeOK, filmVars
<1>7. AnswersAreNamed' BY <1>1, <1>2, <1>4, <1>5 DEF IInv, AnswersAreNamed, AnswerOf
<1>8. OnlyListed' BY <1>2, <1>4, <1>5 DEF IInv, OnlyListed
<1>9. SessionMatchesMode' BY <1>4 DEF IInv, SessionMatchesMode, filmVars
<1>10. PhotographIsItself' BY <1>4 DEF IInv, PhotographIsItself
<1> QED BY <1>6, <1>7, <1>8, <1>9, <1>10 DEF IInv

LEMMA WorkerKeeps == ASSUME IInv, Worker PROVE IInv'
<1>1. CASE Take BY <1>1, TakeKeeps
<1>2. CASE /\ job # None /\ (Abandon \/ List \/ DecodeScreen \/ Decode)
           /\ UNCHANGED <<mode, window, latest, request, filmVars, advancedFor, calls>>
  <2>1. job \in Job BY <1>2 DEF IInv, TypeOK
  <2>2. CASE Abandon BY <1>2, <2>2, MoveOnKeeps DEF Abandon
  <2>3. CASE List
    <3> DEFINE r == [Result EXCEPT !.listOnly = TRUE]
    <3>1. r \in Answer /\ r.id = job.id /\ r.item = job.item /\ r.listOnly
      BY <2>1 DEF Result, Answer, Job
    <3>2. Post(r) /\ job' = None BY <2>3 DEF List
    <3> QED BY <1>2, <3>1, <3>2, PostKeeps
  <2>4. CASE DecodeScreen
    <3>1. ~job.listOnly BY <2>4 DEF DecodeScreen
    <3> DEFINE r == [Result EXCEPT !.tier = "screen", !.partial = job.full]
    <3>2. r \in Answer /\ r.id = job.id /\ r.item = job.item
      BY <2>1 DEF Result, Answer, Job
    <3> HIDE DEF r
    <3>3. CASE job' = [job EXCEPT !.stage = "full"] /\ UNCHANGED ready
      BY <1>2, <3>1, <3>3, MoveOnKeeps
    <3>4. CASE Post(r) /\ job' = IF job.full THEN [job EXCEPT !.stage = "full"] ELSE None
      <4>1. "full" \in {"screen", "full"} OBVIOUS
      <4>2. job' = None \/ job' = [job EXCEPT !.stage = "full"] BY <3>4
      <4> QED BY <1>2, <3>1, <3>2, <3>4, <4>1, <4>2, PostKeeps
    <3> QED BY <2>4, <3>3, <3>4 DEF DecodeScreen, r
  <2>5. CASE Decode
    <3>1. ~job.listOnly /\ job' = None BY <1>2, <2>5 DEF Decode, IInv, OnlyListed
    <3>2. PICK r \in Answer : Post(r) /\ r.id = job.id /\ r.item = job.item
      <4> DEFINE full == [Result EXCEPT !.tier = "full"]
                 screen == [Result EXCEPT !.tier = "screen", !.partial = TRUE]
                 film == job.item \in FilmInside
                 news == [Result EXCEPT !.reroute = film]
      <4>0. film \in BOOLEAN OBVIOUS
      <4>1. Post(full) \/ Post(screen) \/ Post(news) BY <2>5 DEF Decode
      <4>2. full \in Answer /\ full.id = job.id /\ full.item = job.item
        BY <2>1 DEF Result, Answer, Job
      <4>3. screen \in Answer /\ screen.id = job.id /\ screen.item = job.item
        BY <2>1 DEF Result, Answer, Job
      <4> HIDE DEF film
      <4>4. news \in Answer /\ news.id = job.id /\ news.item = job.item
        BY <2>1, <4>0 DEF Result, Answer, Job
      <4> HIDE DEF full, screen, news
      <4> QED BY <4>1, <4>2, <4>3, <4>4
    <3> QED BY <1>2, <3>1, <3>2, PostKeeps
  <2> QED BY <1>2, <2>2, <2>3, <2>4, <2>5
<1> QED BY <1>1, <1>2 DEF Worker

-----------------------------------------------------------------------------
(* The window thread's messages, Video Mode's worker and the engine.        *)

LEMMA ReadyMode ==
  ASSUME NEW m \in [state : ModeState, generation : Nat]
  PROVE  /\ ModeReady(m) \in [state : ModeState, generation : Nat]
         /\ ModeReady(m).generation = m.generation
         /\ InVideo(ModeReady(m)) <=> InVideo(m)
         /\ InImage(ModeReady(m)) <=> InImage(m)
<1> DEFINE next == CASE m.state = "ImagePreparing" -> "ImageActive"
                     [] m.state = "VideoPreparing" -> "VideoActive"
                     [] OTHER -> m.state
<1>1. ModeReady(m) = [m EXCEPT !.state = next] BY DEF ModeReady
<1>2. /\ next \in ModeState
      /\ next \in {"VideoPreparing", "VideoActive"} <=> m.state \in {"VideoPreparing", "VideoActive"}
      /\ next \in {"ImagePreparing", "ImageActive"} <=> m.state \in {"ImagePreparing", "ImageActive"}
  BY DEF ModeState
<1> HIDE DEF next
<1> QED BY <1>1, <1>2 DEF InVideo, InImage

LEMMA ModeTyped == ASSUME IInv PROVE mode \in [state : ModeState, generation : Nat]
BY DEF IInv, TypeOK

\* Only the mode's readiness, Video Mode's worker or the film's progress.
LEMMA ProgressKeeps ==
  ASSUME IInv, Around, latest' = latest, request' = request, window' = window,
         mode' \in {mode, ModeReady(mode), ModeReady(ModeReady(mode))},
         session' \in Session \cup {None}, session' # None <=> session # None,
         session # None => session'.path = session.path
                           /\ session'.generation = session.generation
  PROVE  IInv'
<1>1. mode \in [state : ModeState, generation : Nat] BY ModeTyped
<1>2. ModeReady(mode) \in [state : ModeState, generation : Nat] BY <1>1, ReadyMode
<1>3. /\ mode' \in [state : ModeState, generation : Nat] /\ mode'.generation = mode.generation
      /\ InVideo(mode') <=> InVideo(mode)
      /\ InImage(mode') <=> InImage(mode)
  BY <1>1, <1>2, ReadyMode
<1> QED BY <1>3, WindowTyped, StayingKeeps

LEMMA ShowKeeps ==
  ASSUME IInv, Around, NEW r \in Answer, r.id = latest, r.item = window.path,
         ~InVideo(mode), Show(r)
  PROVE  IInv'
<1>1. mode \in [state : ModeState, generation : Nat] /\ session \in Session \cup {None}
  BY DEF IInv, TypeOK
<1>2. CASE r.tier # None
  <2> DEFINE hides == window.hidden /\ ~window.preview
  <2>1. /\ window' = [window EXCEPT !.frame = FrameOf(r.item, r.tier), !.loading = r.partial,
                                    !.hidden = hides]
        /\ mode' = ModeReady(mode)
        /\ UNCHANGED <<latest, request, filmVars>>
    BY <1>2, WindowTyped DEF Show, Window
  <2>2. hides \in BOOLEAN OBVIOUS
  <2>3. FrameOf(r.item, r.tier) \in [item : Item, tier : {"thumb", "screen", "full"}]
    BY <1>2 DEF FrameOf, Answer
  <2>4. r.partial \in BOOLEAN BY DEF Answer
  <2> HIDE DEF hides
  <2>5. window' \in Window /\ window'.path = window.path /\ window'.frame.item = window.path
    BY <2>1, <2>2, <2>3, <2>4, WindowTyped DEF Window, FrameOf
  <2> QED BY <1>1, <2>1, <2>5, ReadyMode, StayingKeeps DEF filmVars
<1>3. CASE r.tier = None
  <2> DEFINE w == [window EXCEPT !.frame = None, !.loading = r.partial]
  <2>1. r.partial \in BOOLEAN BY DEF Answer
  <2>2. w \in Window /\ w.path = window.path /\ w.frame = None
    BY <2>1, WindowTyped DEF Window
  <2>3. CASE window.preview
    <3>1. CloseThen(w, ModeFailed(ModeClose(mode))) BY <1>3, <2>3 DEF Show
    <3> HIDE DEF w
    <3> QED BY <2>2, <3>1, CloseThenKeeps
  <2>4. CASE ~window.preview
    <3>1. window' = w /\ mode' = [mode EXCEPT !.state = "Error"]
          /\ UNCHANGED <<latest, request, filmVars>>
      BY <1>3, <2>4 DEF Show, ModeFailed
    <3>2. mode' \in [state : ModeState, generation : Nat] /\ mode'.generation = mode.generation
          /\ ~InVideo(mode') /\ ~InImage(mode')
      BY <1>1, <3>1 DEF ModeState, InVideo, InImage
    <3> HIDE DEF w
    <3> QED BY <1>1, <2>2, <3>1, <3>2, StayingKeeps DEF filmVars
  <2> QED BY <2>3, <2>4
<1> QED BY <1>2, <1>3

LEMMA LoadedKeeps == ASSUME IInv, Loaded PROVE IInv'
<1>1. Fewer BY TailFewer DEF Loaded, IInv
<1>2. Around BY <1>1 DEF Loaded, Around, IInv, TypeOK
<1> DEFINE r == Head(ready)
<1>3. r = ready[1] /\ 1 \in 1..Len(ready) /\ r \in Answer BY DEF Loaded, IInv, TypeOK
<1>4. r.id = latest => r.item = window.path BY <1>3 DEF IInv, AnswersAreNamed, AnswerOf
<1>5. InVideo(mode) /\ r.id = latest => r.listOnly BY <1>3 DEF IInv, OnlyListed
<1>6. \/ UNCHANGED <<mode, window, latest, request, filmVars>>
      \/ OpenVideo(window, r.item)
      \/ r.id = latest /\ ~r.listOnly /\ Show(r)
  BY DEF Loaded, Current
<1> HIDE DEF r
<1>7. CASE UNCHANGED <<mode, window, latest, request, filmVars>>
  <2>1. session \in Session \cup {None} BY DEF IInv, TypeOK
  <2> QED BY <1>2, <1>7, <2>1, ProgressKeeps DEF filmVars
<1>8. CASE OpenVideo(window, r.item)
  <2>1. r.item \in Item BY <1>3 DEF Answer
  <2> QED BY <1>2, <1>8, <2>1, WindowTyped, OpenVideoKeeps
<1>9. CASE r.id = latest /\ ~r.listOnly /\ Show(r)
  BY <1>2, <1>3, <1>4, <1>5, <1>9, ShowKeeps
<1> QED BY <1>6, <1>7, <1>8, <1>9

LEMMA ThumbReadyKeeps == ASSUME IInv, ThumbReady PROVE IInv'
<1>1. Around BY SameFewer DEF ThumbReady, Around, IInv, TypeOK
<1>2. window' = [window EXCEPT !.frame = FrameOf(window.path, "thumb")] /\ window.path # None
  BY DEF ThumbReady
<1>3. FrameOf(window.path, "thumb") \in [item : Item, tier : {"thumb", "screen", "full"}]
      /\ FrameOf(window.path, "thumb").item = window.path
  BY <1>2, WindowTyped DEF FrameOf, Window
<1>4. window' \in Window /\ window'.path = window.path /\ window'.frame.item = window.path
  BY <1>2, <1>3, WindowTyped DEF Window
<1>5. mode \in [state : ModeState, generation : Nat] /\ session \in Session \cup {None}
  BY DEF IInv, TypeOK
<1>6. UNCHANGED <<mode, latest, request, filmVars>> BY DEF ThumbReady
<1> QED BY <1>1, <1>4, <1>5, <1>6, StayingKeeps DEF filmVars

LEMMA PumpKeeps == ASSUME IInv, Around, InVideo(mode), Pump PROVE IInv'
<1>1. session # None /\ session \in Session /\ session.path = window.path
  BY DEF IInv, SessionMatchesMode, TypeOK
<1>2. window.path \in Item BY <1>1 DEF Session
<1>3. CASE OpenImage(window, window.path) BY <1>2, <1>3, WindowTyped, OpenImageKeeps
<1>4. CASE ~OpenImage(window, window.path)
  <2>1. UNCHANGED <<window, latest, request, session>>
        /\ mode' \in {mode, ModeReady(mode), ModeReady(ModeReady(mode))}
    BY <1>4 DEF Pump
  <2> QED BY <1>1, <2>1, ProgressKeeps
<1> QED BY <1>3, <1>4

LEMMA VideoReadyKeeps == ASSUME IInv, VideoReady PROVE IInv'
<1>1. InVideo(mode) /\ (Advance \/ Pump) BY DEF VideoReady
<1>2. mode.generation \in Nat /\ advancedFor' \in 0..mode.generation
  BY ModeTyped DEF VideoReady, IInv, TypeOK
<1>3. Around BY <1>2, SameFewer DEF VideoReady, Around, IInv, TypeOK
<1>4. CASE Advance
  <2>1. PICK next \in Film : OpenVideo(window, next) BY <1>4 DEF Advance
  <2>2. next \in Item BY DEF Item
  <2> QED BY <1>3, <2>1, <2>2, WindowTyped, OpenVideoKeeps
<1>5. CASE Pump BY <1>1, <1>3, <1>5, PumpKeeps
<1> QED BY <1>1, <1>4, <1>5

LEMMA VideoWorkerKeeps == ASSUME IInv, VideoWorker PROVE IInv'
<1>1. Around BY SameFewer DEF VideoWorker, Around, IInv, TypeOK
<1>2. session \in Session \cup {None} BY DEF IInv, TypeOK
<1> QED BY <1>1, <1>2, ProgressKeeps DEF VideoWorker

LEMMA EngineKeeps == ASSUME IInv, Engine PROVE IInv'
<1>1. calls' \in 0..MaxCalls
  BY ViewerAssumption DEF ViewerAssumption, Engine, EngineShows, EngineEnds, IInv, TypeOK
<1>2. Around BY <1>1, SameFewer DEF Engine, Around, IInv, TypeOK
<1>3. session \in Session /\ None \notin Session
  BY ViewerAssumption DEF ViewerAssumption, Engine, EngineShows, EngineEnds, IInv, TypeOK
<1>4. session' = [session EXCEPT !.shown = TRUE] \/ session' = [session EXCEPT !.ended = TRUE]
  BY DEF Engine, EngineShows, EngineEnds
<1>5. session' \in Session /\ session'.path = session.path
      /\ session'.generation = session.generation
  BY <1>3, <1>4 DEF Session
<1>6. session # None /\ session' # None BY <1>3, <1>5
<1> QED BY <1>2, <1>5, <1>6, ProgressKeeps DEF Engine
-----------------------------------------------------------------------------
LEMMA StutterKeeps == ASSUME IInv, UNCHANGED vars PROVE IInv'
BY DEF vars, filmVars, IInv, TypeOK, AnswersAreNamed, AnswerOf, OnlyListed, SessionMatchesMode,
   PhotographIsItself

\* The inductive invariant of the viewer, for any files and any number of
\* calls of the user (Open, Close, Navigate, ViewerBack, Preview, Loaded,
\* VideoReady and both workers).
THEOREM Invariance == Spec => []IInv
<1>1. IInv /\ [Next]_vars => IInv'
  BY UserKeeps, WorkerKeeps, LoadedKeeps, ThumbReadyKeeps, VideoReadyKeeps, VideoWorkerKeeps,
     EngineKeeps, StutterKeeps DEF Next
<1> QED BY InitKeeps, <1>1, PTL DEF Spec

\* Every reachable state of the viewer has its types.
THEOREM TypeCorrect == Spec => []TypeOK
<1>1. IInv => TypeOK BY DEF IInv
<1> QED BY Invariance, <1>1, PTL

\* A photograph shown and not said to be loading is the one the window names,
\* however late the decode worker's results arrive (Loaded).
THEOREM ShownIsNamed == Spec => []PhotographIsItself
<1>1. IInv => PhotographIsItself BY DEF IInv
<1> QED BY Invariance, <1>1, PTL

\* The engine holds a film exactly while the mode is video, and it is the film
\* the window names, entered for the mode's generation (Open, Close, Loaded,
\* VideoReady, GoToLibrary).
THEOREM EngineFollowsMode == Spec => []SessionMatchesMode
<1>1. IInv => SessionMatchesMode BY DEF IInv
<1> QED BY Invariance, <1>1, PTL
=============================================================================
