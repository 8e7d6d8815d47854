---------------------------- MODULE PreviewProofs ----------------------------
(***************************************************************************)
(* For any films, timeline, grants and bounds: the stills the timeline may *)
(* draw are always of the film that is open, and the engine implements the *)
(* promise of FilmStills.                                                  *)
(*                                                                         *)
(* The inductive invariant says whose a request is.  A pending request is  *)
(* of the generation and of the film that are open; the worker's, taken    *)
(* from there, keeps its generation while films change, and as long as     *)
(* that generation is the open one its film is too.  Comparing generations *)
(* when the frame is stored therefore compares films.                      *)
(*                                                                         *)
(* The cache is a set of frames and a count.  That the count is the sum of *)
(* the sizes, whatever is put, replaced or evicted, rests on the totals of *)
(* SetSums over sets of buckets.                                           *)
(* An order of uses lists each cached bucket once.  No still takes more    *)
(* than a quarter of a budget, so the four last used are never evicted;    *)
(* and since the pointer's bucket was last used, the stores since then and *)
(* the ones still to come are three at most: a pointer at rest keeps it.   *)
(***************************************************************************)
EXTENDS PreviewEngine, SetSums, SequenceTheorems

Thread == [pc : Holding \cup {"wait", "notify", "exited"},
           request : Request \cup {None}, ok : BOOLEAN, frame : BOOLEAN]

ClientShape ==
  /\ surface \in Film \cup {None} /\ previewOpen \in BOOLEAN
  /\ pointer \in Bucket \cup {None}
  /\ drawing \in {"none", "ask", "paint"}
  /\ grant \in Grants
  /\ drawing = "ask" => pointer \in Bucket /\ previewOpen
MediaShape ==
  /\ mediaPath \in Film \cup {None} /\ generation \in Nat
  /\ previewOpen => mediaPath # None
  /\ ~previewOpen => mediaPath = None
RequestShape ==
  pending # None =>
    /\ pending \in Request
    /\ pending.media = generation /\ pending.film = mediaPath
WorkerShape ==
  /\ worker \in Thread
  /\ worker.pc \in Holding =>
       /\ worker.request \in Request /\ worker.request.media <= generation
       /\ worker.request.media = generation => worker.request.film = mediaPath
CacheShape ==
  /\ cache \in [Bucket -> Frame \cup {None}]
  /\ CachedIsOfFilm

\* What a request belongs to, wherever it is.
IInv == ClientShape /\ MediaShape /\ RequestShape /\ WorkerShape /\ CacheShape
-----------------------------------------------------------------------------
\* Trimming forgets frames and changes none (CacheTrimLocked).
LEMMA TrimForgets ==
  ASSUME NEW frames \in [Bucket -> Frame \cup {None}], NEW order, NEW bytes, NEW budget,
         CacheTrim(frames, order, bytes, budget)
  PROVE  /\ cache' \in [Bucket -> Frame \cup {None}]
         /\ \A b \in Bucket : cache'[b] \in {frames[b], None}
BY DEF CacheTrim

\* Putting a frame in changes one bucket and forgets others (CachePutLocked).
LEMMA PutAddsOne ==
  ASSUME cache \in [Bucket -> Frame \cup {None}], NEW b \in Bucket, NEW frame \in Frame,
         CachePut(b, frame)
  PROVE  /\ cache' \in [Bucket -> Frame \cup {None}]
         /\ \A c \in Bucket : cache'[c] \in {IF c = b THEN frame ELSE cache[c], None}
<1> DEFINE put == [cache EXCEPT ![b] = frame]
<1>1. put \in [Bucket -> Frame \cup {None}] /\ \A c \in Bucket : put[c] = IF c = b THEN frame ELSE cache[c]
  OBVIOUS
<1>2. PICK order, bytes : CacheTrim(put, order, bytes, grant.budget)
  BY DEF CachePut
<1> HIDE DEF put
<1> QED BY <1>1, <1>2, TrimForgets

\* A call of the timeline leaves the frames as they are.
LEMMA RequestIsOfFilm ==
  ASSUME IInv, NEW b \in Bucket, mediaPath \in Film, PreviewRequest(b)
  PROVE  /\ cache' = cache
         /\ \/ pending' = pending
            \/ /\ pending' \in Request /\ pending'.media = generation
               /\ pending'.film = mediaPath /\ pending'.bucket = b
<1>1. grant.scale \in Nat \ {0}
  BY PreviewAssumption DEF IInv, ClientShape, Grant
<1> QED BY <1>1 DEF PreviewRequest, Use, store, IInv, MediaShape, Request
-----------------------------------------------------------------------------
\* The invariant holds at the start and every action keeps it.
LEMMA InitIInv == Init => IInv
<1> SUFFICES ASSUME Init PROVE IInv
  OBVIOUS
<1>1. ClientShape
  BY DEF Init, ClientShape
<1>2. MediaShape /\ RequestShape
  BY DEF Init, MediaShape, RequestShape
<1>3. WorkerShape
  BY DEF Init, WorkerShape, Holding, Idle, Thread
<1>4. CacheShape
  BY DEF Init, CacheShape, NoFrames, CachedIsOfFilm, Cached
<1> QED BY <1>1, <1>2, <1>3, <1>4 DEF IInv

\* What the calls that open and close a film leave behind.
LEMMA CloseKeeps ==
  ASSUME IInv, PreviewClose, UNCHANGED worker
  PROVE  RequestShape' /\ WorkerShape' /\ CacheShape' /\ mediaPath' = None
         /\ generation' \in Nat
BY PreviewAssumption
   DEF IInv, MediaShape, RequestShape, WorkerShape, CacheShape, PreviewClose, CacheClear,
       NoFrames, CachedIsOfFilm, Cached, Holding, Request

LEMMA OpenKeeps ==
  ASSUME IInv, NEW f \in Film, PreviewOpen(f), UNCHANGED worker
  PROVE  RequestShape' /\ WorkerShape' /\ CacheShape' /\ mediaPath' = f
         /\ generation' \in Nat
<1>1. RequestShape' /\ WorkerShape' /\ mediaPath' = f /\ generation' \in Nat
  BY PreviewAssumption
     DEF IInv, MediaShape, RequestShape, WorkerShape, PreviewOpen, Holding, Request
<1>2. CacheShape'
  <2>1. CASE mediaPath = f
    BY <2>1 DEF PreviewOpen, store, IInv, CacheShape, CachedIsOfFilm, Cached
  <2>2. CASE mediaPath # f
    BY <2>2 DEF PreviewOpen, CacheClear, NoFrames, CacheShape, CachedIsOfFilm, Cached
  <2> QED BY <2>1, <2>2
<1> QED BY <1>1, <1>2

\* The timeline's actions.
LEMMA TimelineKeeps ==
  ASSUME IInv, Timeline
  PROVE  IInv'
<1> USE PreviewAssumption DEF IInv
<1>1. CASE \E f \in Film : VideoModeEnter(f)
  <2>1. PICK f \in Film : VideoModeEnter(f)
    BY <1>1
  <2>2. ClientShape' /\ UNCHANGED worker
    BY <2>1 DEF VideoModeEnter, ClientShape, UiIdle
  <2>3. CASE previewOpen
    <3>1. PreviewClose /\ previewOpen' = FALSE
      BY <2>1, <2>3 DEF VideoModeEnter
    <3> QED BY <2>2, <3>1, CloseKeeps DEF MediaShape
  <2>4. CASE ~previewOpen
    <3>1. UNCHANGED <<engine, worker>> /\ previewOpen' = FALSE
      BY <2>1, <2>4 DEF VideoModeEnter
    <3>2. UNCHANGED <<mediaPath, generation, pending, cache, worker>>
      BY <3>1 DEF engine, media, store
    <3>3. MediaShape'
      BY <2>4, <3>1, <3>2 DEF MediaShape
    <3> QED BY <2>2, <3>2, <3>3 DEF RequestShape, WorkerShape, CacheShape, CachedIsOfFilm, Cached
  <2> QED BY <2>3, <2>4
<1>2. CASE VideoModePump
  <2>1. surface \in Film /\ PreviewOpen(surface) /\ UNCHANGED worker
    BY <1>2 DEF VideoModePump, ClientShape
  <2>2. ClientShape' /\ previewOpen' = TRUE
    BY <1>2 DEF VideoModePump, ClientShape, UiIdle
  <2> QED BY <2>1, <2>2, OpenKeeps DEF MediaShape
<1>3. CASE \E b \in Stops : UpdatePreview(b)
  <2>1. PICK b \in Bucket : UpdatePreview(b)
    BY <1>3, PreviewAssumption
  <2>2. mediaPath \in Film /\ PreviewRequest(b)
    BY <2>1 DEF UpdatePreview, HasLength, MediaShape
  <2>3. UNCHANGED <<surface, previewOpen, drawing, mediaPath, generation, grant, worker>> /\ pointer' = b
    BY <2>1 DEF UpdatePreview, media
  <2> QED BY <2>2, <2>3, RequestIsOfFilm
          DEF ClientShape, MediaShape, RequestShape, WorkerShape, CacheShape, CachedIsOfFilm, Cached
<1>4. CASE AskAround
  <2>1. pointer \in Bucket /\ mediaPath \in Film
    BY <1>4 DEF AskAround, ClientShape, MediaShape
  <2>2. PICK b \in Bucket : PreviewRequest(b)
    BY <1>4, <2>1 DEF AskAround, Bucket
  <2>3. UNCHANGED <<surface, previewOpen, pointer, mediaPath, generation, grant, worker>> /\ drawing' = "paint"
    BY <1>4 DEF AskAround, media
  <2> QED BY <2>1, <2>2, <2>3, RequestIsOfFilm
          DEF ClientShape, MediaShape, RequestShape, WorkerShape, CacheShape, CachedIsOfFilm, Cached
<1>5. CASE VideoModeLeave \/ LeaveTimeline \/ LookAround \/ PaintPreviewCard
  <2>1. UNCHANGED <<previewOpen, mediaPath, generation, pending, cache, grant, worker>>
    BY <1>5 DEF VideoModeLeave, LeaveTimeline, LookAround, PaintPreviewCard, engine, media,
       store, UseExact, Use
  <2>2. ClientShape'
    BY <1>5 DEF VideoModeLeave, LeaveTimeline, LookAround, PaintPreviewCard, ClientShape,
       UiIdle, FrameDue, HasLength
  <2> QED BY <2>1, <2>2 DEF MediaShape, RequestShape, WorkerShape, CacheShape, CachedIsOfFilm, Cached
<1>6. CASE Publish
  <2>1. PICK g \in Grants : grant' = g /\ CacheTrim(cache, recency, cacheBytes, g.budget)
    BY <1>6 DEF Publish
  <2>2. UNCHANGED <<surface, previewOpen, pointer, drawing, mediaPath, generation, pending, worker>>
    BY <1>6 DEF Publish, timeline, media
  <2>3. CacheShape'
    BY <2>1, <2>2, TrimForgets DEF CacheShape, CachedIsOfFilm, Cached
  <2> QED BY <2>1, <2>2, <2>3 DEF ClientShape, MediaShape, RequestShape, WorkerShape
<1>7. CASE BeginStop \/ FinishStop
  <2>1. UNCHANGED <<surface, previewOpen, pointer, drawing, mediaPath, generation, grant, worker>>
    BY <1>7 DEF BeginStop, FinishStop, timeline, media
  <2>2. pending' \in {pending, None} /\ cache' \in {cache, NoFrames}
    BY <1>7 DEF BeginStop, FinishStop, CacheClear, store
  <2>3. CacheShape'
    BY <2>1, <2>2 DEF CacheShape, CachedIsOfFilm, Cached, NoFrames
  <2>4. UNCHANGED worker.request /\ (worker'.pc \in Holding => worker.pc \in Holding)
    BY <2>1
  <2> QED BY <2>1, <2>2, <2>3, <2>4 DEF ClientShape, MediaShape, RequestShape, WorkerShape
<1> QED BY <1>1, <1>2, <1>3, <1>4, <1>5, <1>6, <1>7 DEF Timeline

\* Between taking a request and judging it the worker keeps it.
LEMMA HoldingGoesOn ==
  ASSUME worker \in Thread, ReadPolicy \/ Settle \/ DecodeFrame \/ Notify \/ Exit
  PROVE  /\ worker' \in Thread
         /\ worker'.pc \in Holding => worker.pc \in Holding /\ worker'.request = worker.request
<1> USE DEF Thread, Holding
<1>1. CASE ReadPolicy
  BY <1>1 DEF ReadPolicy
<1>2. CASE Settle
  BY <1>2 DEF Settle, Idle
<1>3. CASE DecodeFrame
  <2>1. PICK ok, frame \in BOOLEAN :
          worker' = [worker EXCEPT !.pc = "store", !.ok = ok, !.frame = frame]
    BY <1>3 DEF DecodeFrame
  <2> QED BY <1>3, <2>1 DEF DecodeFrame, Holding
<1>4. CASE Notify
  BY <1>4 DEF Notify, Idle, Holding
<1>5. CASE Exit
  BY <1>5 DEF Exit, Idle, Holding
<1> QED BY <1>1, <1>2, <1>3, <1>4, <1>5

\* The worker's actions.
LEMMA WorkerKeeps ==
  ASSUME IInv, Worker
  PROVE  IInv'
<1> USE PreviewAssumption DEF IInv
<1>1. ClientShape' /\ MediaShape'
  <2>1. CASE Take
    BY <2>1 DEF Take, window, media, ClientShape, MediaShape
  <2>2. CASE ReadPolicy \/ Settle
    BY <2>2 DEF ReadPolicy, Settle, window, media, ClientShape, MediaShape
  <2>3. CASE DecodeFrame
    BY <2>3 DEF DecodeFrame, window, media, ClientShape, MediaShape
  <2>4. CASE StoreFrame
    BY <2>4 DEF StoreFrame, Judged, window, media, ClientShape, MediaShape
  <2>5. CASE Notify
    BY <2>5 DEF Notify, window, media, ClientShape, MediaShape
  <2>6. CASE Exit
    BY <2>6 DEF Exit, window, media, ClientShape, MediaShape
  <2> QED BY <2>1, <2>2, <2>3, <2>4, <2>5, <2>6 DEF Worker
<1>2. CASE Take
  <2>1. pending \in Request /\ pending.media = generation /\ pending.film = mediaPath
    BY <1>2 DEF Take, RequestShape
  <2>2. worker'.request = pending /\ pending' = None /\ worker' \in Thread
    BY <1>2, <2>1 DEF Take, Idle, Thread, Holding
  <2>3. UNCHANGED <<mediaPath, generation, cache>>
    BY <1>2 DEF Take, window, media, store
  <2> QED BY <1>1, <2>1, <2>2, <2>3 DEF RequestShape, WorkerShape, CacheShape, CachedIsOfFilm,
             Cached, Request
<1>3. CASE ReadPolicy \/ Settle \/ DecodeFrame \/ Notify \/ Exit
  <2>1. UNCHANGED <<mediaPath, generation, cache, pending>>
    BY <1>3 DEF ReadPolicy, Settle, DecodeFrame, Notify, Exit, window, media, store
  <2>2. /\ worker' \in Thread
        /\ worker'.pc \in Holding => worker.pc \in Holding /\ worker'.request = worker.request
    BY <1>3, HoldingGoesOn DEF WorkerShape
  <2> QED BY <1>1, <2>1, <2>2 DEF RequestShape, WorkerShape, CacheShape, CachedIsOfFilm, Cached
<1>4. CASE StoreFrame
  <2>1. /\ UNCHANGED <<mediaPath, generation, pending>>
        /\ worker'.pc \notin Holding /\ worker' \in Thread
    BY <1>4 DEF StoreFrame, Judged, window, media, Idle, Holding, Thread
  <2>2. worker.request \in Request /\ (Current => worker.request.film = mediaPath)
    BY <1>4 DEF StoreFrame, WorkerShape, Holding, Current
  <2>3. CacheShape'
    <3>1. CASE Current /\ worker.frame
      <4> DEFINE b == worker.request.bucket
                 frame == FrameOf(worker.request)
      <4>1. b \in Bucket /\ frame \in Frame /\ frame.film = mediaPath
        BY <2>2, <3>1 DEF Request, Frame, FrameOf
      <4>2. CachePut(b, frame)
        BY <1>4, <3>1 DEF StoreFrame
      <4> HIDE DEF b, frame
      <4> QED BY <2>1, <4>1, <4>2, PutAddsOne DEF CacheShape, CachedIsOfFilm, Cached
    <3>2. CASE ~(Current /\ worker.frame)
      BY <1>4, <2>1, <3>2 DEF StoreFrame, store, CacheShape, CachedIsOfFilm, Cached
    <3> QED BY <3>1, <3>2
  <2> QED BY <1>1, <2>1, <2>3 DEF RequestShape, WorkerShape
<1> QED BY <1>2, <1>3, <1>4 DEF Worker

\* The inductive invariant, for every value of the constants.
THEOREM Invariance == Spec => []IInv
<1>1. IInv /\ [Next]_vars => IInv'
  <2> SUFFICES ASSUME IInv, [Next]_vars PROVE IInv'
    OBVIOUS
  <2>1. CASE Timeline BY <2>1, TimelineKeeps
  <2>2. CASE Worker BY <2>2, WorkerKeeps
  <2>3. CASE UNCHANGED vars
    BY <2>3 DEF vars, IInv, ClientShape, MediaShape, RequestShape, WorkerShape, CacheShape,
       CachedIsOfFilm, Cached
  <2> QED BY <2>1, <2>2, <2>3 DEF Next
<1> QED BY InitIInv, <1>1, PTL DEF Spec

\* Whatever changes of film fall into a decode, no frame of another film is in
\* the cache the timeline draws from.
THEOREM FramesAreOfFilm == Spec => []CachedIsOfFilm
<1>1. IInv => CachedIsOfFilm
  BY DEF IInv, CacheShape
<1> QED BY <1>1, Invariance, PTL
-----------------------------------------------------------------------------
(* A verdict on the source.  Once the open film's own decode has been      *)
(* judged, no request of an earlier film is left for the worker to judge.  *)

VerdictShape ==
  /\ OwnVerdictStands
  /\ verdict # "none" /\ worker.pc \in Holding => worker.request.media = generation

\* A film shown before cannot have the last word on the source of this one.
THEOREM VerdictIsOwn == Spec => []OwnVerdictStands
<1> USE DEF VerdictShape, OwnVerdictStands
<1>1. Init => VerdictShape
  BY DEF Init, Idle, Holding
<1>2. IInv /\ VerdictShape /\ [Next]_vars => VerdictShape'
  <2> SUFFICES ASSUME IInv, VerdictShape, [Next]_vars PROVE VerdictShape'
    OBVIOUS
  <2>1. CASE \E f \in Film : VideoModeEnter(f)
    BY <2>1 DEF VideoModeEnter, PreviewClose, engine, media
  <2>2. CASE VideoModePump
    BY <2>2 DEF VideoModePump, PreviewOpen
  <2>3. CASE \/ \E b \in Stops : UpdatePreview(b)
             \/ VideoModeLeave \/ LeaveTimeline \/ LookAround \/ PaintPreviewCard
             \/ AskAround \/ Publish \/ BeginStop \/ FinishStop
    <3>1. UNCHANGED <<generation, worker, available, verdict>>
      BY <2>3 DEF UpdatePreview, VideoModeLeave, LeaveTimeline, LookAround,
         PaintPreviewCard, AskAround, Publish, BeginStop, FinishStop, engine, media
    <3> QED BY <3>1
  <2>4. CASE Take
    <3>1. worker'.request = pending /\ pending.media = generation
      BY <2>4 DEF Take, Idle, IInv, RequestShape
    <3>2. UNCHANGED <<generation, available, verdict>>
      BY <2>4 DEF Take, window, media
    <3> QED BY <3>1, <3>2
  <2>5. CASE ReadPolicy \/ Settle \/ DecodeFrame \/ Notify \/ Exit
    <3>1. UNCHANGED <<generation, available, verdict>>
      BY <2>5 DEF ReadPolicy, Settle, DecodeFrame, Notify, Exit, window, media
    <3> QED BY <2>5, <3>1, HoldingGoesOn DEF IInv, WorkerShape
  <2>6. CASE StoreFrame
    <3>1. UNCHANGED generation /\ worker'.pc \notin Holding /\ available' = worker.ok
      BY <2>6 DEF StoreFrame, Judged, window, media, Idle, Holding
    <3>2. verdict' = IF Current THEN IF worker.ok THEN "ok" ELSE "refused" ELSE verdict
      BY <2>6 DEF StoreFrame, Judged
    <3>3. worker.pc \in Holding /\ worker.ok \in BOOLEAN
      BY <2>6 DEF StoreFrame, Holding, IInv, WorkerShape, Thread
    <3> QED BY <3>1, <3>2, <3>3 DEF Current
  <2>7. CASE UNCHANGED vars
    BY <2>7 DEF vars
  <2> QED BY <2>1, <2>2, <2>3, <2>4, <2>5, <2>6, <2>7 DEF Next, Timeline, Worker
<1>3. VerdictShape => OwnVerdictStands
  OBVIOUS
<1> QED BY <1>1, <1>2, <1>3, Invariance, PTL DEF Spec
-----------------------------------------------------------------------------
(* The engine implements FilmStills: opening and closing map to Open and   *)
(* Close, a question to Ask, a stored frame to Answer, and a question taken *)
(* back, a frame trimmed or a cache cleared at the stop to Forget.          *)

Pictures == {<<cache[b].film, b>> : b \in Cached}

\* Steps that change no frame and open no question.
LEMMA Withdrawing ==
  ASSUME mediaPath' = mediaPath, Outstanding' \subseteq Outstanding,
         \A b \in Bucket : cache'[b] \in {cache[b], None}
  PROVE  Stills!Next
<1>1. Pictures' \subseteq Pictures
  BY DEF Pictures, Cached
<1> QED BY <1>1 DEF Stills!Next, Stills!Forget, Pictures

\* A call of the timeline: the new question replaces the one before it.
LEMMA Asking ==
  ASSUME IInv, NEW b \in Bucket, mediaPath \in Film, PreviewRequest(b),
         UNCHANGED <<mediaPath, generation, worker>>
  PROVE  Stills!Next
<1>1. cache' = cache
  BY RequestIsOfFilm
<1>2. CASE pending' = pending
  <2>1. Outstanding' = Outstanding
    BY <1>2 DEF Outstanding, Asked, Answers, Current
  <2> QED BY <1>1, <2>1, Withdrawing
<1>3. CASE pending' # pending
  <2>1. pending' \in Request /\ pending'.bucket = b
    BY <1>3, RequestIsOfFilm
  <2>2. pending' # None
    BY <2>1, PreviewAssumption
  <2>3. Outstanding' \subseteq Outstanding \cup {b} /\ b \in Outstanding'
    BY <2>1, <2>2 DEF Outstanding, Asked, Answers, Current
  <2>4. Pictures' = Pictures
    BY <1>1 DEF Pictures, Cached
  <2>5. mediaPath # None
    BY PreviewAssumption
  <2> QED BY <2>3, <2>4, <2>5 DEF Stills!Next, Stills!Ask, Pictures
<1> QED BY <1>2, <1>3

\* After a change of film nothing is asked: the worker's request is older.
LEMMA NothingAsked ==
  ASSUME IInv, pending' = None, generation' = generation + 1, UNCHANGED worker
  PROVE  Outstanding' = {}
BY DEF IInv, MediaShape, WorkerShape, Holding, Outstanding, Asked, Answers, Current, Request

\* The timeline's steps are steps of the promise.
LEMMA TimelineRefines ==
  ASSUME IInv, IInv', Timeline
  PROVE  [Stills!Next]_(Stills!vars)
<1> USE PreviewAssumption
<1>1. CASE \E f \in Film : VideoModeEnter(f)
  <2>1. PICK f \in Film : VideoModeEnter(f)
    BY <1>1
  <2>2. CASE previewOpen
    <3>1. /\ mediaPath' = None /\ generation' = generation + 1 /\ pending' = None
          /\ cache' = NoFrames /\ UNCHANGED worker
      BY <2>1, <2>2 DEF VideoModeEnter, PreviewClose, CacheClear
    <3>2. Pictures' = {}
      BY <3>1 DEF Pictures, Cached, NoFrames
    <3> QED BY <3>1, <3>2, NothingAsked DEF Stills!Next, Stills!Close, Pictures
  <2>3. CASE ~previewOpen
    <3>1. UNCHANGED <<mediaPath, generation, pending, cache, worker>>
      BY <2>1, <2>3 DEF VideoModeEnter, engine, media, store
    <3> QED BY <3>1, Withdrawing DEF Outstanding, Asked, Answers, Current
  <2> QED BY <2>2, <2>3
<1>2. CASE VideoModePump
  <2>1. /\ surface \in Film /\ ~previewOpen /\ mediaPath' = surface
        /\ generation' = generation + 1 /\ pending' = None /\ UNCHANGED worker
    BY <1>2 DEF VideoModePump, PreviewOpen, IInv, ClientShape
  <2>2. mediaPath = None /\ mediaPath # surface
    BY <2>1 DEF IInv, MediaShape
  <2>3. cache' = NoFrames
    BY <1>2, <2>2 DEF VideoModePump, PreviewOpen, CacheClear
  <2>4. Pictures' = {}
    BY <2>3 DEF Pictures, Cached, NoFrames
  <2> QED BY <2>1, <2>4, NothingAsked DEF Stills!Next, Stills!Open, Pictures
<1>3. CASE \E b \in Stops : UpdatePreview(b)
  <2>1. PICK b \in Bucket : UpdatePreview(b)
    BY <1>3, PreviewAssumption
  <2>2. /\ mediaPath \in Film /\ PreviewRequest(b)
        /\ UNCHANGED <<mediaPath, generation, worker>>
    BY <2>1 DEF UpdatePreview, HasLength, media, IInv, MediaShape
  <2> QED BY <2>2, Asking
<1>4. CASE AskAround
  <2>1. pointer \in Bucket /\ mediaPath \in Film
    BY <1>4 DEF AskAround, IInv, ClientShape, MediaShape
  <2>2. PICK b \in Bucket : PreviewRequest(b)
    BY <1>4, <2>1 DEF AskAround, Bucket
  <2>3. UNCHANGED <<mediaPath, generation, worker>>
    BY <1>4 DEF AskAround, media
  <2> QED BY <2>1, <2>2, <2>3, Asking
<1>5. CASE VideoModeLeave \/ LeaveTimeline \/ LookAround \/ PaintPreviewCard
  <2>1. UNCHANGED <<mediaPath, generation, pending, cache, worker>>
    BY <1>5 DEF VideoModeLeave, LeaveTimeline, LookAround, PaintPreviewCard, engine, media,
       store, UseExact, Use
  <2> QED BY <2>1, Withdrawing DEF Outstanding, Asked, Answers, Current
<1>6. CASE Publish
  <2>1. PICK g \in Grants : grant' = g /\ CacheTrim(cache, recency, cacheBytes, g.budget)
    BY <1>6 DEF Publish
  <2>2. UNCHANGED <<mediaPath, generation, pending, worker>>
    BY <1>6 DEF Publish, media
  <2>3. \A b \in Bucket : cache'[b] \in {cache[b], None}
    BY <2>1, TrimForgets DEF IInv, CacheShape
  <2> QED BY <2>2, <2>3, Withdrawing DEF Outstanding, Asked, Answers, Current
<1>7. CASE BeginStop \/ FinishStop
  <2>1. UNCHANGED <<mediaPath, generation, worker>> /\ pending' \in {pending, None}
    BY <1>7 DEF BeginStop, FinishStop, media
  <2>2. cache' \in {cache, NoFrames}
    BY <1>7 DEF BeginStop, FinishStop, CacheClear, store
  <2>3. \A b \in Bucket : cache'[b] \in {cache[b], None}
    BY <2>2 DEF NoFrames
  <2> QED BY <2>1, <2>3, Withdrawing DEF Outstanding, Asked, Answers, Current
<1> QED BY <1>1, <1>2, <1>3, <1>4, <1>5, <1>6, <1>7 DEF Timeline

\* The worker's steps are steps of the promise.
LEMMA WorkerRefines ==
  ASSUME IInv, IInv', Worker
  PROVE  [Stills!Next]_(Stills!vars)
<1> USE PreviewAssumption
<1>1. CASE Take
  <2>1. pending # None /\ pending' = None /\ worker.pc = "wait"
    BY <1>1 DEF Take
  <2>2. worker'.request = pending
    BY <1>1 DEF Take, Idle
  <2>3. UNCHANGED <<mediaPath, generation, cache>>
    BY <1>1 DEF Take, window, media, store
  <2>4. Outstanding' \subseteq Outstanding
    BY <2>1, <2>2, <2>3 DEF Outstanding, Asked, Answers, Current
  <2> QED BY <2>3, <2>4, Withdrawing
<1>2. CASE ReadPolicy \/ Settle \/ DecodeFrame \/ Notify \/ Exit
  <2>1. UNCHANGED <<mediaPath, generation, cache, pending>>
    BY <1>2 DEF ReadPolicy, Settle, DecodeFrame, Notify, Exit, window, media, store
  <2>2. worker'.pc \in Holding => worker.pc \in Holding /\ worker'.request = worker.request
    BY <1>2, HoldingGoesOn DEF IInv, WorkerShape
  <2>3. Outstanding' \subseteq Outstanding
    BY <2>1, <2>2 DEF Outstanding, Asked, Answers, Current, Holding
  <2> QED BY <2>1, <2>3, Withdrawing
<1>3. CASE StoreFrame
  <2>1. /\ UNCHANGED <<mediaPath, generation, pending>>
        /\ worker.pc \in Holding /\ worker'.pc \notin Holding
    BY <1>3 DEF StoreFrame, Judged, window, media, Idle, Holding
  <2>2. Outstanding' \subseteq Outstanding
    BY <2>1 DEF Outstanding, Asked, Answers, Current, Holding
  <2>3. CASE ~(Current /\ worker.frame)
    BY <1>3, <2>1, <2>2, <2>3, Withdrawing DEF StoreFrame, store
  <2>4. CASE Current /\ worker.frame
    <3> DEFINE b == worker.request.bucket
               frame == FrameOf(worker.request)
    <3>1. b \in Bucket /\ frame \in Frame /\ frame.film = mediaPath /\ mediaPath # None
      BY <2>1, <2>4 DEF IInv, WorkerShape, Current, Request, Frame, FrameOf
    <3>2. CachePut(b, frame)
      BY <1>3, <2>4 DEF StoreFrame
    <3>3. b \in Outstanding
      BY <2>1, <2>4, <3>1 DEF Outstanding, Answers, Holding
    <3> HIDE DEF b, frame
    <3>4. \A c \in Bucket : cache'[c] \in {IF c = b THEN frame ELSE cache[c], None}
      BY <3>1, <3>2, PutAddsOne DEF IInv, CacheShape
    <3>5. Pictures' \subseteq Pictures \cup {<<mediaPath, b>>}
      BY <3>1, <3>4 DEF Pictures, Cached
    <3> QED BY <2>1, <2>2, <3>1, <3>3, <3>5 DEF Stills!Next, Stills!Answer, Pictures
  <2> QED BY <2>3, <2>4
<1> QED BY <1>1, <1>2, <1>3 DEF Worker

\* The engine keeps its promise to the timeline, for every value of the
\* constants: what may be drawn is of the open film and was still asked for.
THEOREM KeptPromise == Spec => KeepsPromise
<1>1. Init => Stills!Init
  <2> SUFFICES ASSUME Init PROVE Stills!Init
    OBVIOUS
  <2>1. Outstanding = {}
    BY DEF Init, Outstanding, Asked, Idle, Holding
  <2>2. Pictures = {}
    BY DEF Init, Pictures, Cached, NoFrames
  <2> QED BY <2>1, <2>2 DEF Init, Stills!Init, Pictures
<1>2. IInv /\ IInv' /\ [Next]_vars => [Stills!Next]_(Stills!vars)
  <2> SUFFICES ASSUME IInv, IInv', [Next]_vars PROVE [Stills!Next]_(Stills!vars)
    OBVIOUS
  <2>1. CASE Timeline
    BY <2>1, TimelineRefines
  <2>2. CASE Worker
    BY <2>2, WorkerRefines
  <2>3. CASE UNCHANGED vars
    BY <2>3, Withdrawing DEF vars, Outstanding, Asked, Answers, Current
  <2> QED BY <2>1, <2>2, <2>3 DEF Next
<1> QED BY <1>1, <1>2, Invariance, PTL DEF Spec, KeepsPromise, Stills!Spec
-----------------------------------------------------------------------------
(* What the frames of a set of buckets take: a total of their sizes.        *)

LEMMA BucketsAreFinite ==
  /\ IsFiniteSet(Bucket)
  /\ \A S \in SUBSET Bucket : IsFiniteSet(S) /\ Cardinality(S) \in Nat
<1>1. IsFiniteSet(Bucket)
  BY PreviewAssumption, FS_Interval DEF Bucket
<1> QED BY <1>1, FS_Subset, FS_CardinalityType

Sizes(frames) == [b \in Bucket |-> frames[b].size]
Sized(frames, S) == \A b \in S : frames[b].size \in Nat

LEMMA BytesAreTotal ==
  ASSUME NEW frames, NEW S \in SUBSET Bucket
  PROVE  BytesOf(frames, S) = Total(Sizes(frames), S)
<1> DEFINE Iterates(g) ==
             g = [s \in SUBSET S |-> IF s = {} THEN 0
                                     ELSE frames[FirstOf(s)].size + g[s \ {FirstOf(s)}]]
           g == CHOOSE g : Iterates(g)
           f == Sizes(frames)
<1>1. BytesOf(frames, S) = g[S]
  BY DEF BytesOf, MapThenSumSet, MapThenFoldSet, FirstOf
<1>2. \A k : Iterates(k) <=> Sums(k, f, S)
  <2>1. \A s \in SUBSET S : s # {} => f[FirstOf(s)] = frames[FirstOf(s)].size
    BY DEF Sizes, FirstOf
  <2> QED BY <2>1 DEF Sums
<1>3. Sums(g, f, S)
  <2>1. Sums(SumsOf(f, S), f, S)
    BY BucketsAreFinite, SumsExist
  <2> HIDE DEF Iterates, f
  <2> QED BY <1>2, <2>1
<1> HIDE DEF g, f
<1>4. g[S] = Total(f, S)
  BY <1>3, BucketsAreFinite, FoldIsTotal
<1> QED BY <1>1, <1>4 DEF f

LEMMA BytesOfNone == ASSUME NEW frames PROVE BytesOf(frames, {}) = 0
BY BytesAreTotal, TotalOfNone

LEMMA BytesAgree ==
  ASSUME NEW frames, NEW other, NEW S \in SUBSET Bucket,
         \A b \in S : frames[b].size = other[b].size
  PROVE  BytesOf(frames, S) = BytesOf(other, S)
<1>1. \A b \in S : Sizes(frames)[b] = Sizes(other)[b]
  BY DEF Sizes
<1> QED BY <1>1, BucketsAreFinite, BytesAreTotal, TotalsAgree

LEMMA SizesAreNat ==
  ASSUME NEW frames, NEW S \in SUBSET Bucket, Sized(frames, S)
  PROVE  \A b \in S : Sizes(frames)[b] = frames[b].size /\ Sizes(frames)[b] \in Nat
BY DEF Sizes, Sized

LEMMA BytesAreNat ==
  ASSUME NEW frames, NEW S \in SUBSET Bucket, Sized(frames, S)
  PROVE  BytesOf(frames, S) \in Nat
BY SizesAreNat, BucketsAreFinite, BytesAreTotal, TotalIsNat

\* One bucket and the rest, whichever bucket.
LEMMA BytesWithout ==
  ASSUME NEW frames, NEW S \in SUBSET Bucket, NEW x \in S, Sized(frames, S)
  PROVE  BytesOf(frames, S) = frames[x].size + BytesOf(frames, S \ {x})
<1> DEFINE f == Sizes(frames)
<1>1. (\A b \in S : f[b] \in Nat) /\ f[x] = frames[x].size
  BY SizesAreNat
<1>2. BytesOf(frames, S) = Total(f, S) /\ BytesOf(frames, S \ {x}) = Total(f, S \ {x})
  BY BytesAreTotal
<1> HIDE DEF f
<1>3. Total(f, S) = f[x] + Total(f, S \ {x})
  BY <1>1, BucketsAreFinite, TotalWithout
<1> QED BY <1>1, <1>2, <1>3

\* Some of the buckets and the others.
LEMMA BytesApart ==
  ASSUME NEW frames, NEW S \in SUBSET Bucket, NEW T \in SUBSET S, Sized(frames, S)
  PROVE  BytesOf(frames, S) = BytesOf(frames, T) + BytesOf(frames, S \ T)
<1> DEFINE f == Sizes(frames)
<1>1. \A b \in S : f[b] \in Nat
  BY SizesAreNat
<1>2. /\ BytesOf(frames, S) = Total(f, S) /\ BytesOf(frames, T) = Total(f, T)
      /\ BytesOf(frames, S \ T) = Total(f, S \ T)
  <2>1. T \in SUBSET Bucket /\ S \ T \in SUBSET Bucket
    OBVIOUS
  <2> QED BY <2>1, BytesAreTotal
<1> HIDE DEF f
<1>3. Total(f, S) = Total(f, T) + Total(f, S \ T)
  BY <1>1, BucketsAreFinite, TotalApart
<1> QED BY <1>2, <1>3
-----------------------------------------------------------------------------
(* The order of last uses.                                                 *)

Distinct(order) == \A i, j \in 1..Len(order) : order[i] = order[j] => i = j
Listed(order) == {order[i] : i \in 1..Len(order)}
\* b has been used within the last n + 1 uses.
Within(order, b, n) == \E i \in 1..Len(order) : order[i] = b /\ Len(order) - i <= n

\* A bucket that is used goes to the end, the others move up by one at most
\* (used = ++cacheClock).
LEMMA TouchedKeeps ==
  ASSUME NEW order \in Seq(Bucket), Distinct(order), NEW b \in Bucket
  PROVE  /\ Touched(order, b) \in Seq(Bucket) /\ Distinct(Touched(order, b))
         /\ Listed(Touched(order, b)) = Listed(order) \cup {b}
         /\ Within(Touched(order, b), b, 0)
         /\ \A c \in Bucket : \A n \in Nat :
              Within(order, c, n) => Within(Touched(order, b), c, n + 1)
<1> DEFINE t == Touched(order, b)
           len == Len(order)
<1>1. len \in Nat /\ \A j \in 1..len : order[j] \in Bucket
  OBVIOUS
<1>2. CASE b \notin Listed(order)
  <2>1. t = Append(order, b)
    <3>1. {i \in 1..Len(order) : order[i] = b} = {}
      BY <1>2 DEF Listed
    <3> QED BY <3>1 DEF Touched
  <2>2. t \in Seq(Bucket) /\ Len(t) = len + 1
    BY <2>1
  <2>3. \A j \in 1..len + 1 : t[j] = IF j = len + 1 THEN b ELSE order[j]
    BY <2>1
  <2> HIDE DEF t, len
  <2>4. Distinct(t)
    BY <1>1, <1>2, <2>2, <2>3 DEF Distinct, Listed, len
  <2>5. Listed(t) = Listed(order) \cup {b}
    BY <1>1, <2>2, <2>3 DEF Listed, len
  <2>6. Within(t, b, 0)
    BY <1>1, <2>2, <2>3 DEF Within
  <2>7. ASSUME NEW c \in Bucket, NEW n \in Nat, Within(order, c, n) PROVE Within(t, c, n + 1)
    <3>1. PICK i \in 1..len : order[i] = c /\ len - i <= n
      BY <2>7 DEF Within, len
    <3>2. i \in 1..Len(t) /\ t[i] = c /\ Len(t) - i <= n + 1
      BY <1>1, <2>2, <2>3, <3>1
    <3> QED BY <3>2 DEF Within
  <2> QED BY <2>2, <2>4, <2>5, <2>6, <2>7 DEF t
<1>3. CASE b \in Listed(order)
  <2>1. PICK i \in 1..len : order[i] = b
    BY <1>3 DEF Listed
  <2>2. t = Append(SubSeq(order, 1, i - 1) \o SubSeq(order, i + 1, Len(order)), b)
    <3>1. {k \in 1..Len(order) : order[k] = b} = {i}
      BY <2>1 DEF Distinct
    <3>2. Min({i}) = i
      BY <2>1 DEF Min
    <3> QED BY <3>1, <3>2 DEF Touched
  <2> DEFINE head == SubSeq(order, 1, i - 1)
             tail == SubSeq(order, i + 1, Len(order))
  <2>3. /\ head \in Seq(Bucket) /\ Len(head) = i - 1
        /\ \A j \in 1..i - 1 : head[j] = order[j]
    BY <1>1, <2>1
  <2>4. /\ tail \in Seq(Bucket) /\ Len(tail) = len - i
        /\ \A j \in 1..len - i : tail[j] = order[j + i]
    BY <1>1, <2>1
  <2> HIDE DEF head, tail
  <2>5. /\ head \o tail \in Seq(Bucket) /\ Len(head \o tail) = len - 1
        /\ \A j \in 1..len - 1 : (head \o tail)[j] = IF j < i THEN order[j] ELSE order[j + 1]
    <3>1. head \o tail \in Seq(Bucket) /\ Len(head \o tail) = Len(head) + Len(tail)
      BY <2>3, <2>4, ConcatProperties
    <3>2. ASSUME NEW j \in 1..len - 1
          PROVE  (head \o tail)[j] = IF j < i THEN order[j] ELSE order[j + 1]
      <4>1. (head \o tail)[j] = IF j <= Len(head) THEN head[j] ELSE tail[j - Len(head)]
        BY <1>1, <2>1, <2>3, <2>4, ConcatProperties
      <4>2. CASE j < i
        BY <1>1, <2>1, <2>3, <4>1, <4>2
      <4>3. CASE ~ (j < i)
        <5>1. j - (i - 1) \in 1..len - i
          BY <1>1, <2>1, <4>3
        <5>2. (head \o tail)[j] = tail[j - (i - 1)]
          BY <1>1, <2>1, <2>3, <4>1, <4>3
        <5>3. tail[j - (i - 1)] = order[j - (i - 1) + i]
          BY <2>4, <5>1
        <5>4. j - (i - 1) + i = j + 1
          BY <1>1, <2>1
        <5> QED BY <4>3, <5>2, <5>3, <5>4
      <4> QED BY <4>2, <4>3
    <3> QED BY <1>1, <2>1, <2>3, <2>4, <3>1, <3>2
  <2> DEFINE rest == head \o tail
  <2>6. t = Append(rest, b)
    BY <2>2 DEF head, tail
  <2> HIDE DEF rest
  <2>7. t \in Seq(Bucket) /\ Len(t) = len
    BY <1>1, <2>1, <2>5, <2>6 DEF rest
  <2>8. \A j \in 1..len : t[j] = IF j = len THEN b ELSE IF j < i THEN order[j] ELSE order[j + 1]
    BY <1>1, <2>1, <2>5, <2>6 DEF rest
  <2> HIDE DEF t, len
  <2>9. Distinct(t)
    <3> SUFFICES ASSUME NEW j \in 1..len, NEW k \in 1..len, t[j] = t[k] PROVE j = k
      BY <2>7 DEF Distinct
    <3> DEFINE from(m) == IF m = len THEN i ELSE IF m < i THEN m ELSE m + 1
    <3>1. \A m \in 1..len : from(m) \in 1..len /\ t[m] = order[from(m)]
      BY <1>1, <2>1, <2>8
    <3>2. from(j) = from(k)
      BY <3>1 DEF Distinct, len
    <3> QED BY <1>1, <2>1, <3>2
  <2>10. Listed(t) = Listed(order) \cup {b}
    <3>1. ASSUME NEW m \in 1..len PROVE order[m] \in Listed(t)
      <4>1. CASE m = i
        BY <1>1, <2>1, <2>7, <2>8, <4>1 DEF Listed
      <4>2. CASE m < i
        BY <1>1, <2>1, <2>7, <2>8, <4>2 DEF Listed
      <4>3. CASE m > i
        <5>1. m - 1 \in 1..len /\ t[m - 1] = order[m]
          BY <1>1, <2>1, <2>8, <4>3
        <5> QED BY <2>7, <5>1 DEF Listed
      <4> QED BY <1>1, <2>1, <4>1, <4>2, <4>3
    <3>2. \A m \in 1..len : t[m] \in Listed(order) \cup {b}
      BY <1>1, <2>1, <2>8 DEF Listed, len
    <3> QED BY <1>3, <2>7, <3>1, <3>2 DEF Listed, len
  <2>11. Within(t, b, 0)
    <3>1. len \in 1..Len(t) /\ t[len] = b /\ Len(t) - len <= 0
      BY <1>1, <2>1, <2>7, <2>8
    <3> QED BY <3>1 DEF Within
  <2>12. ASSUME NEW c \in Bucket, NEW n \in Nat, Within(order, c, n) PROVE Within(t, c, n + 1)
    <3>1. PICK m \in 1..len : order[m] = c /\ len - m <= n
      BY <2>12 DEF Within, len
    <3>2. CASE m = i
      <4>1. len \in 1..Len(t) /\ t[len] = c /\ Len(t) - len <= n + 1
        BY <1>1, <2>1, <2>7, <2>8, <3>1, <3>2
      <4> QED BY <4>1 DEF Within
    <3>3. CASE m < i
      <4>1. m \in 1..Len(t) /\ t[m] = c /\ Len(t) - m <= n + 1
        BY <1>1, <2>1, <2>7, <2>8, <3>1, <3>3
      <4> QED BY <4>1 DEF Within
    <3>4. CASE m > i
      <4>1. m - 1 \in 1..Len(t) /\ t[m - 1] = c /\ Len(t) - (m - 1) <= n + 1
        BY <1>1, <2>1, <2>7, <2>8, <3>1, <3>4
      <4> QED BY <4>1 DEF Within
    <3> QED BY <1>1, <2>1, <3>1, <3>2, <3>3, <3>4
  <2> QED BY <2>7, <2>9, <2>10, <2>11, <2>12 DEF t
<1> QED BY <1>2, <1>3

-----------------------------------------------------------------------------
(* The trim.                                                               *)

LEMMA LeastIsMin ==
  ASSUME NEW S \in SUBSET Nat, S # {}
  PROVE  Min(S) \in S /\ \A n \in S : Min(S) <= n
<1>1. PICK m \in S : \A n \in S : ~ (<<n, m>> \in OpToRel(<, Nat))
  BY NatLessThanWellFounded, WFMin
<1>2. ASSUME NEW n \in S PROVE m <= n
  <2>1. ~ (n < m)
    BY <1>1 DEF OpToRel
  <2> QED BY <2>1
<1> QED BY <1>1, <1>2 DEF Min

\* The order lists the buckets that have a frame, each once.
OrderOf(frames, order) ==
  /\ order \in Seq(Bucket) /\ Distinct(order)
  /\ Listed(order) = {b \in Bucket : frames[b] # None}

LEMMA FramesAreSized ==
  ASSUME NEW frames \in [Bucket -> Frame \cup {None}], NEW order, OrderOf(frames, order)
  PROVE  Listed(order) \in SUBSET Bucket /\ Sized(frames, Listed(order))
BY DEF OrderOf, Sized, Frame

\* The newest frames, all but n.
Newest(order, n) == {order[i] : i \in n + 1..Len(order)}

LEMMA NewestAreTheRest ==
  ASSUME NEW order \in Seq(Bucket), Distinct(order), NEW n \in 0..Len(order)
  PROVE  /\ Newest(order, n) = Listed(order) \ Oldest(order, n)
         /\ Oldest(order, n) \in SUBSET Listed(order)
         /\ Newest(order, n) \in SUBSET Listed(order)
<1> DEFINE len == Len(order)
<1>1. len \in Nat
  OBVIOUS
<1>2. Oldest(order, n) \in SUBSET Listed(order) /\ Newest(order, n) \in SUBSET Listed(order)
  BY <1>1 DEF Oldest, Listed, Newest
<1>3. ASSUME NEW i \in 1..len
      PROVE  (order[i] \in Oldest(order, n) <=> i <= n) /\ (order[i] \in Newest(order, n) <=> i > n)
  BY <1>1, <1>3 DEF Oldest, Newest, Distinct
<1> QED BY <1>1, <1>2, <1>3 DEF Listed

Fitting(frames, budget) == \A b \in Bucket : frames[b] # None => 4 * frames[b].size <= budget

\* Four frames fit where each takes a quarter at most.
LEMMA FourFit ==
  ASSUME NEW frames \in [Bucket -> Frame \cup {None}], NEW order, OrderOf(frames, order),
         NEW budget \in Nat, Fitting(frames, budget),
         NEW n \in 0..Len(order), Len(order) - n <= 4
  PROVE  BytesOf(frames, Newest(order, n)) <= budget
<1> DEFINE len == Len(order)
           held(k) == BytesOf(frames, Newest(order, k))
<1>1. len \in Nat /\ order \in Seq(Bucket) /\ Distinct(order)
  BY DEF OrderOf
<1>2. held(len) = 0
  <2>1. Newest(order, len) = {}
    BY <1>1 DEF Newest
  <2> QED BY <2>1, BytesOfNone
<1>3. ASSUME NEW k \in 1..len
      PROVE  held(k) \in Nat /\ held(k - 1) \in Nat /\ 4 * held(k - 1) <= budget + 4 * held(k)
  <2> DEFINE b == order[k]
             size == frames[b].size
             S == Newest(order, k - 1)
  <2>1. k \in 0..len /\ k - 1 \in 0..len
    BY <1>1
  <2>2. S \in SUBSET Listed(order) /\ Newest(order, k) \in SUBSET Listed(order)
    BY <1>1, <2>1, NewestAreTheRest
  <2>3. /\ S \in SUBSET Bucket /\ Sized(frames, S)
        /\ Newest(order, k) \in SUBSET Bucket /\ Sized(frames, Newest(order, k))
    BY <2>2, FramesAreSized DEF Sized
  <2>4. b \in S
    BY <1>1 DEF Newest
  <2>5. Newest(order, k) = S \ {b}
    <3>1. \A i \in k..len : order[i] = b <=> i = k
      BY <1>1 DEF Distinct
    <3>2. k + 1..len = (k..len) \ {k} /\ (k - 1) + 1..len = k..len
      BY <1>1
    <3> QED BY <1>1, <3>1, <3>2 DEF Newest
  <2>6. BytesOf(frames, S) = size + BytesOf(frames, Newest(order, k))
    BY <2>3, <2>4, <2>5, BytesWithout
  <2>7. size \in Nat /\ 4 * size <= budget
    BY <2>2, <2>3, <2>4 DEF Sized, OrderOf, Fitting
  <2>8. held(k) \in Nat
    BY <2>3, BytesAreNat
  <2> HIDE DEF size, S
  <2>9. held(k - 1) = size + held(k)
    BY <2>6 DEF S
  <2> HIDE DEF held
  <2> QED BY <2>7, <2>8, <2>9
<1> HIDE DEF held, len
<1>4. CASE n = len
  BY <1>1, <1>2, <1>4 DEF held
<1>5. CASE n = len - 1
  <2>1. len \in 1..len
    BY <1>1, <1>5 DEF len
  <2> QED BY <1>1, <1>2, <1>3, <1>5, <2>1 DEF held
<1>6. CASE n = len - 2
  <2>1. len \in 1..len /\ len - 1 \in 1..len /\ (len - 1) - 1 = len - 2
    BY <1>1, <1>6 DEF len
  <2>2. 4 * held(len - 1) <= budget /\ held(len - 1) \in Nat
    BY <1>1, <1>2, <1>3, <2>1
  <2>3. 4 * held(len - 2) <= budget + 4 * held(len - 1) /\ held(len - 2) \in Nat
    BY <1>3, <2>1
  <2>4. held(len - 2) <= budget
    BY <2>2, <2>3
  <2> QED BY <1>6, <2>4 DEF held
<1>7. CASE n = len - 3
  <2>1. /\ len \in 1..len /\ len - 1 \in 1..len /\ (len - 1) - 1 = len - 2
        /\ len - 2 \in 1..len /\ (len - 2) - 1 = len - 3
    BY <1>1, <1>7 DEF len
  <2>2. 4 * held(len - 1) <= budget /\ held(len - 1) \in Nat
    BY <1>1, <1>2, <1>3, <2>1
  <2>3. 4 * held(len - 2) <= budget + 4 * held(len - 1) /\ held(len - 2) \in Nat
    BY <1>3, <2>1
  <2>4. 4 * held(len - 3) <= budget + 4 * held(len - 2) /\ held(len - 3) \in Nat
    BY <1>3, <2>1
  <2>5. held(len - 3) <= budget
    BY <2>2, <2>3, <2>4
  <2> QED BY <1>7, <2>5 DEF held
<1>8. CASE n = len - 4
  <2>1. /\ len \in 1..len /\ len - 1 \in 1..len /\ (len - 1) - 1 = len - 2
        /\ len - 2 \in 1..len /\ (len - 2) - 1 = len - 3
        /\ len - 3 \in 1..len /\ (len - 3) - 1 = len - 4
    BY <1>1, <1>8 DEF len
  <2>2. 4 * held(len - 1) <= budget /\ held(len - 1) \in Nat
    BY <1>1, <1>2, <1>3, <2>1
  <2>3. 4 * held(len - 2) <= budget + 4 * held(len - 1) /\ held(len - 2) \in Nat
    BY <1>3, <2>1
  <2>4. 4 * held(len - 3) <= budget + 4 * held(len - 2) /\ held(len - 3) \in Nat
    BY <1>3, <2>1
  <2>5. 4 * held(len - 4) <= budget + 4 * held(len - 3) /\ held(len - 4) \in Nat
    BY <1>3, <2>1
  <2>6. held(len - 4) <= budget
    BY <2>2, <2>3, <2>4, <2>5
  <2> QED BY <1>8, <2>6 DEF held
<1>9. n = len \/ n = len - 1 \/ n = len - 2 \/ n = len - 3 \/ n = len - 4
  BY <1>1 DEF len
<1> QED BY <1>4, <1>5, <1>6, <1>7, <1>8, <1>9

\* Trimming keeps the count exact, stops as soon as the rest fits or one is
\* left, and never reaches the four frames used last (CacheTrimLocked).
LEMMA TrimKeeps ==
  ASSUME NEW frames \in [Bucket -> Frame \cup {None}], NEW order, OrderOf(frames, order),
         NEW bytes, bytes = BytesOf(frames, Listed(order)), NEW budget \in Nat,
         CacheTrim(frames, order, bytes, budget)
  PROVE  /\ OrderOf(cache', recency')
         /\ cacheBytes' = BytesOf(cache', Listed(recency'))
         /\ cacheBytes' <= budget \/ Len(recency') <= 1
         /\ Fitting(frames, budget) =>
              \A b \in Bucket : \A k \in 0..3 : Within(order, b, k) => Within(recency', b, k)
<1> DEFINE len == Len(order)
           n == Excess(frames, order, bytes, budget)
           gone == Oldest(order, n)
           left == Newest(order, n)
           Enough(k) == \/ bytes - BytesOf(frames, Oldest(order, k)) <= budget
                        \/ len - k <= 1
           Lengths == {k \in 0..len : Enough(k)}
<1>1. len \in Nat /\ order \in Seq(Bucket) /\ Distinct(order)
  BY DEF OrderOf
<1>2. n = Min(Lengths)
  BY DEF Excess
<1>3. n \in Lengths /\ \A k \in Lengths : n <= k
  <2>1. len \in Lengths /\ Lengths \in SUBSET Nat
    BY <1>1
  <2> HIDE DEF Lengths, n
  <2> QED BY <1>2, <2>1, LeastIsMin
<1>4. n \in 0..len /\ Enough(n)
  BY <1>3
<1>5. /\ cache' = [b \in Bucket |-> IF b \in gone THEN None ELSE frames[b]]
      /\ recency' = SubSeq(order, n + 1, len)
      /\ cacheBytes' = bytes - BytesOf(frames, gone)
  BY DEF CacheTrim
<1>6. /\ left = Listed(order) \ gone
      /\ gone \in SUBSET Listed(order) /\ left \in SUBSET Listed(order)
  <2> HIDE DEF n
  <2> QED BY <1>1, <1>4, NewestAreTheRest
<1> HIDE DEF n
<1>7. recency' \in Seq(Bucket) /\ Len(recency') = len - n
      /\ \A i \in 1..len - n : recency'[i] = order[i + n]
  BY <1>1, <1>4, <1>5
<1>8. Listed(recency') = left
  <2>1. ASSUME NEW i \in n + 1..len PROVE order[i] \in Listed(recency')
    <3>1. i - n \in 1..len - n /\ (i - n) + n = i
      BY <1>1, <1>4
    <3>2. recency'[i - n] = order[i]
      BY <1>7, <3>1
    <3> QED BY <1>7, <3>1, <3>2 DEF Listed
  <2>2. ASSUME NEW i \in 1..len - n PROVE recency'[i] \in left
    <3>1. i + n \in n + 1..len
      BY <1>1, <1>4
    <3> QED BY <1>7, <3>1 DEF Newest
  <2>3. Listed(recency') \subseteq left
    BY <1>7, <2>2 DEF Listed
  <2>4. left \subseteq Listed(recency')
    BY <2>1 DEF Newest
  <2> QED BY <2>3, <2>4
<1>9. OrderOf(cache', recency')
  <2>1. Distinct(recency')
    BY <1>1, <1>4, <1>7 DEF Distinct
  <2>2. left = {b \in Bucket : cache'[b] # None}
    <3> HIDE DEF gone, left
    <3> QED BY <1>5, <1>6 DEF OrderOf
  <2> QED BY <1>7, <1>8, <2>1, <2>2 DEF OrderOf
<1>10. BytesOf(frames, Listed(order) \ Oldest(order, n)) = bytes - BytesOf(frames, gone)
  <2>1. Listed(order) \in SUBSET Bucket /\ Sized(frames, Listed(order))
    BY FramesAreSized
  <2>2. bytes = BytesOf(frames, gone) + BytesOf(frames, left)
    <3> HIDE DEF gone, left
    <3> QED BY <1>6, <2>1, BytesApart
  <2>3. BytesOf(frames, gone) \in Nat /\ BytesOf(frames, left) \in Nat
    <3> HIDE DEF gone, left
    <3> QED BY <1>6, <2>1, BytesAreNat DEF Sized
  <2> HIDE DEF left
  <2> QED BY <1>6, <2>2, <2>3
<1>11. cacheBytes' = BytesOf(frames, left)
  BY <1>5, <1>6, <1>10
<1>12. cacheBytes' = BytesOf(cache', Listed(recency'))
  <2>1. left \in SUBSET Bucket
    BY <1>6, FramesAreSized
  <2>2. \A b \in left : cache'[b] = frames[b]
    <3> HIDE DEF gone, left
    <3> QED BY <1>5, <1>6, <2>1
  <2> HIDE DEF left
  <2>3. BytesOf(cache', left) = BytesOf(frames, left)
    BY <2>1, <2>2, BytesAgree
  <2> QED BY <1>8, <1>11, <2>3
<1>13. cacheBytes' <= budget \/ Len(recency') <= 1
  BY <1>4, <1>5, <1>7
<1>14. ASSUME Fitting(frames, budget), NEW b \in Bucket, NEW k \in 0..3, Within(order, b, k)
       PROVE  Within(recency', b, k)
  <2>1. PICK i \in 1..len : order[i] = b /\ len - i <= k
    BY <1>14 DEF Within
  <2> DEFINE m == IF len <= 4 THEN 0 ELSE len - 4
  <2>2. m \in 0..len /\ len - m <= 4 /\ (m = 0 \/ m = len - 4)
    BY <1>1
  <2> HIDE DEF m
  <2>3. BytesOf(frames, Newest(order, m)) <= budget
    BY <1>14, <2>2, FourFit
  <2>4. bytes - BytesOf(frames, Oldest(order, m)) = BytesOf(frames, Newest(order, m))
    <3>1. Listed(order) \in SUBSET Bucket /\ Sized(frames, Listed(order))
      BY FramesAreSized
    <3>2. /\ Newest(order, m) = Listed(order) \ Oldest(order, m)
          /\ Oldest(order, m) \in SUBSET Listed(order) /\ Newest(order, m) \in SUBSET Listed(order)
      BY <1>1, <2>2, NewestAreTheRest
    <3>3. bytes = BytesOf(frames, Oldest(order, m)) + BytesOf(frames, Newest(order, m))
      BY <3>1, <3>2, BytesApart
    <3>4. BytesOf(frames, Oldest(order, m)) \in Nat /\ BytesOf(frames, Newest(order, m)) \in Nat
      BY <3>1, <3>2, BytesAreNat DEF Sized
    <3> QED BY <3>3, <3>4
  <2>5. m \in Lengths
    BY <2>2, <2>3, <2>4
  <2>6. n <= m
    BY <1>3, <2>5
  <2> HIDE DEF Lengths
  <2>7. i - n \in 1..Len(recency') /\ recency'[i - n] = b /\ Len(recency') - (i - n) <= k
    BY <1>1, <1>4, <1>7, <2>1, <2>2, <2>6
  <2> QED BY <2>7 DEF Within
<1> QED BY <1>9, <1>12, <1>13, <1>14

\* Putting a frame in keeps all that too, and the bucket is now the last used
\* (CachePutLocked).
LEMMA PutKeeps ==
  ASSUME cache \in [Bucket -> Frame \cup {None}], OrderOf(cache, recency),
         cacheBytes = BytesOf(cache, Listed(recency)), grant.budget \in Nat,
         NEW b \in Bucket, NEW frame \in Frame, CachePut(b, frame)
  PROVE  /\ OrderOf(cache', recency')
         /\ cacheBytes' = BytesOf(cache', Listed(recency'))
         /\ cacheBytes' <= grant.budget \/ Len(recency') <= 1
         /\ Fitting(cache, grant.budget) /\ 4 * frame.size <= grant.budget =>
              /\ Within(recency', b, 0)
              /\ \A c \in Bucket : \A k \in 0..2 : Within(recency, c, k) => Within(recency', c, k + 1)
<1> DEFINE put == [cache EXCEPT ![b] = frame]
           t == Touched(recency, b)
           before == IF cache[b] = None THEN 0 ELSE cache[b].size
           bytes == cacheBytes - before + frame.size
           rest == Listed(recency) \ {b}
<1>1. CacheTrim(put, t, bytes, grant.budget)
  BY DEF CachePut
<1>2. /\ put \in [Bucket -> Frame \cup {None}]
      /\ \A c \in Bucket : put[c] = IF c = b THEN frame ELSE cache[c]
  OBVIOUS
<1>3. frame.size \in Nat /\ frame # None
  BY PreviewAssumption DEF Frame
<1>4. /\ t \in Seq(Bucket) /\ Distinct(t) /\ Listed(t) = Listed(recency) \cup {b}
      /\ Within(t, b, 0)
      /\ \A c \in Bucket : \A n \in Nat : Within(recency, c, n) => Within(t, c, n + 1)
  BY TouchedKeeps DEF OrderOf
<1> HIDE DEF put, t
<1>5. OrderOf(put, t)
  BY <1>2, <1>3, <1>4 DEF OrderOf
<1>6. bytes = BytesOf(put, Listed(t))
  <2>1. /\ Listed(t) \in SUBSET Bucket /\ Sized(put, Listed(t))
        /\ Listed(recency) \in SUBSET Bucket /\ Sized(cache, Listed(recency))
    BY <1>2, <1>5, FramesAreSized
  <2>2. b \in Listed(t) /\ Listed(t) \ {b} = rest /\ rest \in SUBSET Bucket
    BY <1>4, <2>1
  <2>3. BytesOf(put, Listed(t)) = put[b].size + BytesOf(put, rest)
    BY <2>1, <2>2, BytesWithout
  <2>4. BytesOf(put, rest) = BytesOf(cache, rest)
    <3>1. \A c \in rest : put[c].size = cache[c].size
      BY <1>2, <2>2
    <3> HIDE DEF rest
    <3> QED BY <2>2, <3>1, BytesAgree
  <2>5. cacheBytes = before + BytesOf(cache, rest)
    <3>1. CASE cache[b] = None
      <4>1. rest = Listed(recency)
        BY <3>1 DEF OrderOf
      <4>2. BytesOf(cache, rest) \in Nat
        BY <2>1, <4>1, BytesAreNat
      <4> QED BY <3>1, <4>1, <4>2
    <3>2. CASE cache[b] # None
      <4>1. b \in Listed(recency)
        BY <3>2 DEF OrderOf
      <4> QED BY <2>1, <3>2, <4>1, BytesWithout
    <3> QED BY <3>1, <3>2
  <2>6. BytesOf(cache, rest) \in Nat /\ before \in Nat
    <3>1. Sized(cache, rest)
      BY <2>1 DEF Sized
    <3>2. before \in Nat
      BY DEF Frame
    <3> QED BY <2>2, <3>1, <3>2, BytesAreNat
  <2>7. put[b].size = frame.size
    BY <1>2
  <2> HIDE DEF before, rest
  <2> QED BY <1>3, <2>3, <2>4, <2>5, <2>6, <2>7
<1> HIDE DEF bytes
<1>7. /\ OrderOf(cache', recency')
      /\ cacheBytes' = BytesOf(cache', Listed(recency'))
      /\ cacheBytes' <= grant.budget \/ Len(recency') <= 1
  BY <1>1, <1>2, <1>5, <1>6, TrimKeeps
<1>8. ASSUME Fitting(cache, grant.budget), 4 * frame.size <= grant.budget
      PROVE  /\ Within(recency', b, 0)
             /\ \A c \in Bucket : \A k \in 0..2 : Within(recency, c, k) => Within(recency', c, k + 1)
  <2>1. Fitting(put, grant.budget)
    BY <1>2, <1>8 DEF Fitting
  <2>2. \A c \in Bucket : \A k \in 0..3 : Within(t, c, k) => Within(recency', c, k)
    BY <1>1, <1>2, <1>5, <1>6, <2>1, TrimKeeps
  <2>3. Within(recency', b, 0)
    BY <1>4, <2>2
  <2>4. ASSUME NEW c \in Bucket, NEW k \in 0..2, Within(recency, c, k)
        PROVE  Within(recency', c, k + 1)
    <3>1. Within(t, c, k + 1) /\ k + 1 \in 0..3
      BY <1>4, <2>4
    <3> QED BY <2>2, <3>1
  <2> QED BY <2>3, <2>4
<1> QED BY <1>7, <1>8

-----------------------------------------------------------------------------
(* The budget.                                                             *)

BudgetShape ==
  /\ OrderOf(cache, recency)
  /\ cacheBytes = BytesOf(cache, Listed(recency))
  /\ cacheBytes <= grant.budget \/ Len(recency) <= 1

\* An order without repetition is as long as the set it lists.
LEMMA BudgetShapeIsEnough == BudgetShape => BudgetKept
<1> SUFFICES ASSUME BudgetShape PROVE BudgetKept
  OBVIOUS
<1> DEFINE len == Len(recency)
<1>1. len \in Nat /\ Distinct(recency) /\ Listed(recency) = Cached
  BY DEF BudgetShape, OrderOf, Cached
<1>2. ExistsBijection(1..len, Cached)
  <2> DEFINE f == [i \in 1..len |-> recency[i]]
  <2>1. f \in [1..len -> Cached]
    BY <1>1 DEF Listed
  <2>2. IsInjective(f)
    BY <1>1 DEF IsInjective, Distinct
  <2>3. \A b \in Cached : \E i \in 1..len : f[i] = b
    BY <1>1 DEF Listed
  <2>4. f \in Bijection(1..len, Cached)
    BY <2>1, <2>2, <2>3 DEF Bijection, Injection, Surjection
  <2> QED BY <2>4 DEF ExistsBijection
<1>3. Cardinality(Cached) = len
  BY <1>1, <1>2, FS_CountingElements
<1> QED BY <1>1, <1>3 DEF BudgetKept, BudgetShape, Listed

\* No still takes more than a quarter of any budget.
Modest(size) == \A g \in Grants : 4 * size <= g.budget
SizeShape ==
  /\ \A b \in Bucket : cache[b] # None => Modest(cache[b].size)
  /\ pending # None => Modest(pending.size)
  /\ worker.pc \in Holding => Modest(worker.request.size)

\* What a step may do to the cache.
LEMMA StoreSteps ==
  ASSUME IInv, SizeShape, Next
  PROVE  \/ UNCHANGED <<store, grant>>
         \/ CacheClear /\ UNCHANGED grant
         \/ \E b \in Cached : Use(b) /\ UNCHANGED grant
         \/ \E g \in Grants : grant' = g /\ CacheTrim(cache, recency, cacheBytes, g.budget)
         \/ \E b \in Bucket : \E frame \in Frame :
              Modest(frame.size) /\ CachePut(b, frame) /\ UNCHANGED grant
<1>1. CASE \E f \in Film : VideoModeEnter(f)
  BY <1>1 DEF VideoModeEnter, PreviewClose, engine, store
<1>2. CASE VideoModePump
  BY <1>2 DEF VideoModePump, PreviewOpen
<1>3. CASE VideoModeLeave \/ LeaveTimeline \/ BeginStop \/ FinishStop
  BY <1>3 DEF VideoModeLeave, LeaveTimeline, BeginStop, FinishStop, engine
<1>4. CASE \E b \in Stops : UpdatePreview(b)
  BY <1>4 DEF UpdatePreview, PreviewRequest
<1>5. CASE LookAround
  BY <1>5 DEF LookAround, UseExact
<1>6. CASE AskAround
  BY <1>6 DEF AskAround, PreviewRequest
<1>7. CASE PaintPreviewCard
  BY <1>7 DEF PaintPreviewCard, UseExact
<1>8. CASE Publish
  BY <1>8 DEF Publish
<1>9. CASE StoreFrame
  <2>1. worker.request \in Request /\ Modest(worker.request.size) /\ UNCHANGED grant
    BY <1>9 DEF StoreFrame, Judged, window, IInv, WorkerShape, SizeShape, Holding
  <2>2. CASE Current /\ worker.frame
    <3> DEFINE b == worker.request.bucket
               frame == FrameOf(worker.request)
    <3>1. b \in Bucket /\ frame \in Frame /\ Modest(frame.size)
      BY <2>1 DEF FrameOf, Request, Frame
    <3>2. CachePut(b, frame)
      BY <1>9, <2>2 DEF StoreFrame
    <3> HIDE DEF b, frame
    <3> QED BY <2>1, <3>1, <3>2
  <2>3. CASE ~(Current /\ worker.frame)
    BY <1>9, <2>1, <2>3 DEF StoreFrame
  <2> QED BY <2>2, <2>3
<1>10. CASE Take
  BY <1>10 DEF Take, window
<1>11. CASE ReadPolicy \/ Settle \/ DecodeFrame \/ Notify \/ Exit
  BY <1>11 DEF ReadPolicy, Settle, DecodeFrame, Notify, Exit, window
<1> QED BY <1>1, <1>2, <1>3, <1>4, <1>5, <1>6, <1>7, <1>8, <1>9, <1>10, <1>11
        DEF Next, Timeline, Worker

LEMMA BudgetStep ==
  ASSUME IInv, SizeShape, BudgetShape, Next
  PROVE  BudgetShape'
<1>1. cache \in [Bucket -> Frame \cup {None}]
  BY DEF IInv, CacheShape
<1>2. \A g \in Grants : g.budget \in Nat
  BY PreviewAssumption DEF Grant
<1>3. OrderOf(cache, recency) /\ cacheBytes = BytesOf(cache, Listed(recency))
  BY DEF BudgetShape
<1>4. CASE UNCHANGED <<store, grant>>
  BY <1>4 DEF store, BudgetShape, OrderOf, Distinct, Listed
<1>5. CASE CacheClear /\ UNCHANGED grant
  <2>1. cache' = NoFrames /\ recency' = <<>> /\ cacheBytes' = 0
    BY <1>5 DEF CacheClear
  <2>2. Listed(recency') = {} /\ Distinct(recency') /\ Len(recency') = 0
    BY <2>1 DEF Listed, Distinct
  <2>3. OrderOf(cache', recency')
    BY <2>1, <2>2 DEF OrderOf, NoFrames
  <2>4. cacheBytes' = BytesOf(cache', Listed(recency'))
    <3>1. BytesOf(cache', {}) = 0
      BY BytesOfNone
    <3> QED BY <2>1, <2>2, <3>1
  <2> QED BY <2>2, <2>3, <2>4 DEF BudgetShape
<1>6. CASE \E b \in Cached : Use(b) /\ UNCHANGED grant
  <2>1. PICK b \in Cached : recency' = Touched(recency, b) /\ UNCHANGED <<cache, cacheBytes, grant>>
    BY <1>6 DEF Use
  <2>2. /\ recency' \in Seq(Bucket) /\ Distinct(recency')
        /\ Listed(recency') = Listed(recency) \cup {b}
    BY <1>3, <2>1, TouchedKeeps DEF OrderOf, Cached
  <2>3. Listed(recency') = Listed(recency)
    BY <1>3, <2>1, <2>2 DEF OrderOf, Cached
  <2>4. OrderOf(cache', recency')
    BY <1>3, <2>1, <2>2, <2>3 DEF OrderOf
  <2>5. cacheBytes' <= grant'.budget \/ Len(recency') <= 1
    <3>1. CASE cacheBytes <= grant.budget
      BY <2>1, <3>1
    <3>2. CASE Len(recency) <= 1
      <4> DEFINE len == Len(recency')
      <4>1. \A c, d \in Listed(recency) : c = d
        <5>1. \A i, j \in 1..Len(recency) : i = j
          BY <1>3, <3>2 DEF OrderOf
        <5> QED BY <5>1 DEF Listed
      <4>2. len \in Nat /\ \A i \in 1..len : recency'[i] \in Listed(recency)
        BY <2>2, <2>3 DEF Listed
      <4>3. \A i, j \in 1..len : i = j
        BY <2>2, <4>1, <4>2 DEF Distinct
      <4>4. ~ (1 \in 1..len /\ 2 \in 1..len)
        BY <4>3
      <4> HIDE DEF len
      <4>5. len <= 1
        BY <4>2, <4>4
      <4> QED BY <4>5 DEF len
    <3> QED BY <3>1, <3>2 DEF BudgetShape
  <2> QED BY <1>3, <2>1, <2>3, <2>4, <2>5 DEF BudgetShape
<1>7. CASE \E g \in Grants : grant' = g /\ CacheTrim(cache, recency, cacheBytes, g.budget)
  <2>1. PICK g \in Grants : grant' = g /\ CacheTrim(cache, recency, cacheBytes, g.budget)
    BY <1>7
  <2> QED BY <1>1, <1>2, <1>3, <2>1, TrimKeeps DEF BudgetShape
<1>8. CASE \E b \in Bucket : \E frame \in Frame :
             Modest(frame.size) /\ CachePut(b, frame) /\ UNCHANGED grant
  <2>1. PICK b \in Bucket, frame \in Frame : CachePut(b, frame) /\ UNCHANGED grant
    BY <1>8
  <2>2. grant.budget \in Nat
    BY <1>2 DEF IInv, ClientShape
  <2> QED BY <1>1, <1>3, <2>1, <2>2, PutKeeps DEF BudgetShape
<1> QED BY <1>4, <1>5, <1>6, <1>7, <1>8, StoreSteps

LEMMA SizeStep ==
  ASSUME IInv, SizeShape, Next
  PROVE  SizeShape'
<1>1. \A b \in Bucket : cache'[b] # None => Modest(cache'[b].size)
  <2>1. CASE UNCHANGED <<store, grant>> \/ \E b \in Cached : Use(b) /\ UNCHANGED grant
    BY <2>1 DEF store, Use, SizeShape
  <2>2. CASE CacheClear /\ UNCHANGED grant
    BY <2>2 DEF CacheClear, NoFrames
  <2>3. CASE \E g \in Grants : grant' = g /\ CacheTrim(cache, recency, cacheBytes, g.budget)
    <3>1. PICK g \in Grants : CacheTrim(cache, recency, cacheBytes, g.budget)
      BY <2>3
    <3>2. \A b \in Bucket : cache'[b] \in {cache[b], None}
      BY <3>1, TrimForgets DEF IInv, CacheShape
    <3> QED BY <3>2 DEF SizeShape
  <2>4. CASE \E b \in Bucket : \E frame \in Frame :
               Modest(frame.size) /\ CachePut(b, frame) /\ UNCHANGED grant
    <3>1. PICK b \in Bucket, frame \in Frame : Modest(frame.size) /\ CachePut(b, frame)
      BY <2>4
    <3>2. \A c \in Bucket : cache'[c] \in {IF c = b THEN frame ELSE cache[c], None}
      BY <3>1, PutAddsOne DEF IInv, CacheShape
    <3> QED BY <3>1, <3>2 DEF SizeShape
  <2> QED BY <2>1, <2>2, <2>3, <2>4, StoreSteps
<1>2. pending' # None => Modest(pending'.size)
  <2>1. ASSUME NEW b, PreviewRequest(b) PROVE pending' # None => Modest(pending'.size)
    BY <2>1, PreviewAssumption DEF PreviewRequest, SizeShape, Modest, IInv, ClientShape
  <2>2. CASE \E f \in Film : VideoModeEnter(f)
    BY <2>2 DEF VideoModeEnter, PreviewClose, engine, SizeShape
  <2>3. CASE VideoModePump
    BY <2>3 DEF VideoModePump, PreviewOpen
  <2>4. CASE \E b \in Stops : UpdatePreview(b)
    BY <2>1, <2>4 DEF UpdatePreview
  <2>5. CASE AskAround
    BY <2>1, <2>5 DEF AskAround
  <2>6. CASE \/ VideoModeLeave \/ LeaveTimeline \/ LookAround \/ PaintPreviewCard
             \/ Publish \/ BeginStop \/ FinishStop
    BY <2>6 DEF VideoModeLeave, LeaveTimeline, LookAround, PaintPreviewCard, Publish,
       BeginStop, FinishStop, engine, SizeShape
  <2>7. CASE Worker
    BY <2>7 DEF Worker, Take, ReadPolicy, Settle, DecodeFrame, StoreFrame, Judged, Notify, Exit, SizeShape
  <2> QED BY <2>2, <2>3, <2>4, <2>5, <2>6, <2>7 DEF Next, Timeline
<1>3. worker'.pc \in Holding => Modest(worker'.request.size)
  <2>1. CASE Timeline
    <3>1. UNCHANGED worker
      BY <2>1 DEF Timeline, VideoModeEnter, VideoModePump, UpdatePreview, VideoModeLeave,
         LeaveTimeline, LookAround, PaintPreviewCard, AskAround, Publish, BeginStop, FinishStop
    <3> QED BY <3>1 DEF SizeShape
  <2>2. CASE Take
    <3>1. worker'.request = pending /\ pending # None
      BY <2>2 DEF Take, Idle
    <3> QED BY <3>1 DEF SizeShape
  <2>3. CASE ReadPolicy \/ Settle \/ DecodeFrame \/ Notify \/ Exit
    BY <2>3, HoldingGoesOn DEF IInv, WorkerShape, SizeShape
  <2>4. CASE StoreFrame
    BY <2>4 DEF StoreFrame, Judged, Idle, Holding
  <2> QED BY <2>1, <2>2, <2>3, <2>4 DEF Next, Worker
<1> QED BY <1>1, <1>2, <1>3 DEF SizeShape, Modest

\* Both parts hold in every state.
LEMMA StoreInvariance == Spec => [](SizeShape /\ BudgetShape)
<1>1. Init => SizeShape /\ BudgetShape
  <2> SUFFICES ASSUME Init PROVE SizeShape /\ BudgetShape
    OBVIOUS
  <2>1. cache = NoFrames /\ recency = <<>> /\ cacheBytes = 0 /\ pending = None /\ worker = Idle
    BY DEF Init
  <2>2. grant \in Grants /\ grant.budget \in Nat
    BY PreviewAssumption DEF Init, Grant
  <2>3. Listed(recency) = {} /\ Distinct(recency) /\ recency \in Seq(Bucket)
    BY <2>1 DEF Listed, Distinct
  <2>4. OrderOf(cache, recency)
    BY <2>1, <2>3 DEF OrderOf, NoFrames
  <2> QED BY <2>1, <2>2, <2>3, <2>4, BytesOfNone
          DEF SizeShape, BudgetShape, NoFrames, Idle, Holding
<1>2. IInv /\ SizeShape /\ BudgetShape /\ [Next]_vars => SizeShape' /\ BudgetShape'
  <2> SUFFICES ASSUME IInv, SizeShape, BudgetShape, [Next]_vars PROVE SizeShape' /\ BudgetShape'
    OBVIOUS
  <2>1. CASE Next
    BY <2>1, SizeStep, BudgetStep
  <2>2. CASE UNCHANGED vars
    BY <2>2 DEF vars, SizeShape, BudgetShape, OrderOf, Distinct, Listed
  <2> QED BY <2>1, <2>2
<1> QED BY <1>1, <1>2, Invariance, PTL DEF Spec

\* The count of bytes is exact and the budget is kept, whatever the sizes of
\* the stills, the grants published and the order of the uses (cacheBytes).
THEOREM BudgetIsKept == Spec => []BudgetKept
<1>1. SizeShape /\ BudgetShape => BudgetKept
  BY BudgetShapeIsEnough
<1> QED BY <1>1, StoreInvariance, PTL

-----------------------------------------------------------------------------
(* A pointer at rest.  Between two uses of the bucket under the pointer at   *)
(* most three frames are stored, and that many never push it out: the ones   *)
(* still to come and the ones since its last use are counted together.       *)

Coming == (IF pending = None THEN 0 ELSE 1) + (IF worker.pc \in Holding THEN 1 ELSE 0)
Looking == IF drawing = "ask" THEN 1 ELSE 0     \* the prefetch may ask once more
Kept(b) == \E k \in 0..3 : k + Coming + Looking <= 3 /\ Within(recency, b, k)
InHand(b) ==
  /\ drawing # "ask"
  /\ Asked(b) \/ (pending = None /\ worker.pc \in Holding /\ Answers(b))
Resting == Running /\ HasLength /\ pointer # None /\ ~givenUp

RestShape ==
  /\ ~previewOpen => pointer = None
  /\ Resting => Kept(pointer) \/ InHand(pointer)

LEMMA KeptIsCached ==
  ASSUME BudgetShape, NEW b, Kept(b)
  PROVE  b \in Cached
BY DEF BudgetShape, Kept, Within, OrderOf, Listed, Cached

\* The bucket just used is kept whatever is to come.
LEMMA UsedIsKept ==
  ASSUME Within(recency, pointer, 0)', Looking' + Coming' <= 3
  PROVE  Kept(pointer)'
BY DEF Kept, Coming, Looking

\* PreviewBest gives a bucket of the cache.
LEMMA BestIsCached ==
  ASSUME NEW b \in Bucket
  PROVE  PreviewBest(b) \in Cached \cup {None}
<1>1. CASE Neighbours(b) = {}
  BY <1>1 DEF PreviewBest
<1>2. CASE Neighbours(b) # {}
  <2> DEFINE away(c) == (c - b) * (c - b)
             Squares == {away(c) : c \in Neighbours(b)}
  <2>1. b \in Int
    BY PreviewAssumption DEF Bucket
  <2>2. \A c \in Neighbours(b) : c \in Nat /\ c - b \in -2..2
    BY <2>1, PreviewAssumption DEF Neighbours, Cached, Bucket
  <2>3. \A c \in Neighbours(b) : away(c) \in Nat
    <3> SUFFICES ASSUME NEW c \in Neighbours(b) PROVE away(c) \in Nat
      OBVIOUS
    <3>1. c - b = -2 \/ c - b = -1 \/ c - b = 0 \/ c - b = 1 \/ c - b = 2
      BY <2>2
    <3> QED BY <3>1
  <2>4. Min(Squares) \in Squares /\ \A n \in Squares : Min(Squares) <= n
    <3>1. Squares \in SUBSET Nat /\ Squares # {}
      BY <1>2, <2>3
    <3> HIDE DEF Squares
    <3> QED BY <3>1, LeastIsMin
  <2>5. PICK c \in Neighbours(b) : away(c) = Min(Squares)
    BY <2>4
  <2>6. c \in Nearest(b)
    BY <2>4, <2>5 DEF Nearest
  <2>7. Nearest(b) \in SUBSET Nat /\ Nearest(b) # {}
    BY <2>2, <2>6 DEF Nearest
  <2>8. PreviewBest(b) \in Nearest(b)
    BY <1>2, <2>7, LeastIsMin DEF PreviewBest
  <2> QED BY <2>8 DEF Nearest, Neighbours
<1> QED BY <1>1, <1>2

\* A use of a bucket, as the order sees it.
LEMMA UseKeeps ==
  ASSUME BudgetShape, NEW b \in Cached, Use(b)
  PROVE  /\ Within(recency', b, 0)
         /\ \A c \in Bucket : \A k \in 0..2 : Within(recency, c, k) => Within(recency', c, k + 1)
<1>1. b \in Bucket /\ recency \in Seq(Bucket) /\ Distinct(recency) /\ recency' = Touched(recency, b)
  BY DEF BudgetShape, OrderOf, Use, Cached
<1> QED BY <1>1, TouchedKeeps

LEMMA ComingIsSmall == Coming \in 0..2 /\ Looking \in 0..1
BY DEF Coming, Looking

\* The timeline's actions keep the pointer's bucket or ask for it.
LEMMA TimelineRests ==
  ASSUME IInv, BudgetShape, SizeShape, RestShape, Timeline
  PROVE  RestShape'
<1> USE PreviewAssumption
<1>1. CASE \E f \in Film : VideoModeEnter(f)
  BY <1>1 DEF VideoModeEnter, RestShape, Resting
<1>2. CASE VideoModePump
  BY <1>2 DEF VideoModePump, RestShape, Resting
<1>3. CASE VideoModeLeave \/ LeaveTimeline
  BY <1>3 DEF VideoModeLeave, LeaveTimeline, RestShape, Resting, HasLength
<1>4. CASE BeginStop \/ FinishStop
  BY <1>4 DEF BeginStop, FinishStop, timeline, RestShape, Resting, Running
<1>5. CASE \E b \in Stops : UpdatePreview(b)
  <2>1. PICK b \in Bucket : UpdatePreview(b)
    BY <1>5
  <2>2. /\ previewOpen /\ pointer' = b /\ PreviewRequest(b) /\ drawing = "none"
        /\ givenUp' = ~grant.allowed
        /\ UNCHANGED <<surface, previewOpen, drawing, worker, generation>>
    BY <2>1 DEF UpdatePreview, HasLength, UiIdle, media
  <2>3. CASE ~grant.allowed
    BY <2>2, <2>3 DEF RestShape, Resting
  <2>4. CASE grant.allowed /\ b \in Cached
    <3>1. Use(b) /\ pending' = pending
      BY <2>2, <2>4 DEF PreviewRequest
    <3>2. Within(recency', pointer', 0)
      BY <2>2, <2>4, <3>1, UseKeeps
    <3>3. Looking' + Coming' <= 3
      BY <2>2, <3>1, ComingIsSmall DEF Looking, Coming
    <3>4. Kept(pointer)'
      BY <3>2, <3>3, UsedIsKept
    <3> QED BY <2>2, <3>4 DEF RestShape
  <2>5. CASE grant.allowed /\ b \notin Cached
    <3>1. pending' = [bucket |-> b, film |-> mediaPath, size |-> grant.scale, media |-> generation]
      BY <2>2, <2>5 DEF PreviewRequest
    <3>2. mediaPath \in Film /\ generation \in Nat /\ grant.scale \in Nat \ {0}
      BY <2>2 DEF IInv, MediaShape, ClientShape, Grant
    <3>3. pending' \in Request
      BY <3>1, <3>2 DEF Request
    <3>4. pending' # None /\ pending'.bucket = b
      BY <3>1, <3>3
    <3>5. InHand(pointer)'
      BY <2>2, <3>4 DEF InHand, Asked
    <3> QED BY <2>2, <3>5 DEF RestShape
  <2> QED BY <2>3, <2>4, <2>5
<1>6. CASE LookAround
  <2>1. /\ drawing = "none" /\ drawing' \in {"ask", "paint"}
        /\ UNCHANGED <<surface, previewOpen, pointer, pending, worker, phase, givenUp, generation>>
    BY <1>6 DEF LookAround, FrameDue, UiIdle, media
  <2>2. Coming' = Coming
    BY <2>1 DEF Coming
  <2>3. CASE UNCHANGED store /\ drawing' = "paint"
    <3>1. Looking' = Looking /\ recency' = recency
      BY <2>1, <2>3 DEF Looking, store
    <3>2. Resting' = Resting
      BY <2>1 DEF Resting, Running, HasLength
    <3>3. Kept(pointer) => Kept(pointer)'
      BY <2>1, <2>2, <3>1 DEF Kept
    <3>4. InHand(pointer) => InHand(pointer)'
      BY <2>1, <2>3 DEF InHand, Asked, Answers, Current
    <3> QED BY <2>1, <3>2, <3>3, <3>4 DEF RestShape
  <2>4. CASE pointer \in Cached /\ Use(pointer)
    <3>1. Within(recency', pointer', 0)
      BY <2>1, <2>4, UseKeeps
    <3>2. Looking' + Coming' <= 3
      BY <2>2, ComingIsSmall DEF Looking
    <3>3. Kept(pointer)'
      BY <3>1, <3>2, UsedIsKept
    <3> QED BY <2>1, <3>3 DEF RestShape
  <2>5. \/ UNCHANGED store /\ drawing' = "paint"
        \/ pointer \in Cached /\ Use(pointer)
    <3>1. CASE HasLength /\ pointer # None /\ ~Decoding
      <4>1. UseExact(pointer) /\ drawing' = IF PreviewBest(pointer) = pointer THEN "ask" ELSE "paint"
        BY <1>6, <3>1 DEF LookAround
      <4>2. pointer \in Bucket
        BY <3>1 DEF IInv, ClientShape
      <4>3. pointer \notin Cached => PreviewBest(pointer) # pointer
        BY <3>1, <4>2, BestIsCached
      <4> QED BY <4>1, <4>3 DEF UseExact
    <3>2. CASE ~ (HasLength /\ pointer # None /\ ~Decoding)
      BY <1>6, <3>2 DEF LookAround
    <3> QED BY <3>1, <3>2
  <2> QED BY <2>3, <2>4, <2>5
<1>7. CASE AskAround
  <2>1. /\ drawing = "ask" /\ drawing' = "paint"
        /\ UNCHANGED <<surface, previewOpen, pointer, worker, phase, givenUp, generation>>
    BY <1>7 DEF AskAround, media
  <2>2. PICK b \in Bucket : PreviewRequest(b)
    BY <1>7 DEF AskAround, Bucket, IInv, ClientShape
  <2> SUFFICES ASSUME Resting' PROVE Kept(pointer)'
    BY <2>1 DEF RestShape
  <2>3. Kept(pointer) /\ pointer \in Bucket
    BY <2>1 DEF RestShape, Resting, Running, HasLength, InHand, IInv, ClientShape
  <2>4. PICK k \in 0..3 : k + Coming + Looking <= 3 /\ Within(recency, pointer, k)
    BY <2>3 DEF Kept
  <2>5. Looking = 1 /\ Looking' = 0
    BY <2>1 DEF Looking
  <2>6. k \in 0..2 /\ k + Coming <= 2
    BY <2>4, <2>5, ComingIsSmall
  <2>7. CASE UNCHANGED <<pending, store>>
    <3>1. Coming' = Coming /\ recency' = recency /\ pointer' = pointer
      BY <2>1, <2>7 DEF Coming, store
    <3> QED BY <2>4, <2>5, <2>6, <3>1, ComingIsSmall DEF Kept
  <2>8. CASE b \in Cached /\ Use(b) /\ UNCHANGED pending
    <3>1. Coming' = Coming /\ pointer' = pointer
      BY <2>1, <2>8 DEF Coming
    <3>2. Within(recency', pointer, k + 1)
      BY <2>3, <2>4, <2>6, <2>8, UseKeeps
    <3>3. k + 1 \in 0..3 /\ (k + 1) + Coming' + Looking' <= 3
      BY <2>5, <2>6, <3>1, ComingIsSmall
    <3> QED BY <3>1, <3>2, <3>3 DEF Kept
  <2>9. CASE UNCHANGED store
    <3>1. Coming' <= Coming + 1 /\ Coming' \in 0..2 /\ recency' = recency /\ pointer' = pointer
      BY <2>1, <2>9 DEF Coming, store
    <3> DEFINE now == Coming
               then == Coming'
               look == Looking'
    <3>2. then <= now + 1 /\ now \in 0..2 /\ then \in 0..2 /\ k + now <= 2
      BY <2>6, <3>1, ComingIsSmall
    <3>3. look = 0
      BY <2>5
    <3>4. k + then + look <= 3
      <4> HIDE DEF now, then, look
      <4> QED BY <2>6, <3>2, <3>3
    <3>5. Within(recency, pointer, k) /\ recency' = recency /\ pointer' = pointer
      BY <2>4, <3>1
    <3> QED BY <3>4, <3>5 DEF Kept
  <2> QED BY <2>2, <2>7, <2>8, <2>9 DEF PreviewRequest
<1>8. CASE PaintPreviewCard
  <2>1. /\ drawing = "paint" /\ drawing' = "none"
        /\ UNCHANGED <<surface, previewOpen, pointer, pending, worker, phase, givenUp, generation>>
    BY <1>8 DEF PaintPreviewCard, media
  <2>2. Coming' = Coming /\ Looking' = Looking
    BY <2>1 DEF Coming, Looking
  <2>3. CASE UNCHANGED store
    <3>1. recency' = recency
      BY <2>3 DEF store
    <3>2. Resting' = Resting
      BY <2>1 DEF Resting, Running, HasLength
    <3>3. Kept(pointer) => Kept(pointer)'
      BY <2>1, <2>2, <3>1 DEF Kept
    <3>4. InHand(pointer) => InHand(pointer)'
      BY <2>1 DEF InHand, Asked, Answers, Current
    <3> QED BY <2>1, <3>2, <3>3, <3>4 DEF RestShape
  <2>4. CASE pointer \in Cached /\ Use(pointer)
    <3>1. Within(recency', pointer', 0)
      BY <2>1, <2>4, UseKeeps
    <3>2. Looking' + Coming' <= 3
      BY <2>2, ComingIsSmall
    <3>3. Kept(pointer)'
      BY <3>1, <3>2, UsedIsKept
    <3> QED BY <2>1, <3>3 DEF RestShape
  <2> QED BY <1>8, <2>3, <2>4 DEF PaintPreviewCard, UseExact
<1>9. CASE Publish
  <2>1. PICK g \in Grants : grant' = g /\ CacheTrim(cache, recency, cacheBytes, g.budget)
    BY <1>9 DEF Publish
  <2>2. UNCHANGED <<surface, previewOpen, pointer, drawing, pending, worker, phase, givenUp, generation>>
    BY <1>9 DEF Publish, timeline, media
  <2>3. \A b \in Bucket : \A k \in 0..3 : Within(recency, b, k) => Within(recency', b, k)
    <3>1. g.budget \in Nat /\ Fitting(cache, g.budget)
      BY DEF Grant, Fitting, SizeShape, Modest
    <3>2. cache \in [Bucket -> Frame \cup {None}]
      BY DEF IInv, CacheShape
    <3> QED BY <2>1, <3>1, <3>2, TrimKeeps DEF BudgetShape
  <2>4. Coming' = Coming /\ Looking' = Looking /\ Resting' = Resting
    BY <2>2 DEF Coming, Looking, Resting, Running, HasLength
  <2>5. pointer \in Bucket /\ Kept(pointer) => Kept(pointer)'
    BY <2>2, <2>3, <2>4 DEF Kept
  <2>6. InHand(pointer) => InHand(pointer)'
    BY <2>2 DEF InHand, Asked, Answers, Current
  <2>7. Resting => pointer \in Bucket
    BY DEF Resting, IInv, ClientShape
  <2> QED BY <2>2, <2>4, <2>5, <2>6, <2>7 DEF RestShape
<1> QED BY <1>1, <1>2, <1>3, <1>4, <1>5, <1>6, <1>7, <1>8, <1>9 DEF Timeline


\* The worker brings in what was asked for, and never more than was coming.
LEMMA WorkerRests ==
  ASSUME IInv, BudgetShape, SizeShape, RestShape, Worker
  PROVE  RestShape'
<1> USE PreviewAssumption
<1>1. /\ UNCHANGED <<surface, previewOpen, pointer, drawing, phase, generation, grant>>
      /\ givenUp => givenUp'
  <2>1. UNCHANGED window
    BY DEF Worker, Take, ReadPolicy, Settle, DecodeFrame, StoreFrame, Judged, Notify, Exit
  <2>2. givenUp => givenUp'
    <3>1. CASE Take \/ ReadPolicy \/ Settle \/ DecodeFrame \/ Notify \/ Exit
      BY <3>1 DEF Take, ReadPolicy, Settle, DecodeFrame, Notify, Exit
    <3>2. CASE StoreFrame
      <4> DEFINE nothing == ~worker.frame /\ Answers(pointer) /\ ~Asked(pointer)
      <4>1. givenUp' = (givenUp \/ nothing)
        BY <3>2 DEF StoreFrame, Judged
      <4> HIDE DEF nothing
      <4> QED BY <4>1, Zenon
    <3> QED BY <3>1, <3>2 DEF Worker
  <2> QED BY <2>1, <2>2 DEF window, media
<1> SUFFICES ASSUME Resting' PROVE Kept(pointer)' \/ InHand(pointer)'
  BY <1>1 DEF RestShape
<1>2. Looking' = Looking /\ Resting /\ pointer \in Bucket /\ pointer' = pointer
  BY <1>1 DEF Looking, Resting, Running, HasLength, IInv, ClientShape
<1>3. Kept(pointer) \/ InHand(pointer)
  BY <1>2 DEF RestShape
<1>4. CASE Take
  <2>1. /\ worker.pc \notin Holding /\ worker'.pc \in Holding /\ pending # None /\ pending' = None
        /\ worker'.request = pending /\ UNCHANGED store
    BY <1>4 DEF Take, Idle, Holding
  <2>2. Coming' = Coming
    BY <2>1 DEF Coming
  <2>3. CASE Kept(pointer)
    BY <1>2, <2>1, <2>2, <2>3 DEF Kept, store
  <2>4. CASE InHand(pointer)
    <3>1. drawing # "ask" /\ Asked(pointer) /\ pending.media = generation
      BY <2>1, <2>4 DEF InHand, IInv, RequestShape
    <3>2. Answers(pointer)'
      BY <1>1, <2>1, <3>1 DEF Asked, Answers, Current
    <3> QED BY <1>1, <2>1, <3>1, <3>2 DEF InHand
  <2> QED BY <1>3, <2>3, <2>4
<1>5. CASE ReadPolicy \/ Settle \/ DecodeFrame \/ Notify
  <2>1. /\ UNCHANGED <<pending, store>>
        /\ worker'.pc \in Holding => worker.pc \in Holding /\ worker'.request = worker.request
    BY <1>5, HoldingGoesOn DEF ReadPolicy, Settle, DecodeFrame, Notify, IInv, WorkerShape
  <2>2. CASE Kept(pointer)
    <3>1. PICK k \in 0..3 : k + Coming + Looking <= 3 /\ Within(recency, pointer, k)
      BY <2>2 DEF Kept
    <3> DEFINE now == Coming
               then == Coming'
               look == Looking
               after == Looking'
    <3>2. /\ then <= now /\ now \in 0..2 /\ then \in 0..2 /\ look \in 0..1
          /\ after = look /\ k + now + look <= 3
      BY <1>2, <2>1, <3>1 DEF Coming, Looking
    <3>3. k + then + after <= 3
      <4> HIDE DEF now, then, look, after
      <4> QED BY <3>2
    <3>4. Within(recency, pointer, k) /\ recency' = recency
      BY <2>1, <3>1 DEF store
    <3> QED BY <1>2, <3>3, <3>4 DEF Kept
  <2>3. CASE InHand(pointer)
    <3>1. CASE Asked(pointer)
      BY <1>1, <2>1, <2>3, <3>1 DEF InHand, Asked
    <3>2. CASE pending = None /\ worker.pc \in Holding /\ Answers(pointer)
      <4>1. worker'.pc \in Holding
        BY <1>5, <3>2 DEF ReadPolicy, Settle, DecodeFrame, Notify, Holding, IInv, WorkerShape, Thread
      <4> QED BY <1>1, <2>1, <2>3, <3>2, <4>1 DEF InHand, Answers, Current
    <3> QED BY <2>3, <3>1, <3>2 DEF InHand
  <2> QED BY <1>3, <2>2, <2>3
<1>6. CASE StoreFrame
  <2> DEFINE b == worker.request.bucket
             frame == FrameOf(worker.request)
  <2>1. /\ worker.pc \in Holding /\ worker'.pc \notin Holding /\ UNCHANGED pending
        /\ givenUp' = (givenUp \/ (~worker.frame /\ Answers(pointer) /\ ~Asked(pointer)))
    BY <1>6 DEF StoreFrame, Judged, Idle, Holding
  <2>2. Coming = Coming' + 1 /\ Coming' \in 0..1 /\ Looking \in 0..1
    BY <2>1 DEF Coming, Looking
  <2>3. CASE Asked(pointer) /\ drawing # "ask"
    BY <1>1, <2>1, <2>3 DEF InHand, Asked
  <2>4. CASE Current /\ worker.frame
    <3>1. b \in Bucket /\ frame \in Frame /\ Modest(frame.size)
      BY <2>1 DEF IInv, WorkerShape, SizeShape, FrameOf, Request, Frame
    <3>2. CachePut(b, frame)
      BY <1>6, <2>4 DEF StoreFrame
    <3>3. /\ Within(recency', b, 0)
          /\ \A c \in Bucket : \A k \in 0..2 : Within(recency, c, k) => Within(recency', c, k + 1)
      <4>1. Fitting(cache, grant.budget) /\ 4 * frame.size <= grant.budget /\ grant.budget \in Nat
        BY <3>1 DEF Fitting, SizeShape, Modest, IInv, ClientShape, Grant
      <4>2. cache \in [Bucket -> Frame \cup {None}]
        BY DEF IInv, CacheShape
      <4> HIDE DEF b, frame
      <4> QED BY <3>1, <3>2, <4>1, <4>2, PutKeeps DEF BudgetShape
    <3>4. CASE b = pointer
      <4>1. Within(recency, pointer, 0)'
        BY <1>2, <3>3, <3>4
      <4>2. Looking' + Coming' <= 3
        <5> DEFINE then == Coming'
                   after == Looking'
        <5>1. then \in 0..1 /\ after \in 0..1
          BY <1>2, <2>2
        <5>2. after + then <= 3
          <6> HIDE DEF then, after
          <6> QED BY <5>1
        <5> QED BY <5>2
      <4> QED BY <4>1, <4>2, UsedIsKept
    <3>5. CASE Kept(pointer) /\ b # pointer
      <4>1. PICK k \in 0..3 : k + Coming + Looking <= 3 /\ Within(recency, pointer, k)
        BY <3>5 DEF Kept
      <4> DEFINE now == Coming
                 then == Coming'
                 look == Looking
                 after == Looking'
      <4>2. /\ now = then + 1 /\ then \in 0..1 /\ look \in 0..1
            /\ after = look /\ k + now + look <= 3
        BY <1>2, <2>2, <4>1
      <4>3. k \in 0..2 /\ k + 1 \in 0..3 /\ (k + 1) + then + after <= 3
        <5> HIDE DEF now, then, look, after
        <5> QED BY <4>2
      <4>4. Within(recency', pointer', k + 1)
        BY <1>2, <3>3, <4>1, <4>3
      <4> QED BY <4>3, <4>4 DEF Kept
    <3>6. CASE InHand(pointer) /\ ~Asked(pointer)
      BY <3>4, <3>6 DEF InHand, Answers
    <3> QED BY <1>3, <2>3, <3>4, <3>5, <3>6 DEF InHand
  <2>5. CASE ~(Current /\ worker.frame)
    <3>1. recency' = recency
      BY <1>6, <2>5 DEF StoreFrame, store
    <3>2. CASE Kept(pointer)
      <4>1. PICK k \in 0..3 : k + Coming + Looking <= 3 /\ Within(recency, pointer, k)
        BY <3>2 DEF Kept
      <4> DEFINE now == Coming
                 then == Coming'
                 look == Looking
                 after == Looking'
      <4>2. /\ now = then + 1 /\ then \in 0..1 /\ look \in 0..1
            /\ after = look /\ k + now + look <= 3
        BY <1>2, <2>2, <4>1
      <4>3. k + then + after <= 3
        <5> HIDE DEF now, then, look, after
        <5> QED BY <4>2
      <4> QED BY <1>2, <3>1, <4>1, <4>3 DEF Kept
    <3>3. CASE InHand(pointer) /\ ~Asked(pointer)
      <4>1. Answers(pointer) /\ ~worker.frame
        BY <2>5, <3>3 DEF InHand, Answers
      <4>2. givenUp'
        BY <2>1, <3>3, <4>1
      <4> QED BY <4>2 DEF Resting
    <3> QED BY <1>3, <2>3, <3>2, <3>3 DEF InHand
  <2> QED BY <2>4, <2>5
<1>7. CASE Exit
  BY <1>2, <1>7 DEF Exit, Resting, Running
<1> QED BY <1>4, <1>5, <1>6, <1>7 DEF Worker

\* What the property says of a state, from what is counted.
LEMMA RestShapeIsEnough ==
  ASSUME BudgetShape, RestShape
  PROVE  RestingIsAsked
<1> SUFFICES ASSUME Resting PROVE pointer \in Cached \/ InFlight(pointer)
  BY DEF RestingIsAsked, Resting
<1>1. CASE Kept(pointer)
  BY <1>1, KeptIsCached
<1>2. CASE InHand(pointer)
  BY <1>2 DEF InHand, InFlight, Holding
<1> QED BY <1>1, <1>2 DEF RestShape

\* Whatever is prefetched, decoded or evicted meanwhile, a pointer at rest has
\* its frame, or its question is on the way, or nothing can come of it: it
\* need not ask twice (VideoModeStep).
THEOREM RestingPointerIsAsked == Spec => []RestingIsAsked
<1> DEFINE Inv == IInv /\ SizeShape /\ BudgetShape
<1>1. Init => RestShape
  BY DEF Init, RestShape, Resting, Running
<1>2. Inv /\ RestShape /\ [Next]_vars => RestShape'
  <2> SUFFICES ASSUME Inv, RestShape, [Next]_vars PROVE RestShape'
    OBVIOUS
  <2>1. CASE Timeline
    BY <2>1, TimelineRests
  <2>2. CASE Worker
    BY <2>2, WorkerRests
  <2>3. CASE UNCHANGED vars
    BY <2>3 DEF vars, RestShape, Resting, Running, HasLength, Kept, Coming, Looking, Within,
       InHand, Asked, Answers, Current
  <2> QED BY <2>1, <2>2, <2>3 DEF Next
<1>3. Inv /\ RestShape => RestingIsAsked
  BY RestShapeIsEnough
<1>4. Spec => []Inv
  BY Invariance, StoreInvariance, PTL
<1> HIDE DEF Inv
<1> QED BY <1>1, <1>2, <1>3, <1>4, PTL DEF Spec
-----------------------------------------------------------------------------
(* The types, of the variables the invariants above leave out as well.     *)

TypeShape ==
  /\ shown \in Bucket \cup {None}
  /\ awake \in BOOLEAN /\ moves \in Nat /\ available \in BOOLEAN
  /\ phase \in {"idle", "running", "stopping", "stopped"}
  /\ givenUp \in BOOLEAN
  /\ verdict \in {"none", "ok", "refused"}

LEMMA TypeStep ==
  ASSUME IInv, TypeShape, Next
  PROVE  TypeShape'
<1>1. CASE \E f \in Film : VideoModeEnter(f)
  BY <1>1 DEF VideoModeEnter, PreviewClose, engine, TypeShape
<1>2. CASE VideoModePump
  BY <1>2 DEF VideoModePump, PreviewOpen, TypeShape
<1>3. CASE VideoModeLeave \/ LeaveTimeline
  BY <1>3 DEF VideoModeLeave, LeaveTimeline, engine, TypeShape
<1>4. CASE \E b \in Stops : UpdatePreview(b)
  <2>1. grant.allowed \in BOOLEAN
    BY PreviewAssumption DEF IInv, ClientShape, Grant
  <2> QED BY <1>4, <2>1 DEF UpdatePreview, TypeShape
<1>5. CASE LookAround \/ AskAround
  BY <1>5 DEF LookAround, AskAround, TypeShape
<1>6. CASE PaintPreviewCard
  <2>1. pointer # None => PreviewBest(pointer) \in Bucket \cup {None}
    BY BestIsCached DEF IInv, ClientShape, Cached
  <2> QED BY <1>6, <2>1 DEF PaintPreviewCard, TypeShape
<1>7. CASE Publish \/ BeginStop \/ FinishStop
  BY <1>7 DEF Publish, BeginStop, FinishStop, timeline, TypeShape
<1>8. CASE Take \/ ReadPolicy \/ Settle \/ DecodeFrame \/ Notify \/ Exit
  BY <1>8 DEF Take, ReadPolicy, Settle, DecodeFrame, Notify, Exit, window, TypeShape
<1>9. CASE StoreFrame
  <2>1. worker.ok \in BOOLEAN
    BY DEF IInv, WorkerShape, Thread
  <2>2. /\ UNCHANGED <<shown, awake, moves, phase>> /\ available' = worker.ok
        /\ verdict' = IF Current THEN IF worker.ok THEN "ok" ELSE "refused" ELSE verdict
    BY <1>9 DEF StoreFrame, Judged, window
  <2>3. givenUp' \in BOOLEAN
    BY <1>9 DEF StoreFrame, Judged
  <2> QED BY <2>1, <2>2, <2>3 DEF TypeShape
<1> QED BY <1>1, <1>2, <1>3, <1>4, <1>5, <1>6, <1>7, <1>8, <1>9 DEF Next, Timeline, Worker

\* Every variable stays within its type.
THEOREM TypesHold == Spec => []TypeOK
<1>1. Init => TypeShape
  <2> SUFFICES ASSUME Init PROVE TypeShape
    OBVIOUS
  <2>1. shown = None /\ awake = FALSE /\ moves = 0 /\ available = TRUE /\ phase = "idle"
        /\ givenUp = FALSE /\ verdict = "none"
    BY DEF Init
  <2> QED BY <2>1 DEF TypeShape
<1>2. IInv /\ TypeShape /\ [Next]_vars => TypeShape'
  BY TypeStep DEF vars, TypeShape
<1>3. IInv /\ TypeShape => TypeOK
  BY DEF TypeOK, TypeShape, IInv, ClientShape, MediaShape, RequestShape, WorkerShape, Thread,
     Holding, CacheShape
<1> QED BY <1>1, <1>2, <1>3, Invariance, PTL DEF Spec
=============================================================================
