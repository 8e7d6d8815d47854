---------------------------- MODULE PreviewEngine ----------------------------
(***************************************************************************)
(* The seek preview engine (src/src/preview.cpp) and the timeline that     *)
(* asks it (src/src/videomode.cpp): one worker with a decoder of its own,  *)
(* one pending request that the next one replaces, and a cache of frames   *)
(* per bucket of the timeline, bounded by bytes.                           *)
(*                                                                         *)
(* A critical section is one action; the worker's sleep, its decode and    *)
(* its message happen between them.  The window thread is a single thread: *)
(* its calls interleave with the worker only, also between the two calls   *)
(* of the prefetch.                                                        *)
(*                                                                         *)
(* Data: a bucket is its number on the timeline, a frame the film it was   *)
(* decoded from and its size.  `used` is kept as the order of last uses.   *)
(* Opening and closing the decoder, and the two output rungs it tries, are *)
(* inside DecodeFrame: what comes of them is ok and perhaps a frame.       *)
(***************************************************************************)
EXTENDS Integers, Sequences, FiniteSets, FiniteSetsExt

CONSTANTS
  Film, None,
  LastBucket,     \* the timeline has buckets 0..LastBucket   (code: about 200)
  Grants,         \* what the governor may publish: [allowed, scale, settle, budget]
  First,          \* bound: the film shown before any is opened
  Stops,          \* bound: the buckets the pointer stops at
  MaxCalls        \* bound: moves of the pointer, openings and closings of a film

Bucket == 0..LastBucket
Grant == [allowed : BOOLEAN, settle : BOOLEAN,
          scale : Nat \ {0},     \* size of the frames asked for, in units
          budget : Nat]          \* what the cache may hold, in the same units
Frame == [film : Film, size : Nat \ {0}]
Request == [bucket : Bucket, film : Film, size : Nat \ {0}, media : Nat]

\* The code gives the cache 4 MiB or more and a still takes at most 0.8 MB:
\* four always fit, the one under the pointer and three that may be stored
\* before it is used again (one decoding, one pending, one prefetched).
ASSUME PreviewAssumption ==
  /\ LastBucket \in Nat \ {0} /\ None \notin Film \cup Bucket \cup Frame \cup Request
  /\ Grants \subseteq Grant /\ Grants # {}
  /\ \A g, h \in Grants : 4 * g.scale <= h.budget
  /\ First \in Film /\ Stops \subseteq Bucket /\ MaxCalls \in Nat

VARIABLES
  surface,     \* surfacePath: the film on screen
  previewOpen, \* the engine has been opened for it, so its length is known
  pointer,     \* the bucket previewTime falls in, None when not wanted
  shown,       \* previewFrame as last painted: the bucket it is of, or None
  awake,       \* a frame of the window is due
  drawing,     \* within a frame: what it does next, "none" between two
  mediaPath, generation, pending, cache, recency, cacheBytes, available,
  grant,       \* the policy atomics and cacheBudget
  worker,      \* the thread: where it is and what it holds
  phase,       \* "idle" before the first PreviewOpen, then running and stopping
  moves,       \* bound
  givenUp,     \* history: the pointer's question was refused or came to nothing
  verdict      \* history: what the film's own last decode said of the source

timeline == <<surface, previewOpen, pointer, shown, drawing, moves, givenUp>>
store == <<cache, recency, cacheBytes>>
media == <<mediaPath, generation>>
vars == <<surface, previewOpen, pointer, shown, awake, drawing, mediaPath,
          generation, pending, cache, recency, cacheBytes, available, grant,
          worker, phase, moves, givenUp, verdict>>

Idle == [pc |-> "wait", request |-> None, ok |-> FALSE, frame |-> FALSE]

Cached == {b \in Bucket : cache[b] # None}
NoFrames == [b \in Bucket |-> None]
Running == phase = "running"
UiRuns == phase \in {"idle", "running"}

Init ==
  /\ surface = None /\ previewOpen = FALSE /\ pointer = None /\ shown = None
  /\ awake = FALSE /\ drawing = "none" /\ moves = 0
  /\ mediaPath = None /\ generation = 0 /\ pending = None
  /\ cache = NoFrames /\ recency = <<>> /\ cacheBytes = 0
  /\ available = TRUE /\ grant \in Grants
  /\ worker = Idle /\ phase = "idle"
  /\ givenUp = FALSE /\ verdict = "none"
-----------------------------------------------------------------------------
(* The session cache.                                                      *)

Touched(order, b) ==
  LET places == {i \in 1..Len(order) : order[i] = b}
  IN  IF places = {} THEN Append(order, b)
      ELSE LET i == Min(places)
           IN  Append(SubSeq(order, 1, i - 1) \o SubSeq(order, i + 1, Len(order)), b)
BytesOf(frames, buckets) == MapThenSumSet(LAMBDA b : frames[b].size, buckets)
Oldest(order, n) == {order[i] : i \in 1..n}

\* How many frames go, oldest first, until the rest fits or one is left.
Excess(frames, order, bytes, budget) ==
  Min({n \in 0..Len(order) :
         \/ bytes - BytesOf(frames, Oldest(order, n)) <= budget
         \/ Len(order) - n <= 1})

CacheTrim(frames, order, bytes, budget) ==
  LET n == Excess(frames, order, bytes, budget)
      gone == Oldest(order, n)
  IN  /\ cache' = [b \in Bucket |-> IF b \in gone THEN None ELSE frames[b]]
      /\ recency' = SubSeq(order, n + 1, Len(order))
      /\ cacheBytes' = bytes - BytesOf(frames, gone)

\* Mutant: the frame a bucket already had stays in the count.
CachePutTwice(b, frame) ==
  CacheTrim([cache EXCEPT ![b] = frame], Touched(recency, b),
            cacheBytes + frame.size, grant.budget)

CachePut(b, frame) ==
  LET before == IF cache[b] = None THEN 0 ELSE cache[b].size
  IN  CacheTrim([cache EXCEPT ![b] = frame], Touched(recency, b),
                cacheBytes - before + frame.size, grant.budget)

CacheClear == cache' = NoFrames /\ recency' = <<>> /\ cacheBytes' = 0
Use(b) == recency' = Touched(recency, b) /\ UNCHANGED <<cache, cacheBytes>>
-----------------------------------------------------------------------------
(* The engine's calls, made by the window thread.                          *)

PreviewOpen(f) ==
  /\ mediaPath' = f /\ generation' = generation + 1
  /\ pending' = None /\ available' = TRUE
  /\ IF mediaPath = f THEN UNCHANGED store ELSE CacheClear
  /\ phase' = "running"
  /\ verdict' = "none"

\* Mutant: the question outlives the film it was about.
PreviewCloseStillAsking ==
  /\ mediaPath' = None /\ generation' = generation + 1
  /\ UNCHANGED pending /\ CacheClear
  /\ verdict' = "none"
  /\ UNCHANGED <<available, phase>>
PreviewClose ==
  /\ mediaPath' = None /\ generation' = generation + 1
  /\ pending' = None /\ CacheClear
  /\ verdict' = "none"
  /\ UNCHANGED <<available, phase>>

\* There is a path whenever the timeline asks: it has a length only once the
\* engine has been opened.  What the policy forbids is neither asked nor used.
PreviewRequest(b) ==
  \/ /\ ~grant.allowed
     /\ UNCHANGED <<pending, store>>
  \/ /\ grant.allowed /\ b \in Cached
     /\ Use(b) /\ UNCHANGED pending
  \/ /\ grant.allowed /\ b \notin Cached
     /\ pending' = [bucket |-> b, film |-> mediaPath, size |-> grant.scale,
                    media |-> generation]
     /\ UNCHANGED store

\* A frame within two buckets is close enough to draw until the exact one.
Neighbours(b) == {c \in Cached : c \in (b - 2)..(b + 2)}
Nearest(b) == {c \in Neighbours(b) :
                 \A d \in Neighbours(b) : (c - b) * (c - b) <= (d - b) * (d - b)}
PreviewBest(b) ==
  IF Neighbours(b) = {} THEN None
  ELSE Min(Nearest(b))
UseExact(b) == IF b \in Cached THEN Use(b) ELSE UNCHANGED store
-----------------------------------------------------------------------------
(* The window thread: the timeline of the film on screen.                  *)

UiIdle == UiRuns /\ drawing = "none"
engine == <<media, pending, store, available, phase, verdict>>

\* A film is shown: the one before it is closed if its timeline was opened.
VideoModeEnter(f) ==
  /\ UiIdle /\ moves + generation < MaxCalls /\ (generation = 0 => f = First)
  /\ surface' = f /\ previewOpen' = FALSE /\ pointer' = None /\ shown' = None
  /\ givenUp' = FALSE
  /\ IF previewOpen THEN PreviewClose ELSE UNCHANGED engine
  /\ UNCHANGED <<awake, drawing, moves, grant, worker>>

\* The playback engine has told the film's length.
VideoModePump ==
  /\ UiIdle /\ moves + generation < MaxCalls
  /\ surface # None /\ ~previewOpen
  /\ previewOpen' = TRUE /\ PreviewOpen(surface)
  /\ UNCHANGED <<surface, pointer, shown, awake, drawing, moves, givenUp, grant,
                 worker>>

VideoModeLeave ==
  /\ UiIdle /\ surface # None
  /\ surface' = None
  /\ UNCHANGED <<previewOpen, pointer, shown, awake, drawing, moves, givenUp,
                 engine, grant, worker>>

HasLength == surface # None /\ previewOpen

UpdatePreview(b) ==
  /\ UiIdle /\ HasLength /\ moves + generation < MaxCalls
  /\ pointer' = b /\ PreviewRequest(b) /\ awake' = TRUE /\ moves' = moves + 1
  /\ givenUp' = ~grant.allowed
  /\ UNCHANGED <<surface, previewOpen, shown, drawing, media, available,
                 grant, worker, phase, verdict>>

\* The pointer leaves the track, or the transport is dismissed.
LeaveTimeline ==
  /\ UiIdle /\ pointer # None /\ pointer' = None /\ shown' = None /\ givenUp' = FALSE
  /\ UNCHANGED <<surface, previewOpen, awake, drawing, moves, engine, grant,
                 worker>>

(* One frame of the window: VideoModeStep, then PaintPreviewCard.  When the
   decoder is idle and the frame under the pointer is exact, the bucket ahead
   is prefetched, or else the one behind. *)

Decoding == worker.pc = "decode"
FrameDue == UiIdle /\ (awake \/ pointer # None)
\* Mutant: a neighbour's frame counts as the answer.
LookAroundNear ==
  /\ FrameDue /\ awake' = FALSE
  /\ IF HasLength /\ pointer # None /\ ~Decoding
     THEN /\ UseExact(pointer)
          /\ drawing' = IF PreviewBest(pointer) # None THEN "ask" ELSE "paint"
     ELSE UNCHANGED store /\ drawing' = "paint"
  /\ UNCHANGED <<surface, previewOpen, pointer, shown, moves, media, pending,
                 available, grant, worker, phase, givenUp, verdict>>
LookAround ==
  /\ FrameDue /\ awake' = FALSE
  /\ IF HasLength /\ pointer # None /\ ~Decoding
     THEN /\ UseExact(pointer)
          /\ drawing' = IF PreviewBest(pointer) = pointer THEN "ask" ELSE "paint"
     ELSE UNCHANGED store /\ drawing' = "paint"
  /\ UNCHANGED <<surface, previewOpen, pointer, shown, moves, media, pending,
                 available, grant, worker, phase, givenUp, verdict>>

\* Mutant: the bucket ahead is asked for at the end of the film as well.
AskAroundPastEnd ==
  /\ drawing = "ask" /\ drawing' = "paint"
  /\ PreviewRequest(pointer + 1)
  /\ UNCHANGED <<surface, previewOpen, pointer, shown, awake, moves, media,
                 available, grant, worker, phase, givenUp, verdict>>
AskAround ==
  /\ drawing = "ask" /\ drawing' = "paint"
  /\ \/ pointer < LastBucket /\ PreviewRequest(pointer + 1)
     \/ pointer = LastBucket /\ PreviewRequest(pointer - 1)
  /\ UNCHANGED <<surface, previewOpen, pointer, shown, awake, moves, media,
                 available, grant, worker, phase, givenUp, verdict>>

PaintPreviewCard ==
  /\ drawing = "paint" /\ drawing' = "none"
  /\ IF pointer = None THEN UNCHANGED <<shown, store>>
     ELSE shown' = PreviewBest(pointer) /\ UseExact(pointer)
  /\ UNCHANGED <<surface, previewOpen, pointer, awake, moves, media, pending,
                 available, grant, worker, phase, givenUp, verdict>>

\* QualityPoll publishes a new policy and a new budget.
Publish ==
  /\ UiIdle /\ \E g \in Grants \ {grant} :
       grant' = g /\ CacheTrim(cache, recency, cacheBytes, g.budget)
  /\ UNCHANGED <<timeline, awake, media, pending, available, worker, phase,
                 verdict>>

BeginStop ==
  /\ UiIdle /\ Running /\ phase' = "stopping" /\ pending' = None
  /\ UNCHANGED <<timeline, awake, media, store, available, grant, worker, verdict>>
FinishStop ==
  /\ phase = "stopping" /\ worker.pc = "exited"
  /\ phase' = "stopped" /\ CacheClear
  /\ UNCHANGED <<timeline, awake, media, pending, available, grant, worker,
                 verdict>>

Timeline ==
  \/ \E f \in Film : VideoModeEnter(f)
  \/ VideoModePump \/ VideoModeLeave
  \/ \E b \in Stops : UpdatePreview(b)
  \/ LeaveTimeline \/ LookAround \/ AskAround \/ PaintPreviewCard
  \/ Publish \/ BeginStop \/ FinishStop
-----------------------------------------------------------------------------
(* The worker.                                                             *)

window == <<surface, previewOpen, pointer, shown, drawing, moves, media, grant,
            phase>>

Take ==
  /\ worker.pc = "wait" /\ Running /\ pending # None
  /\ worker' = [Idle EXCEPT !.pc = "policy", !.request = pending]
  /\ pending' = None
  /\ UNCHANGED <<window, awake, store, available, givenUp, verdict>>

\* The policy is read once, before the pause it asks for: without one there is
\* no second look at what is asked.
ReadPolicy ==
  /\ worker.pc = "policy"
  /\ worker' = [worker EXCEPT !.pc = IF grant.settle THEN "settle" ELSE "decode"]
  /\ UNCHANGED <<window, awake, pending, store, available, givenUp, verdict>>

\* After the pause a newer request is taken instead.
Settle ==
  /\ worker.pc = "settle"
  /\ worker' = IF pending # None THEN Idle ELSE [worker EXCEPT !.pc = "decode"]
  /\ UNCHANGED <<window, awake, pending, store, available, givenUp, verdict>>

\* EnsureDecoder and Decode, with the mutex released.
DecodeFrame ==
  /\ worker.pc = "decode"
  /\ \E ok, frame \in BOOLEAN :
       /\ frame => ok
       /\ worker' = [worker EXCEPT !.pc = "store", !.ok = ok, !.frame = frame]
  /\ UNCHANGED <<window, awake, pending, store, available, givenUp, verdict>>

Current == worker.request.media = generation
FrameOf(request) == [film |-> request.film, size |-> request.size]

Holding == {"policy", "settle", "decode", "store"}
Answers(b) == worker.request.bucket = b /\ Current
Asked(b) == pending # None /\ pending.bucket = b
Judged ==
  /\ givenUp' = (givenUp \/ (~worker.frame /\ Answers(pointer) /\ ~Asked(pointer)))
  /\ verdict' = IF Current THEN IF worker.ok THEN "ok" ELSE "refused" ELSE verdict
  /\ worker' = IF worker.frame THEN [Idle EXCEPT !.pc = "notify"] ELSE Idle
  /\ UNCHANGED <<window, awake, pending>>

\* Mutant: the frame is kept without asking which film it belongs to.
StoreFrameOfAny ==
  /\ worker.pc = "store" /\ Judged
  /\ available' = worker.ok
  /\ IF worker.frame
     THEN CachePut(worker.request.bucket, FrameOf(worker.request))
     ELSE UNCHANGED store
\* The source is judged by whatever was decoded last; a frame of a film that
\* has been left is dropped, though the window is still told of it.
StoreFrame ==
  /\ worker.pc = "store" /\ Judged
  /\ available' = worker.ok
  /\ IF Current /\ worker.frame
     THEN CachePut(worker.request.bucket, FrameOf(worker.request))
     ELSE UNCHANGED store

\* Mutant: the window is not told.
NotifySilently ==
  /\ worker.pc = "notify" /\ worker' = Idle
  /\ UNCHANGED <<window, awake, pending, store, available, givenUp, verdict>>
Notify ==
  /\ worker.pc = "notify" /\ worker' = Idle /\ awake' = TRUE
  /\ UNCHANGED <<window, pending, store, available, givenUp, verdict>>

Exit ==
  /\ worker.pc = "wait" /\ phase = "stopping"
  /\ worker' = [Idle EXCEPT !.pc = "exited"]
  /\ UNCHANGED <<window, awake, pending, store, available, givenUp, verdict>>

Worker == Take \/ ReadPolicy \/ Settle \/ DecodeFrame \/ StoreFrame \/ Notify \/ Exit

Next == Timeline \/ Worker
Spec == Init /\ [][Next]_vars

\* The worker is a thread of its own and its decode ends (WaitFor has a time
\* limit); the window draws a frame that is due, to its end.
FairSpec == /\ Spec /\ WF_vars(Worker)
            /\ WF_vars(awake /\ LookAround) /\ WF_vars(AskAround \/ PaintPreviewCard)
-----------------------------------------------------------------------------
(* Properties.                                                             *)

TypeOK ==
  /\ surface \in Film \cup {None} /\ previewOpen \in BOOLEAN
  /\ pointer \in Bucket \cup {None}
  /\ shown \in Bucket \cup {None}
  /\ awake \in BOOLEAN /\ drawing \in {"none", "ask", "paint"} /\ moves \in Nat
  /\ mediaPath \in Film \cup {None} /\ generation \in Nat
  /\ pending \in Request \cup {None}
  /\ cache \in [Bucket -> Frame \cup {None}]
  /\ available \in BOOLEAN /\ grant \in Grants
  /\ worker.pc \in Holding \cup {"wait", "notify", "exited"}
  /\ worker.pc \in Holding => worker.request \in Request
  /\ worker.ok \in BOOLEAN /\ worker.frame \in BOOLEAN
  /\ phase \in {"idle", "running", "stopping", "stopped"}
  /\ givenUp \in BOOLEAN
  /\ verdict \in {"none", "ok", "refused"}

\* A frame decoded for one film is never in the cache of another, whenever the
\* film changed during its decode (preview.cpp: "dropped here", the generation
\* compared under the lock).
CachedIsOfFilm == \A b \in Cached : cache[b].film = mediaPath

\* The count of bytes is what the frames take, and more than the budget is
\* held by a single frame only: CachePut may replace a frame of another size,
\* and a smaller budget may arrive at any time (cacheBytes, CacheTrimLocked).
BudgetKept ==
  /\ {recency[i] : i \in 1..Len(recency)} = Cached
  /\ Len(recency) = Cardinality(Cached)
  /\ cacheBytes = BytesOf(cache, Cached)
  /\ cacheBytes <= grant.budget \/ Cardinality(Cached) <= 1

\* The bucket under the pointer is in the cache, or being asked for, or has
\* been given up: neither the prefetch nor an eviction ever takes its place,
\* so that a pointer at rest need not ask twice (UpdatePreview, VideoModeStep).
\* A question the policy refuses does not even mark the cached frame as used
\* (PreviewRequest returns first), and that frame may then be evicted.
InFlight(b) ==
  \/ Asked(b)
  \/ /\ worker.pc \in Holding /\ Answers(b)
     /\ worker.pc \in {"policy", "settle"} => pending = None
RestingIsAsked ==
  Running /\ HasLength /\ pointer # None =>
    pointer \in Cached \/ InFlight(pointer) \/ givenUp

\* Once the film's own decode has judged its source, a late decode for a film
\* shown before cannot overturn it (PreviewAvailable).  Before that it does stand
\* for the new film.  Proved in PreviewProofs; the run's bounds are too small for
\* a late decode and a question about the next film.
OwnVerdictStands == verdict # "none" => available = (verdict = "ok")

\* A pointer that rests where the policy allowed the question sees the exact
\* frame painted, unless the decoder gives none (preview.h: "sharpens in place").
Unanswered == Running /\ surface # None /\ pointer # None /\ shown # pointer /\ ~givenUp
RestIsAnswered == []<>~Unanswered

\* The buckets asked about and not yet answered, of the film that is open.
Outstanding ==
  {b \in Bucket :
     Asked(b) \/ (worker.pc \in Holding /\ Answers(b))}

\* The engine keeps the timeline's promise.
Stills == INSTANCE FilmStills WITH
  Position <- Bucket, film <- mediaPath, asked <- Outstanding,
  stills <- {<<cache[b].film, b>> : b \in Cached}
KeepsPromise == Stills!Spec
=============================================================================
