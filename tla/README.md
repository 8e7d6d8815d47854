# VetroLook: specifications, model checks and proofs

VetroLook is a Windows image and video viewer: one window thread, a handful of
worker threads, a thumbnail cache, an index of the whole drive, and a playback
engine it drives from outside. This directory specifies the parts whose
correctness depends on what those threads do to each other, checks them with
TLC and proves the most important invariants with TLAPS. The source is under
`src/src/`; every definition that stands for code has an entry in
`PROJECT.json` under "map" with the file and the lines it models.

Contents

1. The system
2. The modules, and how they correspond to the code
3. The runs: what each asks, its bounds, what it shows
4. Fairness
5. The proofs
6. What the runs found
7. What is only model-checked, and what is not modelled
8. Plan

## 1. The system

### Components, their state and their operations

| Component | State | Operations | Who talks to it |
|---|---|---|---|
| Thumbnail cache, `thumbs.cpp` | map path -> entry (state, tile, attempts, retry time, stamp, times of use), LIFO queue of paths, stop flag; one mutex | ThumbStart, ThumbRequest, ThumbPrioritize, ThumbLookup, ThumbTrim, ThumbStop; the worker threads' `Run` | window thread (filmstrip), smart gallery's worker; posts a repaint |
| Filmstrip, `main.cpp` PaintGallery, GridBitmap | `thumbBitmaps`: GPU tiles made once per path; siblings, the selected one | paint, open a folder, release the tiles | the cache, once per tile and frame |
| Library index, `index.cpp` | the store (folders by identity, photographs by folder, identities by path, a count), work queues and flags, per-folder state, a cache file | IndexStart, IndexStop, IndexTouchFolder, IndexRescan, IndexDrivesChanged, IndexSetPaused; ScannerLoop, the priority thread, RunWatcher | window thread, governor (pause), the file system's change records |
| NTFS journal, `usn.cpp` | position in the volume's journal | full enumeration, catch-up | the index's scanner, with elevation only |
| Media modes, `modes.cpp` | state, generation | Open, Ready, Failed, Close | window thread |
| Video mode, `videomode.cpp` | the film's generation, one worker with a pending, a running and a finished request, the engine's handle | VideoModeEnter, Leave, Collect, the worker | window thread; engine |
| Decode worker, `main.cpp` Worker and Loaded | newest request and its number, results posted as messages, a frame cache with tiers | Open, RequestFullResolution, Worker, Loaded | window thread |
| Resource governor, `governor.cpp`, QualityPoll | tier, published policy, three remembered instants | Observe, Current, Reset | the window thread's poll; every component that does secondary work reads the policy |
| Seek preview engine, `preview.cpp`, and its timeline in `videomode.cpp` | the film and its generation, one pending request, an LRU of frames with a byte budget, whether the source can be decoded, the policy | PreviewOpen, PreviewClose, PreviewRequest, PreviewBest, PreviewSetPolicy, PreviewStop; the worker; UpdatePreview, the prefetch of VideoModeStep, PaintPreviewCard | window thread; governor (policy); wakes the window when a frame has come |
| Address resolver, `resolver.cpp` | one external process, its answer | start, cancel, collect | viewer (streams) |
| Streaming, `streaming.cpp` | reconnect attempts and delays | pure decisions | video session |
| Favourites, `favourites.cpp` | one vector of entries, three indexes over it (identity, path, folder), a dirty flag, a file written beside itself and swapped | FavouriteGet, FavouriteSet, FavouritesFlush, the load from store or registry | library screens and the viewer; the files are changed by other programs |
| Media state, `mediastate.cpp` | resume positions, dirty flag, a file | remember, recall, debounced save | video session |
| Metadata and cache, `meta*.cpp` | cache by path and stamp | look up, store | information panel, smart gallery |
| Smart gallery, `smartgallery.cpp` | records with a decision and the user's choice, a queue and the set of what is in it, the first review's list and what is still to be judged, a pause flag, a file | SmartStart, SmartStop, SmartRequest, SmartSyncLibrary, SmartSetOverride, SmartPause, SmartApplyReviewed; the worker | album worker, inventory worker, window thread, governor (pause); asks the thumbnail cache for tiles |
| Transcripts and speech, `ai.cpp`, `transcript.cpp` | covered spans, worker, external process | plan, run, store | video session |
| Pacing and capability, `pacing.cpp`, `capability.cpp` | none | pure decisions | video session |
| File browser and actions, `browser.cpp`, `actions.cpp` | listings with generations | navigate, shell verbs | window thread |
| Shell integration, rendering, decoders, vendored libraries | registry, GPU resources, none | calls into the system | everyone |

### How they interact

* The window thread handles one message at a time. Workers never touch its
  state: they post `Loaded`, `ThumbReady`, `VideoReady` and it decides whether
  the news is still wanted, by comparing a request number (`latest`) or a
  generation (`mediaMode.generation`, the video session's own).
* The thumbnail cache and the index are shared state behind mutexes, released
  around every slow operation: decoding a file, listing a folder. What was read
  before and is stored after is where they can go wrong.
* The index hears of the file system twice: by looking, and by records the
  watcher is handed later, which the system may drop.
* The governor reads the machine and publishes a policy; among other things it
  pauses the scanner, so that a stop of the index must not wait on the pause.

### What is hard here, and what makes each component correct

| Component | Hard behaviour | What makes it correct |
|---|---|---|
| Thumbnail cache | requests, trims and writes to the file during a decode; the queue's and the map's limits; retries; stop while threads are busy | queue and entries agree; a file is decoded once at a time; a stamp never vouches for an older tile; memory is bounded; the failures of a file remembered add up to a last one; ThumbStop returns |
| Filmstrip | a repaint posted while a frame is being painted | no decoded tile is left unpainted; a re-read tile replaces the old one |
| Library index | two threads list the same folder; a folder moves or goes between look and store; one folder under two spellings; changes lost; death of the process while saving; pause during stop | photographs kept belong to a listed folder; a reported change is never forgotten; the count follows the photographs; a touched folder is served; IndexStop returns |
| Media modes, Video mode, decode worker | answers that arrive for a file no longer wanted; files whose names lie; departures made by several callers | what is shown is what is named; the film in the engine is the mode's; every opening settles; a misnamed file is corrected |
| Governor | three remembered instants reset in different branches; a ceiling that ignores all delays | tiers do not flap; what is given up is ordered; calm gives all back; lasting pressure sheds all |
| Seek preview | the film changes, the pointer moves and the policy changes during a decode; one slot for requests, shared by the pointer and the prefetch | a frame is only ever of the film open; the bytes are bounded and counted right; a late decode says nothing about the next film; a pointer at rest is served |
| Favourites | several indexes of one list, repaired by queries; files renamed, replaced and moved by others, also between two looks of one call; a save that fails | a heart follows its file; badges count what is there; what is unsaved is known to be |
| Smart gallery | a worker against corrections by the user, pauses, edits of the photograph, listings already old, saves by two threads | the user's word survives; nothing the review waits for is forgotten |
| Resolver, streaming, media state, metadata cache, transcripts | cancellation against completion, reconnects, debounce, coverage of spans | not modelled, see section 7 |

"hazards" in `PROJECT.json` lists these places, each with its line and the
properties that cover it, or the reason none does.

## 2. The modules, and how they correspond to the code

```
ThumbCache ---- ThumbStrip ---- ThumbCacheProofs

IndexStore ---- LibraryIndex ---- LibraryIndexProofs ---- SetSums

FilmStills <--implements-- PreviewEngine ---- PreviewProofs ---- SetSums

Governor ---- GovernorProofs          ModeMachine ---- Viewer ---- ViewerProofs

Favourites ---- FavouritesProofs      SmartGallery ---- SmartGalleryProofs
```

Each component has an MC module (`MCThumbCache`, `MCThumbStrip`,
`MCLibraryIndex`, `MCGovernor`, `MCViewer`, `MCPreviewEngine`,
`MCFavourites`, `MCSmartGallery`) that holds what only TLC needs:
symmetry, sample sets, restrictions of the initial states. `SetSums` holds no
code: it is the arithmetic of sums over finite sets that two of the proof
modules share.

In the modules an operator whose comment begins with "Mutant:" is a plausible
bug of the operator that follows it. No specification uses one; each is put in
place of its original to see that a property notices.

### ThumbCache (`thumbs.cpp`)

`entries`, `queue` and `phase` are the map, the deque and the stop flag; a
critical section under the mutex is one action. A worker's turn is cut where
the mutex is released: `Take` (pop the newest request), `StampFile` (read size
and write time), `LoadFile` (decode), `StoreResult`, `Announce` (post), `Evict`.
So requests, trims and writes to the file fall between any two of them.
A file is the number of its last write and a condition (readable, locked,
gone); a tile is the number of the write it shows; a stamp is the number of
the write it was taken after. Instants are kept as distances from now, capped
where the code can no longer tell them apart. The decoders behind `Load` are
one step with two outcomes. `BeginStop`, `Exit` and `FinishStop` are ThumbStop.
A wait on a condition variable is its predicate, since all state the predicate
reads changes under the mutex and every change is followed by a notify.

### ThumbStrip (`main.cpp`, PaintGallery, GridBitmap)

Extends the cache with its client: a frame is painted one call at a time
(`AskTile`, `DrawTile` for each sibling, `EndFrame` with its ThumbPrioritize),
because the mutex is free between the calls. `tile` is `thumbBitmaps`: made from
what the cache holds when there is none, never replaced. `OpenFolder` is the
arrival of a listing with its ThumbTrim, `ReleaseBitmaps` the loss of the GPU
tiles, and `SmartGalleryAsks` the other client of the cache.

### IndexStore and LibraryIndex (`index.cpp`)

`IndexStore` is what one mutex guards: four maps and `StoreFolder`,
`RemoveFolder`, `Clear`, `Saved`, `LoadCache` as single steps. `LibraryIndex`
adds the threads: the scanner (`ScannerLoad` ... `ScannerExit`, cut wherever a
listing is read outside the mutex), the priority thread, the watcher, the calls
of the window thread, IndexStop with its joins and its save, a restart after a
stop or a death at any moment, and the file system (`ChangePhotos`,
`MakeFolder`, `DeleteFolder`, `RenameFolder`) with the records it leaves or
drops. A folder's listing is a set of names. The priority
thread's wait is the one wait whose predicate reads a flag raised without the
mutex (`cacheReady`), so its test and its falling asleep are two steps
(`PriorityTest`, `PriorityPark`). One drive is modelled, its folders directly
beneath its root; the NTFS journal is closed without elevation.

An identity (StableId) is the number the file system gives, or, for a path where
there is nothing, the hash of the path, for which the path itself stands.
ScanOneFolder reads it once before the listing and, when photographs were found,
again after it: the second reading, the one that counts for a folder that is
stored with photographs, is a step of its own (`ScannerIdentify`,
`PriorityIdentify`), so that a folder may move or go between its listing and its
identity. The first reading is taken with the listing: it is used only
when the listing was empty. So is the test that a folder looked at again still exists.

RunWatcher cuts a path at its last separator to find the parent, which for
anything directly beneath the root `C:\` gives `C:`. This is a name of its own in
every map of the store (`Alias`, a member of `Spelling` beside the folders), and
to the file system, and to NormalisePath, it is the process's current folder on
that drive (`current`). But `C:\*`, which ScanOneFolder lists, is the root.
`SpelledByWatcher`, `Lists`, `StableId` and `NormalisePath` say which spelling
means what to whom. `StartedIn` are the folders the program may be started in; the
root among them also stands for the starts on another drive, where `C:` is the
root's. While the process runs its current folder can be neither moved nor deleted
(`Movable`).

`owed`, `muddled` and `used` are history: what the watcher's side of the system
has been told of and the scanner has not looked at; whether since the start a
rebuild has begun or photographs have been kept under the alias; and the counters
that bound a run.

### Governor (`governor.cpp`, QualityPoll)

`Observe` is the whole of Governor::Observe: score, the two spans, the choice
among falling, rising and neither, the ceiling of battery saving, the policy.
Remembered instants (`pressedSince_`, `restedSince_`, `changedAt_`) are kept as
the time since, capped at `Horizon`, which no comparison exceeds. A sample
carries the worst memory signal and the worst frame signal, the only things the
score takes from the many it is computed of. `sinceFall` is history. The order
of the tests is the code's: the ceiling comes last and asks for no delay.

### ModeMachine and Viewer (`modes.cpp`, `main.cpp`, `videomode.cpp`)

`ModeMachine` is the pure mode machine, operators on a record. `Viewer`
composes it with the window thread (`Open`, `Close`, `ViewerBack`, `GoToLibrary`,
`Preview`, `RequestFullResolution`, and the handlers `Loaded`, `ThumbReady`,
`VideoReady`), the decode worker (`Take`, `List`, `DecodeScreen`, `Decode`,
`Abandon`), Video Mode's worker (`VideoTake`, `VideoAnswer`) and the engine
(`EngineShows`, `EngineEnds`). A file is the kind its extension claims and what
its bytes are. Abstractions, each of which only adds behaviour or removes a
feature named in section 7:

* The frame cache is a choice: a look into it finds any tier the file can
  yield, or nothing. This contains every eviction policy and every prefetch.
* Album and library are one screen; `depth` is the stack Back pops.
* The viewer is the resident one, which Close hides and does not end; it is
  started in the background.
* Which file the end of a film goes on to is a choice among the other films.

### FilmStills and PreviewEngine (`preview.cpp`, timeline of `videomode.cpp`)

`FilmStills` is what the timeline is promised, without an engine: a film, the
positions asked about, the stills that may be drawn. An answer belongs to a
question still asked; questions may be withdrawn and stills forgotten; nothing
survives the film. `PreviewEngine` implements it, with `asked` the buckets whose
request is pending or in the worker's hands and still current, and `stills` the
cache.

The worker is cut where the mutex is released: `Take`, `ReadPolicy` (once, before
the wait it may ask for), `Settle` (the wait that a newer request ends),
`DecodeFrame`, `StoreFrame` (where the generation is compared), `Notify`, `Exit`.
The window thread's side is `VideoModeEnter`, `VideoModePump` (the engine is
opened once the film's length is known), `VideoModeLeave`, `UpdatePreview`,
`LeaveTimeline`, `PaintPreviewCard`. The prefetch of VideoModeStep takes the mutex
twice, to look which neighbour is missing and to ask for it, so it is `LookAround`
and `AskAround`. `Publish` is the governor's policy, which may forbid previews and
shrink the budget at any moment; `BeginStop` and `FinishStop` are PreviewStop with
its join.

`used` is kept as an order (`recency`), a frame as the film it was decoded from
and its size in units. Opening the decoder, its two output rungs and its teardown
when idle are inside `DecodeFrame`, whose outcomes are a frame, no frame, and a
source it cannot decode. The branch of PreviewOpen for the film already open is
translated and never taken, because VideoModeEnter closes first. `givenUp` and
`verdict` are history: that the pointer's question was refused or came to nothing,
and what the film's own last decode said. A question the policy forbids returns
before it looks into the cache (`preview.cpp:377`): it does not even mark a frame
that is there as used, so it counts as refused. The budget holds four of the
largest frames or more, since the code's smallest is 4 MiB and a still takes at
most 0.8 MB. `Stops` and `First` are bounds: where the pointer may rest and which
film comes first.

### Favourites (`favourites.cpp`)

Every call is one critical section, and the mutex keeps other calls out, but not
other programs from the files. So a call that looks at files once is one action:
`FavouriteGet` with the repair of the indexes it makes, `Unmark`, and
`FavouritesFlush`; and one that looks twice is two. FavouriteSet looks for the
path's entry with one reading of the file (`BeginMark`) and makes the new entry of
a second one (`Mark`); `marking` is the path in between. The load from the list an
older build kept in the registry looks at its names one by one (`LoadLocked`, with
`toRead` and `brought`). Each save may fail. `Restart` is the end of the process,
well or badly, and the next one's load, from the store or, when there is none,
from the registry. A file is its identity, its size and time together its look.
`Create`, `Delete`, `Rename` and `Write` are other programs and fall between any
two of these steps; within a volume that gives identities a renamed file keeps its
own.

One look is one reading: what ReadIdentity takes of a file that cannot be opened
from its attributes alone, without an identity, is left out. So are
hard links, two files whose identities collide in the hash, FavouritePaths
(which changes nothing), and a store that exists and cannot be read, which the
code takes for an empty one and the next FavouriteSet overwrites.

### SmartGallery (`smartgallery.cpp`)

A critical section of `mx` is one action. The worker's turn is `Load`,
`OpenModel`, then `Take`, `Look` (stamp and tile), `Seen` or `Unseen` (the
pixels, with the tile or after the wait for it), `PutBack` (a pause), `Judge`,
`Save` and `Write`. Requests come with the stamp their listing had: `RequestAlbum` with
any, `RequestInventory` with the library's, and `SmartSyncLibrary` asks in a
second critical section for the listing it has put down in the first. A save
copies the records under `mx` and writes under `saveMx`: `BeginSave` and
`EndSave`, by the worker or by the window thread (`SaveBefore`, `WriteBefore`).
`Edit` writes a photograph over and the library learns of it. `SmartStart` is a
new process after any end. `choice` is history: the last word of the user that
this process can know.

A decision is what it was made of: the stamp, the model's identity, whether a tile
was missing, and the choice in force. A photograph does not leave the library.
Left out: what applying a review means to the albums and its own file, the log of
corrections, the categories, the counters of the progress bar, and the flag that
discovery is complete, so that `ReviewReady` is a necessary condition and reviews
are applied in every state the code applies them in, and in some it does not.

## 3. The runs

### Passing

| Run | Question | Bounds |
|---|---|---|
| `thumb_cache` | do map, queue and threads stay consistent, do stamps vouch for tiles, is memory bounded, do the failures of a file remembered add up and end its retries, whoever asks for what? | 2 paths, 2 threads, queue of 1, cache of 1, slack 0, 2 attempts, 2 writes to a file; symmetric in paths and threads |
| `thumb_strip` | is every decoded tile painted, and does ThumbStop return? | 2 siblings, 1 thread, the same limits, 1 write |
| `library_index` | does the store stay consistent under two listing threads, is no reported change forgotten, is a touched folder served, does the count follow, does IndexStop return? | root, its alias and 2 folders, one of them in a development tree, the program started in one folder or elsewhere, 1 photograph, 4 numbers for identities, 1 change on disk, 1 call, 2 starts |
| `governor` | flapping, order of sacrifice, recovery, shedding | 10 machines, polls of 0.4 and 1.6 s, the code's own thresholds and delays |
| `viewer` | is what is shown what is named, is the film in the engine the mode's, does every opening settle, is a misnamed file corrected? | 5 files: a photograph, a film, one of each that lies, a photograph cut short; 3 calls of the user or ends of films |
| `preview` | is every frame of the film open, are the bytes bounded and counted, is a pointer at rest asked for and served, does the engine implement `FilmStills`? | 2 films, 5 buckets, the pointer stopping at 3 of them, 2 policies (leisure: frames of 2 units and a budget of 9; a hurry that forbids previews, with frames of 1 and a budget of 8), 4 calls: moves of the pointer, openings and closings of a film |
| `favourites` | does a heart follow its file, do badges and indexes agree, is what is unsaved known? | 2 files, 3 paths in 3 folders, 2 of them where there are identities, 2 looks, 2 names in the registry, 3 changes by others, 3 calls of FavouriteSet, 1 death |
| `smart_gallery` | does the user's word survive, is what the review waits for queued? | 1 photograph with 2 stamps, 1 model, 2 choices, 1 restart |

Why the bounds are enough for what is asked:

* The cache's limits are made smaller than the number of paths, so that the
  queue overflows, the cache evicts and the trim applies with two paths; two
  threads are what it takes to decode a file twice; two writes are what it
  takes for a tile to be older than the file. The proofs lift all five
  properties and the types to any number of all of them.
* The strip has one thread, since two differ only in whose turn it is to post;
  `DecodedIsPainted` is proved for any number of threads and siblings, in any
  order on the strip.
* The index has two folders beside the root, so that a rename has a source and a
  target and one folder can lie in a development tree. One change per run still
  meets every stage of scanner, priority thread and watcher, one call opens a
  folder, asks for a rescan or pauses, two starts contain a stop, a death while
  saving, and the reading of what was saved. `library_index` starts elsewhere and
  from disks whose folders, but for the root, hold their photograph, and none of
  them is excluded or technical; the second start may be in a folder, so that the
  alias of the root is that folder's; its safety properties are proved for any
  number of everything, with any folders but the root excluded or technical.
* The governor's unit of time is 0.4 s, which divides its delays exactly as the
  code has them: 0.4, 1.2, 2.0 and 5.0 s are 1, 3, 5 and 12 (the last rounded
  down from 12.5, which only makes recovery easier). The samples are one for
  each way the score can fall between the thresholds, with heat, saving,
  battery and a hidden window each deciding once. The state space is finite
  without a bound on the number of polls.
* Three calls are two openings and a departure, or an opening, a full
  resolution and another opening, with both workers and the engine at any
  stage in between. Numbers of requests and generations are bounded by the
  calls; the proofs of the two invariants are free of the bound. `Broken` is
  empty here: a file that does not decode at all takes the same
  steps as one that is cut short, without its screen frame.
* Five buckets are one more than either budget holds frames of leisure, so that
  frames are evicted, and the prefetch looks past a neighbour and past the end.
  Four calls are an opening and three moves, which is what it takes for a frame
  under a pointer at rest to become the oldest; or two openings with a closing
  between and a move. That needs a small set of stops to stay within a few minutes:
  the ends of the film and its middle, whose neighbours the prefetch fills. The
  code's own bounds are about 200 buckets and 4 MiB; the proofs are of any
  number of buckets and films, any stops and calls, and any budgets that hold
  four frames.
* Two files and two paths of one volume are what it takes for two entries to
  claim one name and for a rename to bring a file to where another was; the
  third path has no identities and keeps files by their look. Three changes are
  what it takes to bring a marked file onto a path between the two readings of its
  marking and still to move it on afterwards; two names in the registry leave a
  moment between the looks of the load. All five properties are proved for any number.
* The smart gallery's run has one photograph and 4.6 million states; two
  photographs are beyond the time a run should take. Nothing in the code
  relates the records of two photographs except their order in the queue, and
  the proofs of both properties are for any number of photographs, stamps,
  models, choices and starts.

What they show: the properties below hold in every reachable state, or along
every fair behaviour, of these instances.

* `thumb_cache`: `QueueMatchesEntries` (an entry marked Queued and missing from
  the queue would never be decoded and never be asked for again), `OneDecoder`,
  `StampVouchesForTile`, `MemoryBounded`, `FailuresAddUp` (of one life of an entry:
  no request, trim or revalidation takes a failure away while the file is
  remembered, and one that has used up its attempts is not decoded again; a file
  forgotten by eviction, trim or overflow starts afresh, so there is no bound on
  how often it is decoded in all).
* `thumb_strip`: `DecodedIsPainted` (the repaint posted during a frame is not
  lost), `StopReturns`.
* `library_index`: `StoredIsListed` (until a rebuild, or until photographs are
  kept under the alias of the root, see section 6), `ReportedChangeIsPending`,
  `PendingIsQueued`, `TouchedIsServed`, `CountFollowsPhotos`, `StopReturns`.
* `governor`: `NoFlap`, `GivingUpIsOrdered`, `CalmGivesAllBack`, `PressureShedsAll`.
* `viewer`: `PhotographIsItself`, `SessionMatchesMode`, `OpenSettles`,
  `MisnamedIsCorrected`.
* `preview`: `CachedIsOfFilm`, `BudgetKept`, `RestingIsAsked`,
  `RestIsAnswered` (a pointer at rest sees its exact frame painted, unless the
  decoder gives none), `KeepsPromise` (the refinement of `FilmStills`).
* `favourites`: `HeartFollowsFile` (a marked file is found by an entry of its own,
  not necessarily the only one), `FolderCountExact` (kept by differences at
  marks and repairs), `NameIsLastKnown`, `UnsavedIsDirty`.
* `smart_gallery`: `ChoiceIsKept` (the choice is in the record, and on disk, or
  being written, or known to be unsaved), `UndecidedIsQueued`.

Deadlock is not checked where the system may stop: after ThumbStop,
IndexStop, PreviewStop and SmartStop, and in the viewer, the previews, the
favourites and the smart gallery when the user has asked all the bound allows. The
governor's run checks it.

### Violations

Four runs state what a comment or a document of the repository says and show a
behaviour of the code that contradicts it. Section 6 tells the stories:
`ghost_folder`, `unwatched_film`, `inherited_heart`, `stranded_review`.

## 4. Fairness

* Thumbnail cache: weak fairness of each worker thread. A thread that is not
  waiting runs, and what it waits for is notified. In `thumb_strip` frames keep
  coming while the strip is on screen and time passes; nothing is assumed of
  the user, of the files or of the smart gallery.
* Library index: weak fairness of scanner, priority thread, watcher and of the
  joins of IndexStop. Nothing is assumed of the governor's pause ending, of the
  file system or of the user.
* Governor: weak fairness of the poll. Timers 3 and 9 (350 and 250 ms, set in
  `main.cpp`) wake the window's loop, whose every turn calls Tick and through
  it QualityPoll.
* Viewer: weak fairness of the decode worker, of Video Mode's worker and of
  the handlers of the messages they post. Nothing is assumed of the user or of
  the engine: it may never show its first frame.
* Previews: weak fairness of the worker, a thread whose decode ends (WaitFor
  has a time limit), and of the window, which begins a frame that is due and
  draws it to its end. Nothing is assumed of the user or of the governor.
* Favourites and smart gallery: none, their properties are of safety.

## 5. The proofs

The seven proof modules and `SetSums` are checked by tlapm to the last leaf, for
every value of the constants allowed by the assumptions stated with them:
non-empty limits, thresholds in order, a root that is neither excluded nor
technical, files that are images or films and not both, a cache of previews
that holds four frames or more, a strip that names each path once, a folder for
each path. Every safety property of the passing runs is stated by one of their
theorems; what stays with TLC is liveness.

The structure is the same throughout: Init implies the invariant, each action
preserves it (one lemma for each), a stuttering step does, and the theorem of
the specification follows by temporal logic. Where a component has several
properties, the invariant of types and shapes comes first and the later ones are
proved beside it, each with what it alone needs.

**ThumbCacheProofs.** `TypeCorrect`, `QueueMatches`, `DecodedOnce` and
`StampVouches`: for any number of paths and threads and any size of queue and
cache. The inductive invariant joins the types, `Consistent` (queue and entries
agree, one decoder for each entry in Loading) and `Sound`. None of the
properties is inductive alone: that a stored stamp does not vouch for an older
tile depends on what threads hold between reading the stamp and storing, so
`ThreadKnows` says that a thread's stamp is never newer than the image it will
store, and that a tile it carries over from the entry was decoded under that
very stamp; `EntryKnows` says the same of what is stored. The lemmas about those
actions that change the queue rest on facts about appending, removing and
keeping some of a sequence without repetitions.

`MemoryIsBounded` and `FailuresCounted` (`FailuresAddUp`) follow from `Limits`.
Eviction comes after the store, in a critical section of its own, so what is
bounded is the tiles against the cap and the threads that have stored and not yet
evicted: a store moves one thread into that set and adds at most one tile, an
eviction leaves the cap or removes all that may go. `Counted` says that what is
counted is finite, without which a cardinality means nothing. `Tries` ties an
entry's attempts to its state: a request leaves them standing and is refused at
the limit, so that what is queued or loading is always below it. `FailuresCounted`
is an action property and its argument goes step by step: a request, a trim, a
worker each leave an entry its count, add to it, or forget the file; `Tries`
excludes that one at the limit is taken. Nothing is claimed across forgetting.

`PaintedInTheEnd` and `CacheBehindStrip` are theorems of the strip in front of
the cache. A frame is painted call by call, so "painted" cannot be asked of all
tiles at once: `Painted` asks it of the places the frame has passed, unless a
repaint is due or a thread is about to ask for one, and `Passed` is every place
between two frames. A tile decoded while the frame stands before its place will
be drawn by it; one decoded behind it is still to be announced. `CachedKept`
closes the remaining gap: a thread that took the entry's tile along because the
stamp had not moved announces nothing, which is right only because the entry
cannot lose its tile while it is Loading.

**SetSums.** What the community modules compute by a fold, the sum of a function
over a finite set, as far as the count of photographs and the bytes of frames need
it: two functions that agree on a set have one total there, an element splits off,
and one changed value changes the total by the difference. The library's induction
over finite sets takes an operator as a parameter and is out of the provers'
reach, so each fact is proved by a smallest set that would refute it: the strict
subsets of a finite set are well-founded, and well-foundedness is stated of sets.

**LibraryIndexProofs.** `StoredListed`: whatever the number of folders,
photographs, changes, calls, deaths and restarts, photographs kept belong to a
folder that is listed, until a rebuild or until photographs are kept under the
root's alias. `StoredIsListed` alone is not inductive: the store is saved, the
process dies, and the file is loaded; so the invariant adds that what the cache
file lists has its photographs with it (`CacheShape`), and that what the threads
hold and what is queued has the shape StoreFolder and RemoveFolder expect
(`Hands`, `Queued`). `Clean` is `StoredIsListed` and that nothing is listed under
the alias. Without the latter StoreFolder would take the alias for the current
folder when it looks for the path a folder moved from; with it, a path listed is
the path NormalisePath makes of it, and what is dropped with a former path is
exactly that path's.

Why only until then: Clear empties the lists and keeps `folderIdByPath`, and a
later store may then drop a folder through a stale identity. And once photographs
are kept under the alias, one folder has two spellings, and what is stored by one
of them takes its identity from the other. A look at the alias that finds no
photographs does not end it: it may take away the current folder's photographs,
but with their identity.

* `PendingQueued` (`PendingIsQueued`): the set beside the queue is the queue's
  and the queue has no repetitions, after the watcher marks any set of folders
  and the scanner takes one (`Matched`).
* `TouchedServed` (`TouchedIsServed`): `ServedShape` adds that the folder in the
  priority thread's hands is no longer in its queue, so that a second touch
  meanwhile is refused and not queued behind it.
* `ReportedIsPending` (`ReportedChangeIsPending`): a change is handed on from the
  record to the queue or the flag of a rebuild, and from there to the scanner's
  pass. `Led` names the stations, and each handing over is shown to reach the
  next one before it leaves the last: RunWatcher marks before the record is gone,
  the scanner takes from the pending set into its hands, a rebuild lowers its
  flag when it owes the whole walk. `PassShape` says which passes have what left to do.
* `CountFollows` (`CountFollowsPhotos`) and `CountIsEnough`: every step but a
  start and its loading changes the count by what it changes in the photographs
  kept. StoreFolder may take away the listing under the identity's former path
  and the one under its new path in one call; `SetSums` gives the sum after each.
  `CountIsEnough` is what the code's unsigned count rests on, and holds after a
  load that counts a path twice as well: the count is then too high, never too low.
* `TypesHold` (`TypeOK`): the pieces above together.

**GovernorProofs.** `TypeCorrect`, `OrderedSacrifice` (`GivingUpIsOrdered`) and
`NoFlapping` (`NoFlap`): for any thresholds in order, any delays in order and any
samples. `NoFlap` is an action property about calm lasting since the last fall;
the invariant it needs, `CalmIsRecent`, says that the calm counted so far
never began before the last fall. `PolicyIsCurrent` says the published policy is
the tier's on the last sample.

**ViewerProofs.** `ShownIsNamed` (`PhotographIsItself`) and `EngineFollowsMode`
(`SessionMatchesMode`): for any files, whatever their bytes, and any number of
calls and generations. Neither is inductive: a result that arrives late could
show another file, and a photograph that fails to decode sets the mode to Error
without releasing a film. What rules both out is who may still answer the newest
number: `AnswersAreNamed` says that a request, a job or a posted result carrying
it is for the file the window names, and `OnlyListed` that in a video mode it is
nothing but a listing. One lemma for opening a film, one for opening an image,
one for a closing, one for the steps that ask nothing; each handler is then a
choice among these.

**PreviewProofs.** `FramesAreOfFilm` (`CachedIsOfFilm`), `VerdictIsOwn`
(`OwnVerdictStands`) and `KeptPromise` (`KeepsPromise`, that the engine implements
`FilmStills`): for any films, any number of buckets and any policies. The
invariant is whose a request is: one made under the current generation is for the
film open (`RequestShape` for the pending one, `WorkerShape` for the worker's),
and generations only grow, so that a late decode never carries the current one.
`OwnVerdictStands` is proved and not asked of a run: its case, a late decode of an
earlier film beside one of the film open, takes more calls than the run has, and
the proof has no bound on them. The refinement is a step simulation: each action
is mapped to `Open`, `Close`, `Ask`, `Answer`, `Forget` or a stutter.

`BudgetIsKept` (`BudgetKept`): the order of uses lists each cached bucket once, and
the count is the sum over them. CachePut replaces a frame of another size before it
trims, and CacheTrimLocked takes away from the old end until the rest fits; what the
count loses is the sum over the buckets that went, by `SetSums`.

`RestingPointerIsAsked` (`RestingIsAsked`): neither the prefetch, which shares the
one slot for requests, nor eviction takes the place of the bucket under the
pointer. The prefetch asks only when the exact frame is there, and a frame drawn
is used. What needs the four frames is eviction: between two uses of the frame at
rest few others can be used or stored, and the budget always holds the last four
used, so the argument counts how far from the newest end of the order the
pointer's frame may have come while a decode, a pending request and a prefetch go by.

`TypesHold` (`TypeOK`) adds the types to these.

**FavouritesProofs.** All five invariants of the run: `TypeCorrect`,
`HeartFollows`, `BadgesExact`, `NamesKnown`, `UnsavedKnown`. What joins them is
what each index is of the list of entries (`IndexShape`): an identity some entry
has leads to an entry that has it and any other to none, and a name leads to none
or to an entry seen there. Entries may share an identity, because of the second
reading of a mark, so an index is not determined by the list: what a mark, a
repair and an unmark each preserve is these two directions (`Identities`,
`Names`). `LoadShape` says that a process that still reads the registry has
neither a store nor entries, and that FavouriteSet is under way only after the
load. The counts need the cardinality of the positions of a folder before and
after a mark, a repair and an unmark.

**SmartGalleryProofs.** `TypeCorrect`, `ChoiceKept` (`ChoiceIsKept`) and
`UndecidedQueued` (`UndecidedIsQueued`). What makes them inductive is how the
queue, the set of what is queued and the worker's hand belong together
(`QueueShape`, `HandShape`), that what the review waits for is in its list
and in the listing still to be requested (`ReviewShape`), and that until the
store has been read, what was chosen before it and what it holds add up to the
user's last word (`LoadShape`).

Out of the prover's reach: liveness under fairness and ENABLED, and recursive
operators, of which there are none. So `StopReturns`, `CalmGivesAllBack`,
`PressureShedsAll`, `OpenSettles`, `MisnamedIsCorrected` and `RestIsAnswered` stay
with TLC.

## 6. What the runs found

* `ghost_folder`. The scanner looks at a folder; the folder is deleted; the
  watcher marks the parent and drops the folder; the scanner stores what it
  saw. All is quiet, the watcher has reported everything, and the library
  lists a folder that is not there.
* `unwatched_film`. A film opened from an album and left with Back stays in the
  engine and plays behind the album: ViewerBack changes the screen and says
  nothing to the mode.
* `inherited_heart`. FindLocked falls back to the entry of the path whenever the
  file's own identity is unknown, and compares size and time only when that
  entry has no identity. On a volume with identities a file put where a deleted
  favourite was has its heart, and taking the heart away removes the entry of
  the file that earned it (`favourites.cpp:240`, against its comment at 238).
* `stranded_review`. A photograph leaves `queued` when it is taken, so an album
  may ask for it again under the stamp it was taken with. If it is then written
  over and the inventory synchronised, neither SmartRequest nor the requeue
  after the decision inserts it; the older request comes to its turn, is found
  decided and skipped, and the review waits for the new stamp with an empty
  queue (`smartgallery.cpp:196`, against its comment at 193).

Seen while modelling, without a run of its own:

* Filmstrip (`main.cpp:3330`): the cache re-reads a tile whose file has changed,
  but a GPU tile is made only for a path that has none, so the strip goes on
  showing the photograph of before until its tiles are released.
* Index, first scan (`index.cpp:568`): stopped during it, the index saves what it
  has; the next start finds a cache, verifies the folders in it and never walks
  the rest.
* Index, the count (`index.cpp:262`): a folder renamed to a technical name and
  looked at there loses its old path's identity and its photographs, but `folders`
  keeps its entry under the old path, since the branch that drops an entry looks
  for it by the new one. When a new folder is made at the old path, two identities
  are saved for one path; the next start gives both the path's photographs and
  counts them twice (`index.cpp:425`), until a rebuild. The first form of
  `CountFollowsPhotos` said that the count is the photographs kept, and failed on
  this in an instance with three changes and two starts; it now speaks of what
  each step changes.
* Index, the root's alias (`index.cpp:508-510`): of a change directly beneath a
  drive's root RunWatcher reports the parent as `C:`, where `index.h:11` calls a
  folder's path a "normalised absolute path". The scanner then lists the root's
  photographs with the identity of the process's current folder on that drive (all
  under the key `c:`): that folder's own entry loses its photographs, the root's
  own entry stays as it was, though `index.h:3-4` says the index is "kept
  current", and photographs of the root are counted under both names. When the
  root holds none, the current folder's are dropped all the same. The first form
  of `StoredIsListed` knew one spelling only and fails when the watcher's is
  modelled, once photographs have been kept under the alias.
* Index, overflow (`index.cpp:503`): an overflow of the watcher's buffer raises
  the flag of a full rebuild, which `index.h` says is never triggered by itself.
* Viewer (`main.cpp:1033`): a photograph whose full decode fails after its screen
  frame was shown stays in loading until something else is opened.
* Viewer, streams (`main.cpp:1394`, `1453`): PlayStream does not bump `latest`; a
  page that has been read and not collected still opens over what was opened
  meanwhile.
* Previews, eviction: `RestingIsAsked` failed with three moves of the pointer, by
  a question that the policy refused about a bucket already cached: the code
  returns before it marks the frame as used, so that the frame may go while the
  pointer rests on it. The property now counts such a question as refused.
* Previews: a question asked while the policy forbids previews is not asked
  again until the pointer moves; frames that follow closely may keep the
  prefetch from being served, each replacing the request that is settling.
* Favourites (`favourites.cpp:216`, `261-262`): FavouriteSet looks for an entry with one
  reading of the file and makes a new one of a second reading. When another
  program moves a file that has a heart onto the path in between, the file gets a
  second entry, against "one boolean per photograph" (`favourites.h:3`); taking
  its heart away removes one of the two, and the file keeps a heart. That no two
  entries share an identity was an invariant here while the two readings were one step.
* Favourites: `favourites.h:20-21` says that the flush is called on a timer and at
  shutdown; only the call at shutdown exists (`main.cpp:7035`).
* Smart gallery (`smartgallery.cpp:211`): an inventory that arrives before the
  model opens marks photographs under no model's identity; found decided later,
  they leave the queue without leaving the review, until the next inventory.
  A save that fails makes the idle worker try again at once, without a delay.

## 7. What is only model-checked, and what is not modelled

Only model-checked, all of it liveness: `StopReturns` of the strip and of the
index, `CalmGivesAllBack`, `PressureShedsAll`, `OpenSettles`, `MisnamedIsCorrected`,
`RestIsAnswered`.

Left out of modelled components:

* Filmstrip: the drawing, and the 512-tile bound on `thumbBitmaps`.
* Library index: nested trees, several drives, the NTFS journal, the lookups the
  screens make, which change nothing; records that a folder was modified, which
  only ask for one more look at it and its parent; a cache file cut short by a
  death while saving, which is taken for no file though LoadCache may accept its
  head; a change of the current folder while the process runs, and the one a
  process on another drive may inherit for this drive (`=C:`).
* Governor: Explain and the log line; the many signals behind each score.
* Viewer: streams and the address resolver, files of unknown kind, the mode
  Probing (nothing enters it), capabilities and the checkpoint flag, neighbours'
  prefetch as an action, picture-in-picture, saving and recycling the file shown,
  the one-shot process of a quick look, tracks, pacing and the resume position.
* Previews: the decoder's own life and its two output rungs.
* Favourites: hard links, colliding hashes, a store that cannot be read, a file
  that cannot be opened and has only its attributes read.
* Smart gallery: applying a review, corrections, categories, counters, the flag
  of a complete discovery, photographs that leave the library.

Not modelled:

* NTFS journal: opened only by an elevated process; without elevation the index
  walks, which is what LibraryIndex models.
* Address resolver, streaming: one worker with one external process, and pure
  decisions about delays; the rest is the engine's.
* Media state, metadata cache: one list saved by the window thread alone; one
  map under one mutex, filled by whoever reads.
* Transcripts: an external process and a model; the coverage of spans is a place
  to go on.
* Pacing and capability: pure decisions on measurements, without shared state.
* Browser and shell integration: calls into Windows; rendering draws; the
  decoders and the readers of metadata convert data.
* Vendored libraries (LibRaw, dav1d, exiv2, libavif, libexpat, libjpeg-turbo,
  libwebp, tinyexr, wuffs): other projects, and almost all of the repository's
  lines. What is specified here is the program's own concurrent core.

## 8. Plan

Proofs that would add most, in this order:

1. An abstract cache (a map that may forget, and an answer that is never older
   than its stamp), with ThumbCache shown to implement it and the strip proved
   against the abstraction.
2. An abstract viewer, in which the newest opening wins, with Viewer shown to
   implement it.
3. The count after a load: that it is exact until a technical name has been given.

Models that could follow:

1. Streams: PlayStream, the resolver's worker and process, reconnection with its
   delays, composed with the viewer.
2. Media state (debounce, a rename that fails); transcript coverage.
3. Index: the journal, nested trees, several drives, and a property of the last
   listing stored by two threads.
