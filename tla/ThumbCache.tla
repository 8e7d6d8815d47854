----------------------------- MODULE ThumbCache -----------------------------
(***************************************************************************)
(* The filmstrip's thumbnail cache (src/src/thumbs.cpp): a map of entries, *)
(* a LIFO queue of paths to decode and a few worker threads, all under one *)
(* mutex.  Every critical section is one action; what a worker does with   *)
(* the mutex released (reading the file's stamp, decoding it, posting the  *)
(* message) is an action of its own, so that requests, trims and writes to *)
(* the file fall between.                                                  *)
(*                                                                         *)
(* Condition variables: each wait has a predicate over state that only     *)
(* changes under the mutex and every change is followed by a notify, so a  *)
(* worker may run whenever its predicate holds.                            *)
(*                                                                         *)
(* Data: a file is the number of its last write; a decoded tile is the     *)
(* number of the write it shows, 0 for a null image; a stamp (size and     *)
(* write time) is the number of the write it was taken after, 0 for the    *)
(* zeros an entry starts with.  Clock values are kept as distances from    *)
(* now, which is all the code compares.                                    *)
(***************************************************************************)
EXTENDS Integers, Sequences, FiniteSets, SequencesExt

CONSTANTS
  Path,         \* the photographs of the open folders
  Worker,       \* the decoding threads
  QueueCap,     \* requests the queue holds                  (code: 512)
  EntryCap,     \* tiles kept once decoded                   (code: 1024)
  TrimSlack,    \* entries a trim tolerates over its list    (code: 64)
  MaxAttempts,  \* decodes tried for a file that fails       (code: 3)
  RetryDelay,   \* ticks before the first retry              (code: 4000 ms)
  Revalidate,   \* ticks a finished tile is trusted          (code: 1500 ms)
  MaxIdle,      \* bound: idle times beyond it look alike
  MaxVersion    \* bound: writes a file sees

ASSUME QueueCapAssumption == QueueCap \in Nat \ {0}
ASSUME LimitsAssumption ==
  /\ EntryCap \in Nat /\ TrimSlack \in Nat
  /\ MaxAttempts \in Nat \ {0} /\ RetryDelay \in Nat /\ Revalidate \in Nat
  /\ MaxIdle \in Nat /\ MaxVersion \in Nat \ {0}

VARIABLES
  entries,   \* entries[p]: the map's entry, or Absent
  queue,     \* the deque; its last element is decoded next
  worker,    \* worker[w]: where thread w is and what it holds
  posted,    \* a repaint is due: a ThumbReady message or a Wake is pending
  phase,     \* "running", "stopping" (the flag is set), "stopped"
  disk       \* disk[p]: the file as the workers find it

cacheVars == <<entries, queue>>
vars == <<entries, queue, worker, posted, phase, disk>>

Version == 0..MaxVersion
Never == MaxIdle + 1   \* used = 0: asked for once and never since

Entry == [state    : {"Absent", "Queued", "Loading", "Ready", "Failed"},
          image    : Version,
          attempts : Nat,
          retryIn  : Nat,             \* retryAt - now, floored at 0
          age      : 0..Revalidate,   \* now - checked, capped
          idle     : 0..Never,        \* now - used, capped
          stamp    : Version]

Absent == [state |-> "Absent", image |-> 0, attempts |-> 0, retryIn |-> 0,
           age |-> Revalidate, idle |-> Never, stamp |-> 0]
NewEntry == [Absent EXCEPT !.state = "Queued"]

Busy == {"stamp", "load", "store"}
Thread == [pc     : Busy \cup {"idle", "post", "evict", "exited"},
           path   : Path \cup {"none"},
           cached : Version,   \* the tile the entry already had
           prev   : Version,   \* the stamp it was decoded under
           stamp  : Version,   \* the stamp read now, 0 when it could not be
           image  : Version]   \* the outcome, 0 for failure
At(pc) == [pc |-> pc, path |-> "none", cached |-> 0, prev |-> 0,
           stamp |-> 0, image |-> 0]

File == [version : 1..MaxVersion, condition : {"ok", "locked", "gone"}]

Present == {p \in Path : entries[p].state # "Absent"}
Evictable == {p \in Path : entries[p].state \in {"Ready", "Failed"}}

Init ==
  /\ entries = [p \in Path |-> Absent]
  /\ queue = <<>>
  /\ worker = [w \in Worker |-> At("idle")]
  /\ posted = FALSE
  /\ phase = "running"
  /\ disk \in [Path -> {f \in File : f.version = 1}]
-----------------------------------------------------------------------------
(* Calls of the UI thread and of the smart gallery's worker.  All of them   *)
(* have returned for good when ThumbStop is called.                         *)

\* Mutant: the forgotten request leaves its entry behind.
EnqueueKeepingVictim(es, p) ==
  LET pushed == Append(queue, p)
  IN  /\ queue' = IF Len(pushed) > QueueCap THEN Tail(pushed) ELSE pushed
      /\ entries' = es

\* The tail of ThumbRequest and ThumbPrioritize: es holds the entry of p,
\* queued; when the queue overflows the oldest request is forgotten.
Enqueue(es, p) ==
  LET pushed == Append(queue, p)
      victim == Head(pushed)
  IN  IF Len(pushed) > QueueCap
        THEN /\ queue' = Tail(pushed)
             /\ entries' = IF es[victim].state = "Queued"
                             THEN [es EXCEPT ![victim] = Absent] ELSE es
        ELSE queue' = pushed /\ entries' = es

\* Mutant: the limit is compared after one attempt too many.
DueOnceMore(e) ==
  \/ e.state = "Failed" /\ e.attempts <= MaxAttempts /\ e.retryIn = 0
  \/ e.state = "Ready" /\ e.age >= Revalidate

\* A finished or failed entry that is due for another look.
Due(e) ==
  \/ e.state = "Failed" /\ e.attempts < MaxAttempts /\ e.retryIn = 0
  \/ e.state = "Ready" /\ e.age >= Revalidate

ThumbRequest(p) ==
  LET e == [entries[p] EXCEPT !.idle = 0]
  IN  \/ e.state = "Absent" /\ Enqueue([entries EXCEPT ![p] = NewEntry], p)
      \/ Due(e) /\ Enqueue([entries EXCEPT ![p] = [e EXCEPT !.state = "Queued"]], p)
      \/ /\ e.state # "Absent" /\ ~Due(e)
         /\ entries' = [entries EXCEPT ![p] = e]
         /\ UNCHANGED queue

ThumbPrioritize(p) ==
  \/ entries[p].state = "Absent" /\ Enqueue([entries EXCEPT ![p] = NewEntry], p)
  \/ /\ entries[p].state = "Queued"
     /\ \E i \in DOMAIN queue :
          /\ queue[i] = p
          /\ queue' = Append(RemoveAt(queue, i), p)
     /\ UNCHANGED entries
  \/ /\ entries[p].state \notin {"Absent", "Queued"} \/ \A i \in DOMAIN queue : queue[i] # p
     /\ entries[p].state # "Absent"
     /\ UNCHANGED cacheVars

\* ThumbLookup changes only the time of the last use.
ThumbLookup(p) ==
  /\ entries' = IF p \in Present THEN [entries EXCEPT ![p].idle = 0] ELSE entries
  /\ UNCHANGED queue

\* The increasing enumerations of a finite set of positions.
Increasing(I) == {f \in [1..Cardinality(I) -> I] :
                    \A a, b \in DOMAIN f : a < b => f[a] < f[b]}

\* Mutant: a trim drops the entries being decoded too.
ThumbTrimAll(keep) ==
  LET kept == {i \in DOMAIN queue : queue[i] \in keep}
  IN  /\ keep # {}
      /\ \E f \in Increasing(kept) : queue' = [k \in DOMAIN f |-> queue[f[k]]]
      /\ entries' = [p \in Path |-> IF p \in keep THEN entries[p] ELSE Absent]

\* Leaving a folder: its backlog leaves the queue, and when the cache has
\* outgrown the new list everything not being decoded leaves the map.
ThumbTrim(keep) ==
  LET kept == {i \in DOMAIN queue : queue[i] \in keep}
      backlog == {queue[i] : i \in DOMAIN queue \ kept}
      left == [p \in Path |-> IF p \in backlog /\ entries[p].state = "Queued"
                                THEN Absent ELSE entries[p]]
      size == Cardinality({p \in Path : left[p].state # "Absent"})
  IN  /\ keep # {}
      /\ \E f \in Increasing(kept) : queue' = [k \in DOMAIN f |-> queue[f[k]]]
      /\ entries' =
           IF size <= Cardinality(keep) + TrimSlack THEN left
           ELSE [p \in Path |-> IF p \in keep \/ left[p].state = "Loading"
                                  THEN left[p] ELSE Absent]
-----------------------------------------------------------------------------
(* The worker threads (Run).                                                *)

Take(w) ==
  /\ worker[w].pc = "idle" /\ phase = "running" /\ queue # <<>>
  /\ LET p == Last(queue)
         e == entries[p]
     IN  /\ queue' = Front(queue)
         /\ IF e.state = "Queued"
              THEN /\ entries' = [entries EXCEPT ![p].state = "Loading"]
                   /\ worker' = [worker EXCEPT ![w] =
                        [pc |-> "stamp", path |-> p, cached |-> e.image,
                         prev |-> e.stamp, stamp |-> 0, image |-> 0]]
              ELSE UNCHANGED <<entries, worker>>
  /\ UNCHANGED <<posted, phase, disk>>

\* Mutant: the loop is left only once the queue has drained.
ExitWhenDrained(w) ==
  /\ worker[w].pc = "idle" /\ phase = "stopping" /\ queue = <<>>
  /\ worker' = [worker EXCEPT ![w] = At("exited")]
  /\ UNCHANGED <<entries, queue, posted, phase, disk>>

Exit(w) ==
  /\ worker[w].pc = "idle" /\ phase = "stopping"
  /\ worker' = [worker EXCEPT ![w] = At("exited")]
  /\ UNCHANGED <<entries, queue, posted, phase, disk>>

\* A stamp that matches the one the cached tile was decoded under saves the
\* decode.
StampFile(w) ==
  LET me == worker[w]
      file == disk[me.path]
      stamp == IF file.condition = "gone" THEN 0 ELSE file.version
      unchanged == me.cached # 0 /\ stamp # 0 /\ stamp = me.prev
  IN  /\ me.pc = "stamp"
      /\ worker' = [worker EXCEPT ![w] =
           IF unchanged THEN [me EXCEPT !.pc = "store", !.stamp = stamp, !.image = me.cached]
                        ELSE [me EXCEPT !.pc = "load", !.stamp = stamp, !.cached = 0]]
      /\ UNCHANGED <<entries, queue, posted, phase, disk>>

LoadFile(w) ==
  LET me == worker[w]
      file == disk[me.path]
  IN  /\ me.pc = "load"
      /\ worker' = [worker EXCEPT ![w] = [me EXCEPT !.pc = "store",
           !.image = IF file.condition = "ok" THEN file.version ELSE 0]]
      /\ UNCHANGED <<entries, queue, posted, phase, disk>>

\* The entry once the outcome is known.
Settled(e, me) ==
  IF me.image # 0
    THEN [e EXCEPT !.state = "Ready", !.image = me.image, !.attempts = 0,
                   !.age = 0, !.stamp = me.stamp]
    ELSE [e EXCEPT !.state = "Failed", !.attempts = e.attempts + 1,
                   !.age = 0, !.retryIn = RetryDelay * (e.attempts + 1)]

\* Mutant: the stamp is read after the decode instead of before it.
StoreResultStampedLate(w) ==
  LET me == [worker[w] EXCEPT !.stamp =
               IF @ = 0 THEN 0 ELSE disk[worker[w].path].version]
  IN  /\ me.pc = "store"
      /\ entries' = [entries EXCEPT ![me.path] = Settled(entries[me.path], me)]
      /\ worker' = [worker EXCEPT ![w] = At("evict")]
      /\ UNCHANGED <<queue, posted, phase, disk>>

StoreResult(w) ==
  LET me == worker[w]
      announce == me.cached = 0 /\ me.image # 0
  IN  /\ me.pc = "store"
      /\ IF entries[me.path].state = "Absent"
           THEN /\ worker' = [worker EXCEPT ![w] = At("idle")]
                /\ UNCHANGED entries
           ELSE /\ entries' = [entries EXCEPT ![me.path] = Settled(entries[me.path], me)]
                /\ worker' = [worker EXCEPT ![w] =
                     IF announce THEN [At("post") EXCEPT !.path = me.path] ELSE At("evict")]
      /\ UNCHANGED <<queue, posted, phase, disk>>

Announce(w) ==
  /\ worker[w].pc = "post"
  /\ posted' = TRUE
  /\ worker' = [worker EXCEPT ![w] = At("evict")]
  /\ UNCHANGED <<entries, queue, phase, disk>>

\* Drop the entries that have gone unused longest until the cache fits or
\* nothing in it may be dropped.  Which of two entries used in the same tick
\* goes first is left open.
OldestOf(V) ==
  \A v \in V, u \in Evictable \ V : entries[v].idle >= entries[u].idle
\* Mutant: entries that failed are not counted as droppable.
EvictReadyOnly(w) ==
  /\ worker[w].pc = "evict"
  /\ entries' = IF Cardinality(Present) <= EntryCap THEN entries
                 ELSE [p \in Path |-> IF entries[p].state = "Ready" THEN Absent ELSE entries[p]]
  /\ worker' = [worker EXCEPT ![w] = At("idle")]
  /\ UNCHANGED <<queue, posted, phase, disk>>
Excess == IF Cardinality(Present) > EntryCap THEN Cardinality(Present) - EntryCap ELSE 0
Evict(w) ==
  /\ worker[w].pc = "evict"
  /\ \E V \in SUBSET Evictable :
       /\ Cardinality(V) <= Excess
       /\ Cardinality(V) = Excess \/ V = Evictable
       /\ OldestOf(V)
       /\ entries' = [p \in Path |-> IF p \in V THEN Absent ELSE entries[p]]
  /\ worker' = [worker EXCEPT ![w] = At("idle")]
  /\ UNCHANGED <<queue, posted, phase, disk>>

Work(w) == \/ Take(w) \/ StampFile(w) \/ LoadFile(w) \/ StoreResult(w)
           \/ Announce(w) \/ Evict(w)
-----------------------------------------------------------------------------
(* ThumbStop, the clock, and the files.                                     *)

BeginStop ==
  /\ phase = "running" /\ phase' = "stopping"
  /\ UNCHANGED <<entries, queue, worker, posted, disk>>

FinishStop ==
  /\ phase = "stopping" /\ \A w \in Worker : worker[w].pc = "exited"
  /\ phase' = "stopped"
  /\ entries' = [p \in Path |-> Absent] /\ queue' = <<>>
  /\ UNCHANGED <<worker, posted, disk>>

\* Mutant: the time left runs below zero.
OlderUnfloored(e) == [e EXCEPT !.retryIn = @ - 1]

Older(e) ==
  [e EXCEPT !.retryIn = IF @ = 0 THEN 0 ELSE @ - 1,
            !.age = IF @ < Revalidate THEN @ + 1 ELSE @,
            !.idle = IF @ < MaxIdle THEN @ + 1 ELSE @]
Tick ==
  /\ entries' = [p \in Path |-> IF entries[p].state = "Absent" THEN Absent
                                  ELSE Older(entries[p])]
  /\ UNCHANGED <<queue, worker, posted, phase, disk>>

\* A write needs the file unlocked and makes it exist; the other changes of
\* condition leave its contents alone.
WriteFile(p) ==
  /\ disk[p].condition # "locked" /\ disk[p].version < MaxVersion
  /\ disk' = [disk EXCEPT ![p] = [version |-> @.version + 1, condition |-> "ok"]]
  /\ UNCHANGED <<entries, queue, worker, posted, phase>>
SetCondition(p) ==
  /\ disk[p].condition # "gone"
  /\ \E c \in {"ok", "locked", "gone"} : disk' = [disk EXCEPT ![p].condition = c]
  /\ UNCHANGED <<entries, queue, worker, posted, phase>>

Files == \E p \in Path : WriteFile(p) \/ SetCondition(p)
-----------------------------------------------------------------------------
\* Callers may ask for anything at any time.
Call ==
  /\ phase = "running"
  /\ \/ \E p \in Path : ThumbRequest(p) \/ ThumbPrioritize(p) \/ ThumbLookup(p)
     \/ \E keep \in SUBSET Path : ThumbTrim(keep)
  /\ UNCHANGED <<worker, posted, phase, disk>>

Next ==
  \/ Call
  \/ \E w \in Worker : Work(w) \/ Exit(w)
  \/ BeginStop \/ FinishStop \/ Tick \/ Files

Spec == Init /\ [][Next]_vars

-----------------------------------------------------------------------------
(* What the cache promises.                                                 *)

\* Types.
TypeOK ==
  /\ entries \in [Path -> Entry]
  /\ queue \in Seq(Path)
  /\ worker \in [Worker -> Thread]
  /\ posted \in BOOLEAN
  /\ phase \in {"running", "stopping", "stopped"}
  /\ disk \in [Path -> File]

\* The queue holds exactly the entries marked Queued, each once: an entry
\* marked Queued and missing from the queue would never be decoded, and
\* ThumbRequest would keep returning early for it.
QueueMatchesEntries ==
  /\ \A i, j \in DOMAIN queue : queue[i] = queue[j] => i = j
  /\ \A p \in Path : entries[p].state = "Queued" <=> \E i \in DOMAIN queue : queue[i] = p

\* An entry is marked Loading exactly while one thread decodes it, so no file
\* is decoded twice at once, nothing drops an entry under a decode, and no
\* entry waits for a decode that nobody performs.
OneDecoder ==
  /\ \A p \in Path : entries[p].state = "Loading"
                       <=> \E w \in Worker : worker[w].pc \in Busy /\ worker[w].path = p
  /\ \A v, w \in Worker : worker[v].pc \in Busy /\ worker[w].pc \in Busy
                             /\ worker[v].path = worker[w].path => v = w

\* An entry whose recorded stamp is the file's present one shows the file's
\* present contents, whatever was written while it was being decoded: a
\* revalidation that finds the stamp unchanged may keep the tile.
StampVouchesForTile ==
  \A p \in Path : entries[p].stamp = disk[p].version => entries[p].image = disk[p].version

\* The tiles kept are bounded whatever the size of the collection: what may be
\* dropped never exceeds the cap by more than one tile for each thread that
\* has stored and not yet evicted, and what is on its way is bounded by the
\* queue and the threads.
MemoryBounded ==
  /\ Len(queue) <= QueueCap
  /\ Cardinality(Evictable) <= EntryCap
       + Cardinality({w \in Worker : worker[w].pc \in {"post", "evict"}})

\* While the cache remembers a file, its failures to decode add up through every
\* request, priority, trim and revalidation: only a decoded tile starts the count
\* again, and a file that has failed MaxAttempts times is not queued or decoded
\* any more.  Forgetting it (overflow of the queue, trim, eviction) does start
\* the count again, so that over time the decodes of one file have no bound.
FailuresAddUp ==
  [][\A p \in Path :
       LET e == entries[p]
           next == entries'[p]
       IN  e.state # "Absent" =>
             /\ next.state \in {"Queued", "Loading"} => next.attempts >= e.attempts
             /\ next.state = "Failed" =>
                  next.attempts >= e.attempts + IF e.state = "Loading" THEN 1 ELSE 0
             /\ e.attempts >= MaxAttempts => next.state \in {"Failed", "Absent"}]_vars

\* Asked to stop, the threads all leave their loops and the join returns.
StopReturns == phase = "stopping" ~> phase = "stopped"
=============================================================================
