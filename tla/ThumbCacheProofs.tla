-------------------------- MODULE ThumbCacheProofs --------------------------
(***************************************************************************)
(* The thumbnail cache is consistent for every number of paths, threads    *)
(* and writes: the map, the queue and the threads agree, a stamp vouches   *)
(* for the tile kept beside it, and memory and attempts stay within their  *)
(* limits.  The strip in front of the cache (ThumbStrip) keeps the cache's *)
(* invariant and leaves no decoded tile unpainted.                         *)
(***************************************************************************)
EXTENDS ThumbStrip, SequenceTheorems, FiniteSetTheorems, TLAPS

\* What a thread knows of the file it holds: the contents it kept or decoded
\* are no older than the stamp it took, and no newer than the file.
ThreadKnows(w) ==
  LET me == worker[w]
      now == disk[me.path].version
  IN  /\ me.pc \in Busy => me.path \in Path
      /\ me.pc = "stamp" => me.prev <= me.cached /\ me.cached <= now
      /\ me.pc = "load" => me.stamp <= now
      /\ me.pc = "store" /\ me.image # 0 => me.stamp <= me.image /\ me.image <= now

\* Every entry's tile lies between the stamp beside it and the file.
EntryKnows(p) == entries[p].stamp <= entries[p].image /\ entries[p].image <= disk[p].version

Sound == (\A w \in Worker : ThreadKnows(w)) /\ (\A p \in Path : EntryKnows(p))

\* The inductive invariant.
Consistent == QueueMatchesEntries /\ OneDecoder
IInv == TypeOK /\ Consistent /\ Sound
-----------------------------------------------------------------------------
\* Types of the pieces the actions build.
LEMMA PieceTypes ==
  /\ Absent \in Entry /\ NewEntry \in Entry
  /\ \A pc \in {"idle", "post", "evict", "exited"} : At(pc) \in Thread
BY LimitsAssumption DEF Absent, NewEntry, Entry, Version, Never, Thread, At, Busy

\* The initial states satisfy the invariant.
LEMMA InitInv == Init => IInv
<1> SUFFICES ASSUME Init PROVE IInv
  OBVIOUS
<1>1. TypeOK
  <2>1. entries \in [Path -> Entry] /\ worker \in [Worker -> Thread]
    BY PieceTypes DEF Init
  <2>2. queue \in Seq(Path) /\ disk \in [Path -> File]
    BY DEF Init
  <2> QED
    BY <2>1, <2>2 DEF Init, TypeOK
<1>2. Consistent
  BY DEF Init, Consistent, QueueMatchesEntries, OneDecoder, Absent, At, Busy
<1>3. Sound
  BY LimitsAssumption DEF Init, Sound, ThreadKnows, EntryKnows, Absent, At, Busy, File
<1> QED
  BY <1>1, <1>2, <1>3 DEF IInv
-----------------------------------------------------------------------------
\* A step that leaves the threads and the files alone and either keeps each
\* entry's tile and stamp or, when it is not being decoded, empties both.
Gentle ==
  /\ entries' \in [Path -> Entry]
  /\ \A p \in Path :
       /\ entries'[p].state = "Loading" <=> entries[p].state = "Loading"
       /\ \/ entries'[p].image = entries[p].image /\ entries'[p].stamp = entries[p].stamp
          \/ /\ entries'[p].image = 0 /\ entries'[p].stamp = 0
             /\ entries'[p].state # "Loading"

QueueKept == queue' \in Seq(Path) /\ QueueMatchesEntries'

\* Such a step keeps the invariant if it keeps the queue and the map matched.
LEMMA GentleStep ==
  ASSUME IInv, Gentle, QueueKept, UNCHANGED <<worker, disk>>,
         posted' \in BOOLEAN, phase' \in {"running", "stopping", "stopped"}
  PROVE  IInv'
<1>1. TypeOK'
  BY DEF IInv, TypeOK, Gentle, QueueKept
<1>2. OneDecoder'
  BY DEF IInv, Consistent, OneDecoder, Gentle
<1>3. (\A w \in Worker : ThreadKnows(w))'
  BY DEF IInv, Sound, ThreadKnows
<1>4. ASSUME NEW p \in Path PROVE EntryKnows(p)'
  BY <1>4 DEF IInv, TypeOK, Sound, EntryKnows, Gentle, File
<1> QED
  BY <1>1, <1>2, <1>3, <1>4 DEF IInv, Consistent, QueueKept, Sound

\* A request joins the queue: its entry was neither queued nor loading.
LEMMA EnqueueStep ==
  ASSUME IInv, NEW p \in Path, NEW e \in Entry, e.state = "Queued",
         entries[p].state \notin {"Queued", "Loading"},
         \/ e.image = entries[p].image /\ e.stamp = entries[p].stamp
         \/ e.image = 0 /\ e.stamp = 0,
         Enqueue([entries EXCEPT ![p] = e], p)
  PROVE  Gentle /\ QueueKept
<1> DEFINE es == [entries EXCEPT ![p] = e]
           pushed == Append(queue, p)
<1>1. queue \in Seq(Path) /\ entries \in [Path -> Entry]
  BY DEF IInv, TypeOK
<1>2. /\ pushed \in Seq(Path) /\ pushed # <<>> /\ Len(pushed) = Len(queue) + 1
      /\ \A i \in 1..Len(queue) : pushed[i] = queue[i]
      /\ pushed[Len(queue) + 1] = p
      /\ Head(pushed) = pushed[1]
  BY <1>1
<1>3. es \in [Path -> Entry]
  BY <1>1
<1>4. /\ \A i, j \in 1..Len(pushed) : pushed[i] = pushed[j] => i = j
      /\ \A q \in Path : es[q].state = "Queued" <=> \E i \in 1..Len(pushed) : pushed[i] = q
  <2>1. /\ \A i, j \in 1..Len(queue) : queue[i] = queue[j] => i = j
        /\ \A q \in Path : entries[q].state = "Queued" <=> \E i \in 1..Len(queue) : queue[i] = q
    BY <1>1 DEF IInv, Consistent, QueueMatchesEntries
  <2>2. \A i \in 1..Len(queue) : queue[i] # p
    BY <2>1, <1>1
  <2>3. \A i, j \in 1..Len(pushed) : pushed[i] = pushed[j] => i = j
    BY <1>1, <1>2, <2>1, <2>2
  <2>4. ASSUME NEW q \in Path
        PROVE  es[q].state = "Queued" <=> \E i \in 1..Len(pushed) : pushed[i] = q
    <3>1. CASE q = p
      BY <3>1, <1>1, <1>2
    <3>2. CASE q # p
      BY <3>2, <1>1, <1>2, <2>1
    <3> QED
      BY <3>1, <3>2
  <2> QED
    BY <2>3, <2>4
<1>5. CASE Len(pushed) > QueueCap
  <2> DEFINE victim == Head(pushed)
             rest == Tail(pushed)
  <2>1. victim \in Path /\ victim # p /\ entries[victim].state = "Queued" /\ es[victim].state = "Queued"
    <3>1. Len(queue) >= 1 /\ victim = queue[1]
      BY <1>1, <1>2, <1>5, QueueCapAssumption
    <3> QED
      BY <3>1, <1>1, <1>2, <1>4
  <2>2. queue' = rest /\ entries' = [es EXCEPT ![victim] = Absent]
    BY <1>5, <2>1 DEF Enqueue
  <2>3. /\ rest \in Seq(Path) /\ Len(rest) = Len(pushed) - 1
        /\ \A i \in 1..Len(rest) : rest[i] = pushed[i + 1]
    BY <1>2
  <2>4. Gentle
    BY <2>1, <2>2, <1>1, <1>3, PieceTypes DEF Gentle, Absent
  <2>a. victim = pushed[1]
    BY <1>2
  <2> HIDE DEF rest, victim
  <2>5. ASSUME NEW i \in 1..Len(rest), NEW j \in 1..Len(rest), rest[i] = rest[j]
        PROVE  i = j
    <3>1. /\ i + 1 \in 1..Len(pushed) /\ j + 1 \in 1..Len(pushed)
          /\ pushed[i + 1] = pushed[j + 1]
      BY <1>2, <2>3, <2>5
    <3>2. i + 1 = j + 1
      BY <3>1, <1>4
    <3> QED
      BY <3>2
  <2>6. ASSUME NEW q \in Path
        PROVE  entries'[q].state = "Queued" <=> \E i \in 1..Len(rest) : rest[i] = q
    <3>1. CASE q = victim
      <4>1. entries'[q].state # "Queued"
        BY <3>1, <2>2, <1>3 DEF Absent
      <4>2. ASSUME NEW i \in 1..Len(rest), rest[i] = q PROVE FALSE
        <5>1. i + 1 \in 1..Len(pushed) /\ 1 \in 1..Len(pushed) /\ pushed[i + 1] = pushed[1]
          BY <3>1, <4>2, <1>2, <2>a, <2>3
        <5> QED
          BY <5>1, <1>4
      <4> QED
        BY <4>1, <4>2
    <3>2. CASE q # victim
      <4>1. entries'[q].state = "Queued" <=> \E i \in 1..Len(pushed) : pushed[i] = q
        BY <3>2, <2>2, <1>3, <1>4
      <4>2. \A i \in 1..Len(pushed) : pushed[i] = q => i # 1 /\ i - 1 \in 1..Len(rest) /\ rest[i - 1] = q
        BY <3>2, <1>2, <2>a, <2>3
      <4>3. \A i \in 1..Len(rest) : i + 1 \in 1..Len(pushed) /\ rest[i] = pushed[i + 1]
        BY <1>2, <2>3
      <4> QED
        BY <4>1, <4>2, <4>3
    <3> QED
      BY <3>1, <3>2
  <2>7. DOMAIN rest = 1..Len(rest)
    BY <2>3
  <2> QED
    BY <2>2, <2>3, <2>4, <2>5, <2>6, <2>7 DEF QueueKept, QueueMatchesEntries
<1>6. CASE ~(Len(pushed) > QueueCap)
  <2>1. queue' = pushed /\ entries' = es
    BY <1>6 DEF Enqueue
  <2>2. Gentle
    BY <2>1, <1>1, <1>3 DEF Gentle
  <2> QED
    BY <2>1, <2>2, <1>2, <1>4 DEF QueueKept, QueueMatchesEntries
<1> QED
  BY <1>5, <1>6
-----------------------------------------------------------------------------
\* The calls of the UI thread and the smart gallery.

LEMMA RequestStep ==
  ASSUME IInv, NEW p \in Path, ThumbRequest(p)
  PROVE  Gentle /\ QueueKept
<1> DEFINE e == [entries[p] EXCEPT !.idle = 0]
<1>1. queue \in Seq(Path) /\ entries \in [Path -> Entry] /\ entries[p] \in Entry
  BY DEF IInv, TypeOK
<1>2. 0 \in 0..Never
  BY LimitsAssumption DEF Never
<1>3. e \in Entry /\ e.state = entries[p].state /\ e.image = entries[p].image
        /\ e.stamp = entries[p].stamp
  BY <1>1, <1>2 DEF Entry
<1>4. CASE e.state = "Absent"
  <2>1. NewEntry.state = "Queued" /\ NewEntry.image = 0 /\ NewEntry.stamp = 0
    BY DEF NewEntry, Absent
  <2>2. ~Due(e)
    BY <1>4 DEF Due
  <2>3. Enqueue([entries EXCEPT ![p] = NewEntry], p)
    BY <1>4, <2>2, Zenon DEF ThumbRequest
  <2> QED
    BY <1>3, <1>4, <2>1, <2>3, PieceTypes, EnqueueStep
<1>5. CASE e.state # "Absent" /\ Due(e)
  <2> DEFINE q == [e EXCEPT !.state = "Queued"]
  <2>1. q \in Entry /\ q.state = "Queued" /\ q.image = entries[p].image /\ q.stamp = entries[p].stamp
    BY <1>3 DEF Entry
  <2>2. entries[p].state \notin {"Queued", "Loading"}
    BY <1>3, <1>5 DEF Due
  <2>3. Enqueue([entries EXCEPT ![p] = q], p)
    BY <1>5, Zenon DEF ThumbRequest
  <2> QED
    BY <2>1, <2>2, <2>3, EnqueueStep
<1>6. CASE e.state # "Absent" /\ ~Due(e)
  <2>1. entries' = [entries EXCEPT ![p] = e] /\ queue' = queue
    BY <1>6 DEF ThumbRequest, Due
  <2>2. Gentle
    BY <1>1, <1>3, <2>1 DEF Gentle
  <2>3. \A q \in Path : entries'[q].state = entries[q].state
    BY <1>1, <1>3, <2>1
  <2> QED
    BY <1>1, <2>1, <2>2, <2>3 DEF QueueKept, QueueMatchesEntries, IInv, Consistent
<1> QED
  BY <1>4, <1>5, <1>6

\* Moving a request to the back of the deque permutes the queue.
LEMMA PrioritizeStep ==
  ASSUME IInv, NEW p \in Path, ThumbPrioritize(p)
  PROVE  Gentle /\ QueueKept
<1>1. queue \in Seq(Path) /\ entries \in [Path -> Entry]
  BY DEF IInv, TypeOK
<1>2. CASE entries[p].state = "Absent"
  <2>1. NewEntry.state = "Queued" /\ NewEntry.image = 0 /\ NewEntry.stamp = 0
    BY DEF NewEntry, Absent
  <2>2. Enqueue([entries EXCEPT ![p] = NewEntry], p)
    BY <1>2 DEF ThumbPrioritize
  <2> QED
    BY <1>2, <2>1, <2>2, PieceTypes, EnqueueStep
<1>3. CASE entries[p].state = "Queued" /\ \E i \in DOMAIN queue : queue[i] = p
  <2>1. entries' = entries
    BY <1>3 DEF ThumbPrioritize
  <2>2. PICK k \in 1..Len(queue) : queue[k] = p /\ queue' = Append(RemoveAt(queue, k), p)
    BY <1>1, <1>3 DEF ThumbPrioritize
  <2> DEFINE rest == RemoveAt(queue, k)
             n == Len(queue)
  <2>3. /\ rest \in Seq(Path) /\ Len(rest) = n - 1
        /\ \A i \in 1..(n - 1) : rest[i] = IF i < k THEN queue[i] ELSE queue[i + 1]
    <3> DEFINE a == SubSeq(queue, 1, k - 1)
               b == SubSeq(queue, k + 1, n)
    <3>1. /\ a \in Seq(Path) /\ Len(a) = k - 1
          /\ \A i \in 1..(k - 1) : a[i] = queue[i]
      BY <1>1
    <3>2. /\ b \in Seq(Path) /\ Len(b) = n - k
          /\ \A i \in 1..(n - k) : b[i] = queue[k + i]
      BY <1>1
    <3>3. rest = a \o b
      BY DEF RemoveAt
    <3> HIDE DEF a, b, rest
    <3>4. /\ rest \in Seq(Path) /\ Len(rest) = (k - 1) + (n - k)
          /\ \A i \in 1..(k - 1) : rest[i] = a[i]
          /\ \A i \in 1..(n - k) : rest[(k - 1) + i] = b[i]
      <4>1. /\ a \o b \in Seq(Path) /\ Len(a \o b) = Len(a) + Len(b)
            /\ \A i \in 1..(Len(a) + Len(b)) :
                 (a \o b)[i] = IF i <= Len(a) THEN a[i] ELSE b[i - Len(a)]
        BY <3>1, <3>2, ConcatProperties
      <4>2. n \in Nat /\ k \in 1..n
        BY <1>1
      <4> QED
        BY <3>1, <3>2, <3>3, <4>1, <4>2
    <3>5. ASSUME NEW i \in 1..(n - 1)
          PROVE  rest[i] = IF i < k THEN queue[i] ELSE queue[i + 1]
      <4>1. CASE i < k
        <5>1. i \in 1..(k - 1)
          BY <4>1, <1>1
        <5> QED
          BY <4>1, <5>1, <3>1, <3>4
      <4>2. CASE ~(i < k)
        <5> DEFINE j == i - k + 1
        <5>1. j \in 1..(n - k) /\ (k - 1) + j = i /\ k + j = i + 1
          BY <4>2, <1>1
        <5> HIDE DEF j
        <5>2. rest[(k - 1) + j] = b[j] /\ b[j] = queue[k + j]
          BY <5>1, <3>2, <3>4
        <5> QED
          BY <4>2, <5>1, <5>2
      <4> QED
        BY <4>1, <4>2
    <3> QED
      BY <1>1, <3>4, <3>5
  <2>4. /\ queue' \in Seq(Path) /\ Len(queue') = n /\ queue'[n] = p
        /\ \A i \in 1..(n - 1) : queue'[i] = IF i < k THEN queue[i] ELSE queue[i + 1]
    BY <1>1, <2>2, <2>3
  <2>5. \A i, j \in 1..n : queue[i] = queue[j] => i = j
    BY <1>1 DEF IInv, Consistent, QueueMatchesEntries
  <2>6. \A i, j \in 1..n : queue'[i] = queue'[j] => i = j
    BY <1>1, <2>2, <2>4, <2>5
  <2>7. ASSUME NEW q \in Path
        PROVE  (\E i \in 1..n : queue'[i] = q) <=> (\E i \in 1..n : queue[i] = q)
    <3>1. ASSUME NEW i \in 1..n PROVE \E j \in 1..n : queue[j] = queue'[i]
      BY <1>1, <2>2, <2>4
    <3>2. ASSUME NEW i \in 1..n PROVE \E j \in 1..n : queue'[j] = queue[i]
      <4>1. CASE i < k
        BY <4>1, <1>1, <2>4
      <4>2. CASE i = k
        BY <4>2, <1>1, <2>2, <2>4
      <4>3. CASE i > k
        <5>1. i - 1 \in 1..(n - 1) /\ ~(i - 1 < k) /\ (i - 1) + 1 = i
          BY <4>3, <1>1
        <5>2. queue'[i - 1] = queue[i]
          BY <5>1, <2>4
        <5> QED
          BY <5>1, <5>2
      <4> QED
        BY <4>1, <4>2, <4>3
    <3> QED
      BY <3>1, <3>2
  <2>8. DOMAIN queue = 1..n /\ DOMAIN queue' = 1..n
    BY <1>1, <2>4
  <2>9. QueueKept
    BY <2>1, <2>4, <2>6, <2>7, <2>8 DEF QueueKept, QueueMatchesEntries, IInv, Consistent
  <2> QED
    BY <1>1, <2>1, <2>9 DEF Gentle
<1>4. CASE ~(entries[p].state = "Absent")
           /\ ~(entries[p].state = "Queued" /\ \E i \in DOMAIN queue : queue[i] = p)
  <2>1. UNCHANGED <<entries, queue>>
    BY <1>4 DEF ThumbPrioritize, cacheVars
  <2> QED
    BY <1>1, <2>1 DEF Gentle, QueueKept, QueueMatchesEntries, IInv, Consistent
<1> QED
  BY <1>2, <1>3, <1>4

LEMMA LookupStep ==
  ASSUME IInv, NEW p \in Path, ThumbLookup(p)
  PROVE  Gentle /\ QueueKept
<1>1. queue \in Seq(Path) /\ entries \in [Path -> Entry] /\ 0 \in 0..Never
  BY LimitsAssumption DEF IInv, TypeOK, Never
<1>2. /\ entries' \in [Path -> Entry]
      /\ \A q \in Path : /\ entries'[q].state = entries[q].state
                         /\ entries'[q].image = entries[q].image
                         /\ entries'[q].stamp = entries[q].stamp
  BY <1>1 DEF ThumbLookup, Entry
<1> QED
  BY <1>1, <1>2 DEF Gentle, QueueKept, QueueMatchesEntries, IInv, Consistent, ThumbLookup

\* A trim keeps the requests of its list, in their order, and the entries
\* being decoded.
LEMMA TrimStep ==
  ASSUME IInv, NEW keep \in SUBSET Path, ThumbTrim(keep)
  PROVE  Gentle /\ QueueKept
<1> DEFINE kept == {i \in DOMAIN queue : queue[i] \in keep}
           backlog == {queue[i] : i \in DOMAIN queue \ kept}
           left == [p \in Path |-> IF p \in backlog /\ entries[p].state = "Queued"
                                     THEN Absent ELSE entries[p]]
<1>1. queue \in Seq(Path) /\ entries \in [Path -> Entry] /\ DOMAIN queue = 1..Len(queue)
  BY DEF IInv, TypeOK
<1>2. /\ \A i, j \in DOMAIN queue : queue[i] = queue[j] => i = j
      /\ \A p \in Path : entries[p].state = "Queued" <=> \E i \in DOMAIN queue : queue[i] = p
  BY DEF IInv, Consistent, QueueMatchesEntries
<1>3. PICK f \in Increasing(kept) : queue' = [k \in DOMAIN f |-> queue[f[k]]]
  BY DEF ThumbTrim
<1> DEFINE n == Cardinality(kept)
<1>4. /\ n \in Nat
      /\ f \in [1..n -> kept]
      /\ \A a, b \in 1..n : a < b => f[a] < f[b]
      /\ \A i \in kept : \E a \in 1..n : f[a] = i
  <2>1. IsFiniteSet(kept)
    <3>1. IsFiniteSet(1..Len(queue))
      BY <1>1, FS_Interval
    <3> QED
      BY <1>1, <3>1, FS_Subset
  <2>2. n \in Nat
    BY <2>1, FS_CardinalityType
  <2>3. f \in [1..n -> kept] /\ \A a, b \in 1..n : a < b => f[a] < f[b]
    BY <1>3 DEF Increasing
  <2>4. f \in Injection(1..n, kept)
    <3>1. ASSUME NEW a \in 1..n, NEW b \in 1..n, a # b PROVE f[a] # f[b]
      <4>1. f[a] \in Int /\ f[b] \in Int
        BY <1>1, <2>3
      <4>2. a < b \/ b < a
        BY <3>1
      <4> QED
        BY <4>1, <4>2, <2>3
    <3> QED
      BY <2>3, <3>1 DEF Injection, IsInjective
  <2>5. Cardinality(1..n) = n /\ IsFiniteSet(1..n)
    BY <2>2, FS_Interval
  <2>6. f \in Surjection(1..n, kept)
    BY <2>1, <2>4, <2>5, FS_Injection
  <2> QED
    BY <2>2, <2>3, <2>6 DEF Surjection
<1> HIDE DEF n
<1>5. /\ queue' \in Seq(Path) /\ DOMAIN queue' = 1..n
      /\ \A a \in 1..n : queue'[a] = queue[f[a]]
  BY <1>1, <1>3, <1>4
<1>6. \A a, b \in 1..n : queue'[a] = queue'[b] => a = b
  <2> SUFFICES ASSUME NEW a \in 1..n, NEW b \in 1..n, queue'[a] = queue'[b] PROVE a = b
    OBVIOUS
  <2>1. f[a] \in DOMAIN queue /\ f[b] \in DOMAIN queue /\ f[a] = f[b]
    BY <1>2, <1>4, <1>5
  <2>2. f[a] \in Int /\ f[b] \in Int
    BY <1>1, <2>1
  <2> QED
    BY <2>1, <2>2, <1>4
<1>7. \A p \in Path : (\E a \in 1..n : queue'[a] = p) <=> p \in keep /\ entries[p].state = "Queued"
  BY <1>2, <1>4, <1>5
<1>8. \A p \in Path : left[p].state = "Queued" <=> p \in keep /\ entries[p].state = "Queued"
  <2> SUFFICES ASSUME NEW p \in Path
               PROVE  left[p].state = "Queued" <=> p \in keep /\ entries[p].state = "Queued"
    OBVIOUS
  <2>1. entries[p].state = "Queued" => (p \in backlog <=> p \notin keep)
    BY <1>2
  <2> QED
    BY <2>1 DEF Absent
<1>9. /\ entries' \in [Path -> Entry]
      /\ \A p \in Path : entries'[p] = entries[p] \/ (entries'[p] = Absent /\ entries[p].state # "Loading")
      /\ \A p \in Path : entries'[p].state = "Queued" <=> p \in keep /\ entries[p].state = "Queued"
  <2>1. \/ entries' = left
        \/ entries' = [p \in Path |-> IF p \in keep \/ left[p].state = "Loading"
                                        THEN left[p] ELSE Absent]
    BY DEF ThumbTrim
  <2>2. /\ left \in [Path -> Entry]
        /\ \A p \in Path : \/ left[p] = entries[p]
                           \/ left[p] = Absent /\ entries[p].state # "Loading"
    <3>1. ASSUME NEW p \in Path
          PROVE  \/ left[p] = entries[p]
                 \/ left[p] = Absent /\ entries[p].state # "Loading"
      <4>1. CASE p \in backlog /\ entries[p].state = "Queued"
        BY <4>1
      <4>2. CASE ~(p \in backlog /\ entries[p].state = "Queued")
        BY <4>2
      <4> QED
        BY <4>1, <4>2
    <3>2. left \in [Path -> Entry]
      BY <1>1, <3>1, PieceTypes
    <3> HIDE DEF left
    <3> QED
      BY <3>1, <3>2
  <2> HIDE DEF left
  <2>3. Absent \in Entry /\ Absent.state = "Absent"
    BY PieceTypes DEF Absent
  <2>4. CASE entries' = left
    BY <1>8, <2>2, <2>4
  <2>5. CASE entries' = [p \in Path |-> IF p \in keep \/ left[p].state = "Loading"
                                        THEN left[p] ELSE Absent]
    <3>1. entries' \in [Path -> Entry]
      BY <2>2, <2>3, <2>5
    <3>2. ASSUME NEW p \in Path
          PROVE  /\ entries'[p] = entries[p] \/ (entries'[p] = Absent /\ entries[p].state # "Loading")
                 /\ entries'[p].state = "Queued" <=> p \in keep /\ entries[p].state = "Queued"
      <4>1. CASE p \in keep \/ left[p].state = "Loading"
        <5>1. entries'[p] = left[p]
          BY <2>5, <4>1
        <5> QED
          BY <1>8, <2>2, <5>1
      <4>2. CASE ~(p \in keep \/ left[p].state = "Loading")
        <5>1. entries'[p] = Absent
          BY <2>5, <4>2
        <5> QED
          BY <2>2, <2>3, <4>2, <5>1
      <4> QED
        BY <4>1, <4>2
    <3> QED
      BY <3>1, <3>2
  <2> QED
    BY <2>1, <2>4, <2>5
<1>10. Gentle
  BY <1>9 DEF Gentle, Absent
<1> QED
  BY <1>5, <1>6, <1>7, <1>9, <1>10 DEF QueueKept, QueueMatchesEntries
-----------------------------------------------------------------------------
\* The steps of the threads.

LEMMA TakeStep == ASSUME IInv, NEW w \in Worker, Take(w) PROVE IInv'
<1> DEFINE p == Last(queue)
           n == Len(queue)
<1>1. /\ queue \in Seq(Path) /\ entries \in [Path -> Entry] /\ worker \in [Worker -> Thread]
      /\ n \in Nat \ {0} /\ p = queue[n] /\ p \in Path /\ entries[p] \in Entry
  BY DEF IInv, TypeOK, Take, Last
<1>2. /\ \A i, j \in 1..n : queue[i] = queue[j] => i = j
      /\ \A q \in Path : entries[q].state = "Queued" <=> \E i \in 1..n : queue[i] = q
  BY <1>1 DEF IInv, Consistent, QueueMatchesEntries
<1>3. entries[p].state = "Queued"
  BY <1>1, <1>2
<1>4. /\ entries' = [entries EXCEPT ![p].state = "Loading"]
      /\ worker' = [worker EXCEPT ![w] =
           [pc |-> "stamp", path |-> p, cached |-> entries[p].image,
            prev |-> entries[p].stamp, stamp |-> 0, image |-> 0]]
      /\ queue' = SubSeq(queue, 1, n - 1)
      /\ worker[w].pc = "idle"
      /\ UNCHANGED <<posted, phase, disk>>
  BY <1>3 DEF Take, Front
<1>5. /\ queue' \in Seq(Path) /\ Len(queue') = n - 1 /\ DOMAIN queue' = 1..(n - 1)
      /\ \A i \in 1..(n - 1) : queue'[i] = queue[i]
  <2>1. n - 1 \in Int /\ \A i \in 1..(n - 1) : queue[i] \in Path
    BY <1>1
  <2> HIDE DEF n
  <2>2. /\ SubSeq(queue, 1, n - 1) \in Seq(Path) /\ Len(SubSeq(queue, 1, n - 1)) = n - 1
        /\ \A i \in 1..(n - 1) : SubSeq(queue, 1, n - 1)[i] = queue[i]
    BY <1>1, <2>1, SubSeqProperties
  <2> QED
    BY <1>4, <2>2
<1> HIDE DEF p, n
<1>6. /\ entries' \in [Path -> Entry]
      /\ \A q \in Path : /\ entries'[q].state = IF q = p THEN "Loading" ELSE entries[q].state
                         /\ entries'[q].image = entries[q].image
                         /\ entries'[q].stamp = entries[q].stamp
  <2> DEFINE e == [entries[p] EXCEPT !.state = "Loading"]
  <2>1. e \in Entry /\ e.state = "Loading" /\ e.image = entries[p].image /\ e.stamp = entries[p].stamp
    BY <1>1 DEF Entry
  <2>2. entries' = [entries EXCEPT ![p] = e]
    BY <1>4
  <2> HIDE DEF e
  <2> QED
    BY <1>1, <2>1, <2>2
<1>7. worker' \in [Worker -> Thread]
  BY <1>1, <1>4, LimitsAssumption DEF Thread, Entry, Busy, Version
<1>8. TypeOK'
  BY <1>4, <1>5, <1>6, <1>7 DEF IInv, TypeOK
<1>9. QueueMatchesEntries'
  <2>1. \A i, j \in 1..(n - 1) : queue'[i] = queue'[j] => i = j
    BY <1>1, <1>2, <1>5
  <2>2. ASSUME NEW q \in Path
        PROVE  entries'[q].state = "Queued" <=> \E i \in 1..(n - 1) : queue'[i] = q
    <3>1. CASE q = p
      <4>1. \A i \in 1..(n - 1) : queue[i] # p
        BY <1>1, <1>2
      <4> QED
        BY <3>1, <4>1, <1>5, <1>6
    <3>2. CASE q # p
      <4>1. (\E i \in 1..n : queue[i] = q) <=> (\E i \in 1..(n - 1) : queue[i] = q)
        BY <3>2, <1>1
      <4> QED
        BY <3>2, <4>1, <1>2, <1>5, <1>6
    <3> QED
      BY <3>1, <3>2
  <2> QED
    BY <1>5, <2>1, <2>2 DEF QueueMatchesEntries
<1>10. OneDecoder'
  <2>1. \A v \in Worker : worker[v].pc \in Busy => worker[v].path # p
    BY <1>1, <1>3 DEF IInv, Consistent, OneDecoder
  <2>2. /\ \A v \in Worker : v # w => worker'[v] = worker[v]
        /\ worker'[w].pc \in Busy /\ worker'[w].path = p /\ worker[w].pc \notin Busy
    BY <1>1, <1>4 DEF Busy
  <2>3. /\ \A q \in Path : entries[q].state = "Loading"
                             <=> \E v \in Worker : worker[v].pc \in Busy /\ worker[v].path = q
        /\ \A u, v \in Worker : worker[u].pc \in Busy /\ worker[v].pc \in Busy
                                  /\ worker[u].path = worker[v].path => u = v
    BY DEF IInv, Consistent, OneDecoder
  <2>4. ASSUME NEW q \in Path
        PROVE  entries'[q].state = "Loading"
                 <=> \E v \in Worker : worker'[v].pc \in Busy /\ worker'[v].path = q
    <3>1. CASE q = p
      BY <3>1, <1>6, <2>2
    <3>2. CASE q # p
      BY <3>2, <1>6, <2>2, <2>3
    <3> QED
      BY <3>1, <3>2
  <2>5. ASSUME NEW u \in Worker, NEW v \in Worker, worker'[u].pc \in Busy,
               worker'[v].pc \in Busy, worker'[u].path = worker'[v].path
        PROVE  u = v
    BY <2>1, <2>2, <2>3, <2>5
  <2> QED
    BY <2>4, <2>5 DEF OneDecoder
<1>11. Sound'
  BY <1>1, <1>4, <1>6 DEF IInv, Sound, ThreadKnows, EntryKnows, Busy
<1> QED
  BY <1>8, <1>9, <1>10, <1>11 DEF IInv, Consistent

\* A thread that moves between two steps of its decode, or between two steps
\* of what follows, leaves the map and the queue alone.
LEMMA ThreadStep ==
  ASSUME IInv, NEW w \in Worker, NEW t \in Thread,
         worker' = [worker EXCEPT ![w] = t],
         \/ worker[w].pc \in Busy /\ t.pc \in Busy /\ t.path = worker[w].path
         \/ worker[w].pc \notin Busy /\ t.pc \notin Busy,
         UNCHANGED <<entries, queue, disk>>,
         ThreadKnows(w)',
         posted' \in BOOLEAN, phase' \in {"running", "stopping", "stopped"}
  PROVE  IInv'
<1>1. worker \in [Worker -> Thread] /\ worker'[w] = t /\ \A v \in Worker : v # w => worker'[v] = worker[v]
  BY DEF IInv, TypeOK
<1>2. TypeOK'
  BY DEF IInv, TypeOK
<1>3. QueueMatchesEntries'
  BY DEF IInv, Consistent, QueueMatchesEntries
<1>4. OneDecoder'
  BY <1>1 DEF IInv, Consistent, OneDecoder
<1>5. ASSUME NEW v \in Worker PROVE ThreadKnows(v)'
  BY <1>1 DEF IInv, Sound, ThreadKnows
<1>6. ASSUME NEW p \in Path PROVE EntryKnows(p)'
  BY DEF IInv, Sound, EntryKnows
<1> QED
  BY <1>2, <1>3, <1>4, <1>5, <1>6 DEF IInv, Consistent, Sound

LEMMA StampStep == ASSUME IInv, NEW w \in Worker, StampFile(w) PROVE IInv'
<1> DEFINE me == worker[w]
           file == disk[me.path]
           stamp == IF file.condition = "gone" THEN 0 ELSE file.version
           unchanged == me.cached # 0 /\ stamp # 0 /\ stamp = me.prev
           t == IF unchanged THEN [me EXCEPT !.pc = "store", !.stamp = stamp, !.image = me.cached]
                             ELSE [me EXCEPT !.pc = "load", !.stamp = stamp, !.cached = 0]
<1>1. /\ me \in Thread /\ me.pc = "stamp" /\ me.path \in Path /\ file \in File
      /\ me.prev <= me.cached /\ me.cached <= file.version
  BY DEF IInv, TypeOK, Sound, ThreadKnows, StampFile, Busy
<1>2. worker' = [worker EXCEPT ![w] = t] /\ UNCHANGED <<entries, queue, posted, phase, disk>>
  BY DEF StampFile
<1>3. stamp \in Version /\ stamp <= file.version
  BY <1>1, LimitsAssumption DEF File, Version
<1> HIDE DEF stamp
<1>4. t \in Thread /\ t.pc \in Busy /\ t.path = me.path
  <2>1. /\ me.cached \in Version /\ 0 \in Version
        /\ "store" \in Busy /\ "load" \in Busy
    BY <1>1, LimitsAssumption DEF Thread, Busy, Version
  <2>2. CASE unchanged
    BY <2>1, <2>2, <1>1, <1>3 DEF Thread
  <2>3. CASE ~unchanged
    BY <2>1, <2>3, <1>1, <1>3 DEF Thread
  <2> QED
    BY <2>2, <2>3
<1>5. \/ t.pc = "store" /\ t.stamp <= t.image /\ t.image <= file.version
      \/ t.pc = "load" /\ t.stamp <= file.version
  BY <1>1, <1>3 DEF Thread
<1>6. worker'[w] = t
  BY <1>2 DEF IInv, TypeOK
<1> HIDE DEF t
<1>7. ThreadKnows(w)'
  BY <1>1, <1>2, <1>4, <1>5, <1>6 DEF ThreadKnows
<1> QED
  BY <1>1, <1>2, <1>4, <1>7, ThreadStep DEF Busy, IInv, TypeOK

LEMMA LoadStep == ASSUME IInv, NEW w \in Worker, LoadFile(w) PROVE IInv'
<1> DEFINE me == worker[w]
           file == disk[me.path]
           t == [me EXCEPT !.pc = "store",
                           !.image = IF file.condition = "ok" THEN file.version ELSE 0]
<1>1. me \in Thread /\ me.pc = "load" /\ me.path \in Path /\ file \in File /\ me.stamp <= file.version
  BY DEF IInv, TypeOK, Sound, ThreadKnows, LoadFile, Busy
<1>2. worker' = [worker EXCEPT ![w] = t] /\ UNCHANGED <<entries, queue, posted, phase, disk>>
  BY DEF LoadFile
<1>3. /\ t \in Thread /\ t.pc = "store" /\ t.path = me.path
      /\ t.image # 0 => t.stamp <= t.image /\ t.image <= file.version
  <2> DEFINE image == IF file.condition = "ok" THEN file.version ELSE 0
  <2>1. image \in Version /\ "store" \in Busy /\ image <= file.version
        /\ (image # 0 => me.stamp <= image)
    BY <1>1, LimitsAssumption DEF Busy, Version, File
  <2>2. t = [me EXCEPT !.pc = "store", !.image = image]
    OBVIOUS
  <2> HIDE DEF image
  <2> QED
    BY <1>1, <2>1, <2>2 DEF Thread
<1>4. worker'[w] = t
  BY <1>2 DEF IInv, TypeOK
<1> HIDE DEF t
<1>5. ThreadKnows(w)'
  BY <1>1, <1>2, <1>3, <1>4 DEF ThreadKnows
<1> QED
  BY <1>1, <1>2, <1>3, <1>5, ThreadStep DEF Busy, IInv, TypeOK

LEMMA SettledEntry ==
  ASSUME NEW e \in Entry, NEW me \in Thread
  PROVE  /\ Settled(e, me) \in Entry
         /\ Settled(e, me).state \in {"Ready", "Failed"}
         /\ IF me.image # 0
              THEN Settled(e, me).image = me.image /\ Settled(e, me).stamp = me.stamp
              ELSE Settled(e, me).image = e.image /\ Settled(e, me).stamp = e.stamp
<1>1. e.attempts + 1 \in Nat /\ RetryDelay * (e.attempts + 1) \in Nat /\ 0 \in 0..Revalidate
  BY LimitsAssumption DEF Entry
<1>2. CASE me.image # 0
  BY <1>1, <1>2 DEF Settled, Entry, Thread
<1>3. CASE me.image = 0
  <2> DEFINE delay == RetryDelay * (e.attempts + 1)
  <2> HIDE DEF delay
  <2>1. delay \in Nat
    BY <1>1 DEF delay
  <2>2. Settled(e, me) = [e EXCEPT !.state = "Failed", !.attempts = e.attempts + 1,
                                   !.age = 0, !.retryIn = delay]
    BY <1>3 DEF Settled, delay
  <2> QED
    BY <1>1, <1>3, <2>1, <2>2 DEF Entry
<1> QED
  BY <1>2, <1>3

LEMMA StoreStep == ASSUME IInv, NEW w \in Worker, StoreResult(w) PROVE IInv'
<1> DEFINE me == worker[w]
           p == me.path
           e == Settled(entries[p], me)
           t == IF me.cached = 0 /\ me.image # 0 THEN [At("post") EXCEPT !.path = p] ELSE At("evict")
<1>1. /\ me \in Thread /\ me.pc = "store" /\ p \in Path /\ entries \in [Path -> Entry]
      /\ worker \in [Worker -> Thread] /\ queue \in Seq(Path)
  BY DEF IInv, TypeOK, Sound, ThreadKnows, StoreResult, Busy
<1>2. /\ entries[p].state = "Loading"
      /\ \A v \in Worker : worker[v].pc \in Busy /\ worker[v].path = p => v = w
  BY <1>1 DEF IInv, Consistent, OneDecoder, Busy
<1>3. /\ entries' = [entries EXCEPT ![p] = e]
      /\ worker' = [worker EXCEPT ![w] = t]
      /\ UNCHANGED <<queue, posted, phase, disk>>
  BY <1>2 DEF StoreResult
<1>4. /\ e \in Entry /\ e.state \in {"Ready", "Failed"}
      /\ e.stamp <= e.image /\ e.image <= disk[p].version
  BY <1>1, SettledEntry DEF IInv, Sound, ThreadKnows, EntryKnows
<1>5. t \in Thread /\ t.pc \notin Busy
  BY <1>1, PieceTypes DEF At, Busy, Thread
<1> HIDE DEF e, t, p
<1>6. /\ entries' \in [Path -> Entry] /\ entries'[p] = e
      /\ \A q \in Path : q # p => entries'[q] = entries[q]
      /\ worker' \in [Worker -> Thread] /\ worker'[w] = t
      /\ \A v \in Worker : v # w => worker'[v] = worker[v]
  BY <1>1, <1>3, <1>4, <1>5
<1>7. TypeOK'
  BY <1>3, <1>6 DEF IInv, TypeOK
<1>8. QueueMatchesEntries'
  BY <1>2, <1>3, <1>4, <1>6 DEF IInv, Consistent, QueueMatchesEntries
<1>9. OneDecoder'
  <2>1. ASSUME NEW q \in Path
        PROVE  entries'[q].state = "Loading"
                 <=> \E v \in Worker : worker'[v].pc \in Busy /\ worker'[v].path = q
    <3>1. CASE q = p
      BY <3>1, <1>2, <1>4, <1>5, <1>6
    <3>2. CASE q # p
      BY <3>2, <1>1, <1>5, <1>6 DEF IInv, Consistent, OneDecoder, p
    <3> QED
      BY <3>1, <3>2
  <2>2. ASSUME NEW u \in Worker, NEW v \in Worker, worker'[u].pc \in Busy,
               worker'[v].pc \in Busy, worker'[u].path = worker'[v].path
        PROVE  u = v
    BY <2>2, <1>5, <1>6 DEF IInv, Consistent, OneDecoder
  <2> QED
    BY <2>1, <2>2 DEF OneDecoder
<1>10. Sound'
  <2>1. ASSUME NEW v \in Worker PROVE ThreadKnows(v)'
    BY <1>3, <1>5, <1>6 DEF IInv, Sound, ThreadKnows, Busy
  <2>2. ASSUME NEW q \in Path PROVE EntryKnows(q)'
    BY <1>3, <1>4, <1>6 DEF IInv, Sound, EntryKnows
  <2> QED
    BY <2>1, <2>2 DEF Sound
<1> QED
  BY <1>7, <1>8, <1>9, <1>10 DEF IInv, Consistent

LEMMA AnnounceStep == ASSUME IInv, NEW w \in Worker, Announce(w) PROVE IInv'
<1>1. At("evict") \in Thread /\ At("evict").pc \notin Busy /\ At("evict").pc = "evict"
  BY PieceTypes DEF At, Busy
<1>2. worker'[w] = At("evict")
  BY DEF IInv, TypeOK, Announce
<1>3. ThreadKnows(w)'
  BY <1>1, <1>2 DEF ThreadKnows, Busy
<1> QED
  BY <1>1, <1>3, ThreadStep DEF IInv, TypeOK, Announce, Busy

LEMMA ExitStep == ASSUME IInv, NEW w \in Worker, Exit(w) PROVE IInv'
<1>1. At("exited") \in Thread /\ At("exited").pc \notin Busy /\ At("exited").pc = "exited"
  BY PieceTypes DEF At, Busy
<1>2. worker'[w] = At("exited")
  BY DEF IInv, TypeOK, Exit
<1>3. ThreadKnows(w)'
  BY <1>1, <1>2 DEF ThreadKnows, Busy
<1> QED
  BY <1>1, <1>3, ThreadStep DEF IInv, TypeOK, Exit, Busy

\* Dropping settled entries and ending a round of the loop.
LEMMA EvictStep == ASSUME IInv, NEW w \in Worker, Evict(w) PROVE IInv'
<1>1. /\ entries \in [Path -> Entry] /\ worker \in [Worker -> Thread] /\ queue \in Seq(Path)
      /\ worker[w].pc = "evict" /\ worker' = [worker EXCEPT ![w] = At("idle")]
      /\ UNCHANGED <<queue, posted, phase, disk>>
  BY DEF IInv, TypeOK, Evict
<1>2. PICK V \in SUBSET Evictable :
        entries' = [p \in Path |-> IF p \in V THEN Absent ELSE entries[p]]
  BY DEF Evict
<1>3. /\ Absent \in Entry /\ Absent.state = "Absent" /\ Absent.image = 0 /\ Absent.stamp = 0
      /\ At("idle") \in Thread /\ At("idle").pc = "idle"
  BY PieceTypes DEF Absent, At
<1>4. /\ entries' \in [Path -> Entry]
      /\ \A p \in Path : \/ entries'[p] = entries[p]
                         \/ entries'[p] = Absent /\ entries[p].state \in {"Ready", "Failed"}
  BY <1>1, <1>2, <1>3 DEF Evictable
<1>5. /\ worker' \in [Worker -> Thread] /\ worker'[w] = At("idle")
      /\ \A v \in Worker : v # w => worker'[v] = worker[v]
  BY <1>1, <1>3
<1>6. TypeOK'
  BY <1>1, <1>4, <1>5 DEF IInv, TypeOK
<1>7. QueueMatchesEntries'
  BY <1>1, <1>3, <1>4 DEF IInv, Consistent, QueueMatchesEntries
<1>8. OneDecoder'
  BY <1>1, <1>3, <1>4, <1>5 DEF IInv, Consistent, OneDecoder, Busy
<1>9. Sound'
  <2>1. ASSUME NEW v \in Worker PROVE ThreadKnows(v)'
    BY <1>1, <1>3, <1>5 DEF IInv, Sound, ThreadKnows, Busy
  <2>2. ASSUME NEW q \in Path PROVE EntryKnows(q)'
    <3>1. EntryKnows(q) /\ disk[q].version >= 0 /\ disk' = disk
      BY <1>1 DEF IInv, TypeOK, Sound, File
    <3>2. CASE entries'[q] = entries[q]
      BY <3>1, <3>2 DEF EntryKnows
    <3>3. CASE entries'[q] = Absent
      BY <1>3, <3>1, <3>3 DEF EntryKnows
    <3> QED
      BY <1>4, <3>2, <3>3
  <2> QED
    BY <2>1, <2>2 DEF Sound
<1> QED
  BY <1>6, <1>7, <1>8, <1>9 DEF IInv, Consistent
-----------------------------------------------------------------------------
\* ThumbStop, the clock and the files.

\* Once every thread has left, no entry is being decoded and all may go.
LEMMA FinishStopStep == ASSUME IInv, FinishStop PROVE IInv'
<1>1. /\ entries' = [p \in Path |-> Absent] /\ queue' = <<>> /\ UNCHANGED <<worker, posted, disk>>
      /\ phase' = "stopped" /\ \A w \in Worker : worker[w].pc = "exited"
  BY DEF FinishStop
<1>2. /\ Absent \in Entry /\ Absent.state = "Absent" /\ Absent.image = 0 /\ Absent.stamp = 0
  BY PieceTypes DEF Absent
<1>3. TypeOK'
  BY <1>1, <1>2 DEF IInv, TypeOK
<1>4. QueueMatchesEntries' /\ OneDecoder'
  BY <1>1, <1>2 DEF QueueMatchesEntries, OneDecoder, Busy
<1>5. Sound'
  BY <1>1, <1>2 DEF IInv, TypeOK, Sound, ThreadKnows, EntryKnows, File
<1> QED
  BY <1>3, <1>4, <1>5 DEF IInv, Consistent

LEMMA TickGentle == ASSUME IInv, Tick PROVE Gentle /\ QueueKept
<1>1. /\ entries \in [Path -> Entry] /\ queue \in Seq(Path)
      /\ UNCHANGED <<queue, worker, posted, phase, disk>>
      /\ entries' = [p \in Path |-> IF entries[p].state = "Absent" THEN Absent ELSE Older(entries[p])]
  BY DEF IInv, TypeOK, Tick
<1>2. ASSUME NEW e \in Entry
      PROVE  /\ Older(e) \in Entry /\ Older(e).state = e.state
             /\ Older(e).image = e.image /\ Older(e).stamp = e.stamp
  <2> DEFINE r == IF e.retryIn = 0 THEN 0 ELSE e.retryIn - 1
             a == IF e.age < Revalidate THEN e.age + 1 ELSE e.age
             i == IF e.idle < MaxIdle THEN e.idle + 1 ELSE e.idle
  <2>1. r \in Nat /\ a \in 0..Revalidate /\ i \in 0..Never
    BY LimitsAssumption DEF Entry, Never
  <2>2. Older(e) = [e EXCEPT !.retryIn = r, !.age = a, !.idle = i]
    BY DEF Older
  <2> HIDE DEF r, a, i
  <2> QED
    BY <2>1, <2>2 DEF Entry
<1>3. /\ Absent \in Entry /\ Absent.state = "Absent" /\ Absent.image = 0 /\ Absent.stamp = 0
  BY PieceTypes DEF Absent
<1>4. /\ entries' \in [Path -> Entry]
      /\ \A p \in Path : /\ entries'[p].state = entries[p].state
                         /\ \/ entries'[p].image = entries[p].image /\ entries'[p].stamp = entries[p].stamp
                            \/ /\ entries'[p].image = 0 /\ entries'[p].stamp = 0
                               /\ entries'[p].state # "Loading"
  BY <1>1, <1>2, <1>3
<1> QED
  BY <1>1, <1>4 DEF Gentle, QueueKept, QueueMatchesEntries, IInv, Consistent

LEMMA TickStep == ASSUME IInv, Tick PROVE IInv'
BY TickGentle, GentleStep DEF Tick, IInv, TypeOK

\* A write only makes the file newer than what the cache knows of it.
LEMMA FilesStep == ASSUME IInv, Files PROVE IInv'
<1>1. PICK p \in Path : WriteFile(p) \/ SetCondition(p)
  BY DEF Files
<1>2. /\ UNCHANGED <<entries, queue, worker, posted, phase>>
      /\ disk \in [Path -> File]
  BY <1>1 DEF WriteFile, SetCondition, IInv, TypeOK
<1>3. disk' \in [Path -> File] /\ \A q \in Path : disk[q].version <= disk'[q].version
  <2>1. CASE WriteFile(p)
    <3> DEFINE f == [version |-> disk[p].version + 1, condition |-> "ok"]
    <3>1. disk' = [disk EXCEPT ![p] = f] /\ disk[p].version < MaxVersion
      BY <2>1 DEF WriteFile
    <3>2. f \in File /\ disk[p].version <= f.version
      BY <1>2, <3>1, LimitsAssumption DEF File
    <3> HIDE DEF f
    <3> QED
      BY <1>2, <3>1, <3>2 DEF File
  <2>2. CASE SetCondition(p)
    <3>1. PICK c \in {"ok", "locked", "gone"} : disk' = [disk EXCEPT ![p].condition = c]
      BY <2>2 DEF SetCondition
    <3> DEFINE f == [disk[p] EXCEPT !.condition = c]
    <3>2. f \in File /\ disk[p].version <= f.version
      BY <1>2 DEF File
    <3>3. disk' = [disk EXCEPT ![p] = f]
      BY <3>1
    <3> HIDE DEF f
    <3> QED
      BY <1>2, <3>2, <3>3 DEF File
  <2> QED
    BY <1>1, <2>1, <2>2
<1>4. TypeOK'
  BY <1>2, <1>3 DEF IInv, TypeOK
<1>5. QueueMatchesEntries' /\ OneDecoder'
  BY <1>2 DEF IInv, Consistent, QueueMatchesEntries, OneDecoder
<1>6. ASSUME NEW w \in Worker PROVE ThreadKnows(w)'
  <2>1. ThreadKnows(w) /\ worker[w] \in Thread /\ worker'[w] = worker[w]
    BY <1>2 DEF IInv, TypeOK, Sound
  <2>2. CASE worker[w].pc \notin Busy
    BY <2>1, <2>2 DEF ThreadKnows, Busy
  <2>3. CASE worker[w].pc \in Busy
    <3> DEFINE q == worker[w].path
    <3>1. q \in Path /\ disk[q].version <= disk'[q].version
      BY <1>3, <2>1, <2>3 DEF ThreadKnows
    <3>2. /\ disk[q].version \in Int /\ disk'[q].version \in Int
          /\ worker[w].cached \in Int /\ worker[w].stamp \in Int /\ worker[w].image \in Int
      BY <1>2, <1>3, <2>1, <3>1, LimitsAssumption DEF File, Thread, Version
    <3> QED
      BY <2>1, <3>1, <3>2 DEF ThreadKnows
  <2> QED
    BY <2>2, <2>3
<1>7. ASSUME NEW q \in Path PROVE EntryKnows(q)'
  <2>1. EntryKnows(q) /\ entries[q] \in Entry /\ disk[q] \in File /\ disk'[q] \in File
    BY <1>2, <1>3 DEF IInv, TypeOK, Sound
  <2> QED
    BY <1>2, <1>3, <2>1, LimitsAssumption DEF EntryKnows, Entry, File, Version
<1> QED
  BY <1>4, <1>5, <1>6, <1>7 DEF IInv, Consistent, Sound
-----------------------------------------------------------------------------
\* Every step of the cache keeps the invariant.
LEMMA StepInv == IInv /\ [Next]_vars => IInv'
<1> SUFFICES ASSUME IInv, [Next]_vars PROVE IInv'
  OBVIOUS
<1>1. CASE Call
  <2>1. UNCHANGED <<worker, posted, phase, disk>>
    BY <1>1 DEF Call
  <2>2. Gentle /\ QueueKept
    <3>1. CASE \E p \in Path : ThumbRequest(p) \/ ThumbPrioritize(p) \/ ThumbLookup(p)
      BY <3>1, RequestStep, PrioritizeStep, LookupStep
    <3>2. CASE \E keep \in SUBSET Path : ThumbTrim(keep)
      BY <3>2, TrimStep
    <3> QED
      BY <1>1, <3>1, <3>2 DEF Call
  <2> QED
    BY <2>1, <2>2, GentleStep DEF IInv, TypeOK
<1>2. CASE \E w \in Worker : Work(w) \/ Exit(w)
  BY <1>2, TakeStep, StampStep, LoadStep, StoreStep, AnnounceStep, EvictStep, ExitStep DEF Work
<1>3. CASE BeginStop
  <2>1. UNCHANGED <<entries, queue, worker, posted, disk>> /\ phase' = "stopping"
    BY <1>3 DEF BeginStop
  <2>2. Gentle /\ QueueKept
    BY <2>1 DEF Gentle, QueueKept, QueueMatchesEntries, IInv, Consistent, TypeOK
  <2> QED
    BY <2>1, <2>2, GentleStep DEF IInv, TypeOK
<1>4. CASE UNCHANGED vars
  <2>1. UNCHANGED <<entries, queue, worker, posted, phase, disk>>
    BY <1>4 DEF vars
  <2>2. Gentle /\ QueueKept
    BY <2>1 DEF Gentle, QueueKept, QueueMatchesEntries, IInv, Consistent, TypeOK
  <2> QED
    BY <2>1, <2>2, GentleStep DEF IInv, TypeOK
<1> QED
  BY <1>1, <1>2, <1>3, <1>4, FinishStopStep, TickStep, FilesStep DEF Next

\* The invariant holds throughout.
THEOREM Invariance == Spec => []IInv
<1>1. Init => IInv
  BY InitInv
<1>2. IInv /\ [Next]_vars => IInv'
  BY StepInv
<1> QED
  BY <1>1, <1>2, PTL DEF Spec

\* The state stays well typed.
THEOREM TypeCorrect == Spec => []TypeOK
<1>1. IInv => TypeOK
  BY DEF IInv
<1> QED
  BY <1>1, Invariance, PTL

\* The queue and the map always agree: no request is lost or decoded twice.
THEOREM QueueMatches == Spec => []QueueMatchesEntries
<1>1. IInv => QueueMatchesEntries
  BY DEF IInv, Consistent
<1> QED
  BY <1>1, Invariance, PTL

\* An entry is being decoded by one thread exactly while it says so.
THEOREM DecodedOnce == Spec => []OneDecoder
<1>1. IInv => OneDecoder
  BY DEF IInv, Consistent
<1> QED
  BY <1>1, Invariance, PTL

\* A tile kept because its stamp has not moved is the file's present contents.
THEOREM StampVouches == Spec => []StampVouchesForTile
<1>1. IInv => StampVouchesForTile
  <2> SUFFICES ASSUME IInv, NEW p \in Path, entries[p].stamp = disk[p].version
               PROVE  entries[p].image = disk[p].version
    BY DEF StampVouchesForTile
  <2>1. entries[p] \in Entry /\ disk[p] \in File /\ EntryKnows(p)
    BY DEF IInv, TypeOK, Sound
  <2> QED
    BY <2>1, LimitsAssumption DEF EntryKnows, Entry, File, Version
<1> QED
  BY <1>1, Invariance, PTL
-----------------------------------------------------------------------------
(* The limits.  They need more than the counts themselves: that what is    *)
(* counted is finite, and what an entry's attempts may be in each state,   *)
(* since a request leaves them standing and a decode adds one.             *)

Storing == {w \in Worker : worker[w].pc \in {"post", "evict"}}
Counted == IsFiniteSet(Present) /\ IsFiniteSet(Storing)
Tries(e) == /\ e.attempts <= MaxAttempts
            /\ e.state \in {"Queued", "Loading"} => e.attempts < MaxAttempts
            /\ e.state = "Ready" => e.attempts = 0
Limits == Counted /\ MemoryBounded /\ \A p \in Path : Tries(entries[p])

\* What may be dropped is part of what is there, and as finite.
LEMMA EvictableCounted ==
  ASSUME Counted
  PROVE  /\ IsFiniteSet(Evictable) /\ Evictable \subseteq Present
         /\ Cardinality(Evictable) \in Nat /\ Cardinality(Present) \in Nat
         /\ Cardinality(Storing) \in Nat
         /\ Cardinality(Evictable) <= Cardinality(Present)
<1>1. Evictable \in SUBSET Present
  BY DEF Evictable, Present
<1> QED
  BY <1>1, FS_Subset, FS_CardinalityType DEF Counted

LEMMA InitLimits == Init => Limits
<1> SUFFICES ASSUME Init PROVE Limits
  OBVIOUS
<1>1. Present = {} /\ Evictable = {} /\ Storing = {}
  BY DEF Init, Present, Evictable, Storing, Absent, At
<1>2. Counted /\ MemoryBounded
  <2>1. Counted /\ Cardinality(Evictable) = 0 /\ Cardinality(Storing) = 0
    BY <1>1, FS_EmptySet DEF Counted
  <2>2. Len(queue) = 0
    BY DEF Init
  <2>3. Cardinality(Evictable) <= EntryCap + Cardinality(Storing)
    BY <2>1, LimitsAssumption
  <2> QED
    BY <2>1, <2>2, <2>3, QueueCapAssumption DEF MemoryBounded, Storing
<1>3. \A p \in Path : Tries(entries[p])
  BY LimitsAssumption DEF Init, Tries, Absent
<1> QED
  BY <1>2, <1>3 DEF Limits

\* A step that makes at most one entry and lets nothing more be dropped.
Modest ==
  /\ Len(queue') <= QueueCap
  /\ \E p : Present' \subseteq Present \cup {p}
  /\ Evictable' \subseteq Evictable
  /\ \A p \in Path : Tries(entries'[p])

LEMMA ModestStep ==
  ASSUME Limits, Modest, Storing' = Storing
  PROVE  Limits'
<1>1. PICK p : Present' \subseteq Present \cup {p}
  BY DEF Modest
<1>2. IsFiniteSet(Present') /\ IsFiniteSet(Storing')
  <2>1. IsFiniteSet(Present \cup {p})
    BY FS_AddElement DEF Limits, Counted
  <2>2. Present' \in SUBSET (Present \cup {p})
    BY <1>1
  <2> QED
    BY <2>1, <2>2, FS_Subset DEF Limits, Counted
<1>3. Cardinality(Evictable') \in Nat /\ Cardinality(Evictable') <= Cardinality(Evictable)
  BY EvictableCounted, FS_Subset, FS_CardinalityType DEF Limits, Modest
<1>4. MemoryBounded'
  <2>1. Cardinality(Evictable) <= EntryCap + Cardinality(Storing)
    BY DEF Limits, MemoryBounded, Storing
  <2>2. Cardinality(Evictable') <= EntryCap + Cardinality(Storing')
    BY <2>1, <1>3, EvictableCounted, LimitsAssumption DEF Limits
  <2> QED
    BY <2>2 DEF Modest, MemoryBounded, Storing
<1> QED
  BY <1>2, <1>4 DEF Limits, Counted, Modest

LEMMA EnqueueModest ==
  ASSUME IInv, Limits, NEW p \in Path, NEW e \in Entry,
         e.state = "Queued", Tries(e),
         Enqueue([entries EXCEPT ![p] = e], p)
  PROVE  Modest
<1>1. queue \in Seq(Path) /\ entries \in [Path -> Entry] /\ Len(queue) <= QueueCap
  BY DEF IInv, TypeOK, Limits, MemoryBounded
<1>2. Len(queue') <= QueueCap
  <2>1. Append(queue, p) \in Seq(Path) /\ Len(Append(queue, p)) = Len(queue) + 1
    BY <1>1
  <2>2. CASE Len(Append(queue, p)) > QueueCap
    <3>1. queue' = Tail(Append(queue, p))
      BY <2>2 DEF Enqueue
    <3>2. Len(queue') = Len(queue)
      BY <2>1, <3>1, <1>1
    <3> QED
      BY <3>2, <1>1
  <2>3. CASE ~(Len(Append(queue, p)) > QueueCap)
    BY <2>1, <2>3, <1>1, QueueCapAssumption DEF Enqueue
  <2> QED
    BY <2>2, <2>3
<1>3. \A q \in Path : entries'[q] \in {entries[q], Absent} \/ (q = p /\ entries'[q] = e)
  BY <1>1 DEF Enqueue
<1>4. Absent.state = "Absent" /\ Tries(Absent)
  BY LimitsAssumption DEF Absent, Tries
<1>5. Present' \subseteq Present \cup {p} /\ Evictable' \subseteq Evictable
  BY <1>3, <1>4 DEF Present, Evictable
<1>6. \A q \in Path : Tries(entries'[q])
  BY <1>3, <1>4 DEF Limits
<1> QED
  BY <1>2, <1>5, <1>6 DEF Modest

\* The calls: what leaves the queue or the map only makes room.
LEMMA CallModest ==
  ASSUME IInv, Limits, Call
  PROVE  Modest
<1>1. /\ queue \in Seq(Path) /\ entries \in [Path -> Entry] /\ Len(queue) <= QueueCap
      /\ \A p \in Path : Tries(entries[p])
  BY DEF IInv, TypeOK, Limits, MemoryBounded
<1>2. /\ NewEntry \in Entry /\ NewEntry.state = "Queued" /\ Tries(NewEntry)
      /\ Absent \in Entry /\ Absent.state = "Absent" /\ Tries(Absent)
  BY PieceTypes, LimitsAssumption DEF NewEntry, Absent, Tries
<1>3. ASSUME queue' = queue \/ Len(queue') <= Len(queue),
             \A p \in Path : \/ entries'[p] = Absent
                             \/ /\ entries'[p].state = entries[p].state
                                /\ entries'[p].attempts = entries[p].attempts
      PROVE  Modest
  <2>1. Present' \subseteq Present \cup {0} /\ Evictable' \subseteq Evictable
    BY <1>2, <1>3 DEF Present, Evictable
  <2>2. \A p \in Path : Tries(entries'[p])
    BY <1>1, <1>2, <1>3 DEF Tries
  <2>3. Len(queue') <= QueueCap
    BY <1>1, <1>3, QueueCapAssumption, LenProperties
  <2> QED
    BY <2>1, <2>2, <2>3 DEF Modest
<1>4. ASSUME NEW p \in Path, ThumbRequest(p) PROVE Modest
  <2> DEFINE e == [entries[p] EXCEPT !.idle = 0]
             q == [e EXCEPT !.state = "Queued"]
  <2>1. /\ e \in Entry /\ e.state = entries[p].state /\ e.attempts = entries[p].attempts
        /\ q \in Entry /\ q.state = "Queued" /\ q.attempts = entries[p].attempts
    <3>1. 0 \in 0..Never /\ entries[p] \in Entry
      BY <1>1, LimitsAssumption DEF Never
    <3>2. e \in Entry /\ e.state = entries[p].state /\ e.attempts = entries[p].attempts
      BY <3>1 DEF Entry
    <3> HIDE DEF e
    <3>3. q \in Entry /\ q.state = "Queued" /\ q.attempts = e.attempts
      BY <3>2 DEF Entry
    <3> QED
      BY <3>2, <3>3
  <2>2. CASE Enqueue([entries EXCEPT ![p] = NewEntry], p)
    BY <1>2, <2>2, EnqueueModest
  <2>3. CASE Due(e) /\ Enqueue([entries EXCEPT ![p] = q], p)
    <3>1. Tries(q)
      BY <1>1, <2>1, <2>3, LimitsAssumption DEF Tries, Due
    <3> QED
      BY <2>1, <2>3, <3>1, EnqueueModest
  <2>4. CASE entries' = [entries EXCEPT ![p] = e] /\ UNCHANGED queue
    <3>1. \A r \in Path : /\ entries'[r].state = entries[r].state
                          /\ entries'[r].attempts = entries[r].attempts
      BY <1>1, <2>1, <2>4
    <3> QED
      BY <1>3, <2>4, <3>1
  <2> QED
    BY <1>4, <2>2, <2>3, <2>4, Zenon DEF ThumbRequest
<1>5. ASSUME NEW p \in Path, ThumbPrioritize(p) PROVE Modest
  <2>1. CASE Enqueue([entries EXCEPT ![p] = NewEntry], p)
    BY <1>2, <2>1, EnqueueModest
  <2>2. CASE UNCHANGED entries /\ \E i \in DOMAIN queue : queue' = Append(RemoveAt(queue, i), p)
    <3>0. DOMAIN queue = 1..Len(queue) /\ Len(queue) \in Nat
      BY <1>1
    <3>1. PICK i \in 1..Len(queue) : queue' = Append(RemoveAt(queue, i), p)
      BY <2>2, <3>0
    <3> DEFINE a == SubSeq(queue, 1, i - 1)
               b == SubSeq(queue, i + 1, Len(queue))
    <3>2. a \in Seq(Path) /\ Len(a) = i - 1 /\ b \in Seq(Path) /\ Len(b) = Len(queue) - i
      BY <1>1
    <3>3. RemoveAt(queue, i) = a \o b
      BY DEF RemoveAt
    <3> HIDE DEF a, b
    <3>4. RemoveAt(queue, i) \in Seq(Path) /\ Len(RemoveAt(queue, i)) = Len(queue) - 1
      <4>1. a \o b \in Seq(Path) /\ Len(a \o b) = Len(a) + Len(b)
        BY <3>2, ConcatProperties
      <4> QED
        BY <3>0, <3>2, <3>3, <4>1
    <3>5. Len(queue') = Len(queue)
      BY <3>1, <3>4, <1>1
    <3> QED
      BY <1>1, <1>3, <2>2, <3>5
  <2>3. CASE UNCHANGED cacheVars
    BY <1>3, <2>3 DEF cacheVars
  <2> QED
    BY <1>5, <2>1, <2>2, <2>3, Zenon DEF ThumbPrioritize
<1>6. ASSUME NEW p \in Path, ThumbLookup(p) PROVE Modest
  <2>1. \A r \in Path : /\ entries'[r].state = entries[r].state
                        /\ entries'[r].attempts = entries[r].attempts
    BY <1>1, <1>6 DEF ThumbLookup, Entry
  <2> QED
    BY <1>3, <1>6, <2>1 DEF ThumbLookup
<1>7. ASSUME NEW keep \in SUBSET Path, ThumbTrim(keep) PROVE Modest
  <2> DEFINE kept == {i \in DOMAIN queue : queue[i] \in keep}
  <2>1. PICK f \in Increasing(kept) : queue' = [k \in DOMAIN f |-> queue[f[k]]]
    BY <1>7 DEF ThumbTrim
  <2>2. Len(queue') <= Len(queue)
    <3>1. IsFiniteSet(1..Len(queue)) /\ Cardinality(1..Len(queue)) = Len(queue)
      BY <1>1, FS_Interval
    <3>2. kept \in SUBSET (1..Len(queue))
      BY <1>1
    <3>3. Cardinality(kept) \in Nat /\ Cardinality(kept) <= Len(queue)
      BY <3>1, <3>2, FS_Subset, FS_CardinalityType
    <3>4. f \in [1..Cardinality(kept) -> kept]
      BY <2>1 DEF Increasing
    <3> HIDE DEF kept
    <3>5. queue' = [k \in 1..Cardinality(kept) |-> queue[f[k]]]
      BY <2>1, <3>4
    <3>6. Len(queue') = Cardinality(kept)
      BY <3>3, <3>5
    <3> QED
      BY <3>3, <3>6
  <2>3. \A p \in Path : entries'[p] \in {entries[p], Absent}
    BY <1>7 DEF ThumbTrim
  <2> QED
    BY <1>3, <2>2, <2>3
<1> QED
  BY <1>4, <1>5, <1>6, <1>7 DEF Call

\* A stored result is one tile more that may be dropped and one thread more
\* that will look whether one must be.
LEMMA StoreLimits == ASSUME IInv, Limits, NEW w \in Worker, StoreResult(w) PROVE Limits'
<1> DEFINE me == worker[w]
           p == me.path
           e == Settled(entries[p], me)
<1>1. /\ me \in Thread /\ me.pc = "store" /\ p \in Path /\ entries \in [Path -> Entry]
      /\ worker \in [Worker -> Thread] /\ queue' = queue
      /\ \A q \in Path : Tries(entries[q])
  BY DEF IInv, TypeOK, Sound, ThreadKnows, StoreResult, Busy, Limits
<1>2. entries[p].state = "Loading"
  BY <1>1 DEF IInv, Consistent, OneDecoder, Busy
<1>3. /\ entries' = [entries EXCEPT ![p] = e]
      /\ \E t : worker' = [worker EXCEPT ![w] = t] /\ t.pc \in {"post", "evict"}
  BY <1>2 DEF StoreResult, At
<1>4. e.state \in {"Ready", "Failed"}
  BY <1>1, SettledEntry
<1>5. Tries(e)
  <2>1. entries[p].attempts \in Nat /\ entries[p].attempts < MaxAttempts
    BY <1>1, <1>2 DEF Tries, Entry
  <2>2. CASE me.image # 0
    <3>1. e.attempts = 0
      BY <2>2, <1>1 DEF Settled, Entry
    <3> QED
      BY <1>4, <3>1, LimitsAssumption DEF Tries
  <2>3. CASE me.image = 0
    <3>1. e.state = "Failed" /\ e.attempts = entries[p].attempts + 1
      BY <2>3, <1>1 DEF Settled, Entry
    <3> QED
      BY <2>1, <3>1, LimitsAssumption DEF Tries
  <2> QED
    BY <2>2, <2>3
<1> HIDE DEF e
<1>6. Present' = Present /\ Evictable' = Evictable \cup {p} /\ p \notin Evictable
  <2>1. \A q \in Path : entries'[q] = IF q = p THEN e ELSE entries[q]
    BY <1>1, <1>3
  <2> QED
    BY <1>1, <1>2, <1>4, <2>1 DEF Present, Evictable
<1>7. Storing' = Storing \cup {w} /\ w \notin Storing
  <2>1. \A v \in Worker : v # w => worker'[v] = worker[v]
    BY <1>1, <1>3
  <2>2. worker'[w].pc \in {"post", "evict"}
    BY <1>1, <1>3
  <2> QED
    BY <1>1, <2>1, <2>2 DEF Storing
<1>8. Counted'
  BY <1>6, <1>7, FS_AddElement DEF Limits, Counted
<1>9. /\ Cardinality(Evictable') = Cardinality(Evictable) + 1
      /\ Cardinality(Storing') = Cardinality(Storing) + 1
  BY <1>6, <1>7, EvictableCounted, FS_AddElement DEF Limits, Counted
<1>10. MemoryBounded'
  <2>1. Cardinality(Evictable) <= EntryCap + Cardinality(Storing) /\ Len(queue) <= QueueCap
    BY DEF Limits, MemoryBounded, Storing
  <2>2. Cardinality(Evictable') <= EntryCap + Cardinality(Storing')
    BY <2>1, <1>9, EvictableCounted, LimitsAssumption DEF Limits
  <2> QED
    BY <1>1, <2>1, <2>2 DEF MemoryBounded, Storing
<1>11. \A q \in Path : Tries(entries'[q])
  BY <1>1, <1>3, <1>5
<1> QED
  BY <1>8, <1>10, <1>11 DEF Limits

\* After an eviction the cap holds: either all of the excess has gone, or all
\* that could go.
LEMMA EvictLimits == ASSUME IInv, Limits, NEW w \in Worker, Evict(w) PROVE Limits'
<1>1. /\ entries \in [Path -> Entry] /\ worker \in [Worker -> Thread]
      /\ worker[w].pc = "evict" /\ worker' = [worker EXCEPT ![w] = At("idle")]
      /\ queue' = queue /\ \A q \in Path : Tries(entries[q])
  BY DEF IInv, TypeOK, Evict, Limits
<1>2. PICK V \in SUBSET Evictable :
        /\ Cardinality(V) = Excess \/ V = Evictable
        /\ entries' = [p \in Path |-> IF p \in V THEN Absent ELSE entries[p]]
  BY DEF Evict
<1>3. Absent.state = "Absent" /\ Tries(Absent) /\ At("idle").pc = "idle"
  BY LimitsAssumption DEF Absent, Tries, At
<1>4. Present' \subseteq Present /\ Evictable' = Evictable \ V
  BY <1>1, <1>2, <1>3 DEF Present, Evictable
<1>5. Storing' = Storing \ {w}
  BY <1>1, <1>3 DEF Storing
<1>6. Counted'
  <2>1. Present' \in SUBSET Present
    BY <1>4
  <2> QED
    BY <1>5, <2>1, FS_Subset, FS_RemoveElement DEF Limits, Counted
<1>7. Cardinality(Evictable') <= EntryCap
  <2>1. /\ IsFiniteSet(V) /\ Cardinality(V) \in Nat
        /\ Cardinality(Evictable \ V) = Cardinality(Evictable) - Cardinality(V)
    <3>1. Evictable \cap V = V /\ IsFiniteSet(Evictable)
      BY <1>2, EvictableCounted DEF Limits
    <3>2. IsFiniteSet(V)
      BY <1>2, <3>1, FS_Subset
    <3>3. Cardinality(Evictable \ V) = Cardinality(Evictable) - Cardinality(Evictable \cap V)
      BY <3>1, FS_Difference
    <3> QED
      BY <3>1, <3>2, <3>3, FS_CardinalityType
  <2>2. CASE V = Evictable
    <3>1. Evictable' = {}
      BY <1>4, <2>2
    <3> QED
      BY <3>1, FS_EmptySet, LimitsAssumption
  <2>3. CASE Cardinality(V) = Excess
    <3>1. Cardinality(Evictable') = Cardinality(Evictable) - Excess
      BY <1>4, <2>1, <2>3
    <3> QED
      BY <3>1, EvictableCounted, LimitsAssumption DEF Limits, Excess
  <2> QED
    BY <1>2, <2>2, <2>3
<1>8. MemoryBounded'
  <2>1. Cardinality(Evictable') \in Nat /\ Cardinality(Storing') \in Nat
    <3>1. IsFiniteSet(Evictable \ V)
      BY EvictableCounted, FS_Difference DEF Limits
    <3> QED
      BY <1>4, <1>6, <3>1, FS_CardinalityType DEF Counted
  <2>2. Cardinality(Evictable') <= EntryCap + Cardinality(Storing')
    BY <1>7, <2>1, LimitsAssumption
  <2> QED
    BY <1>1, <2>2 DEF MemoryBounded, Storing, Limits
<1>9. \A q \in Path : Tries(entries'[q])
  BY <1>1, <1>2, <1>3
<1> QED
  BY <1>6, <1>8, <1>9 DEF Limits

\* Every step of the cache keeps the limits.
LEMMA StepLimits == IInv /\ Limits /\ [Next]_vars => Limits'
<1> SUFFICES ASSUME IInv, Limits, [Next]_vars PROVE Limits'
  OBVIOUS
<1>1. /\ queue \in Seq(Path) /\ entries \in [Path -> Entry] /\ Len(queue) <= QueueCap
      /\ worker \in [Worker -> Thread]
      /\ \A p \in Path : Tries(entries[p])
      /\ Absent.state = "Absent" /\ Tries(Absent)
  BY LimitsAssumption DEF IInv, TypeOK, Limits, MemoryBounded, Absent, Tries
<1>2. ASSUME UNCHANGED <<entries, queue>> PROVE Modest
  BY <1>1, <1>2 DEF Modest, Present, Evictable
<1>3. CASE Call
  <2>1. Storing' = Storing
    BY <1>3 DEF Call, Storing
  <2> QED
    BY <1>3, <2>1, CallModest, ModestStep
<1>4. ASSUME NEW w \in Worker, Take(w) PROVE Limits'
  <2> DEFINE p == Last(queue)
  <2>1. queue # <<>> /\ queue' = Front(queue) /\ worker[w].pc = "idle" /\ p \in Path
    BY <1>1, <1>4 DEF Take, Last
  <2>2. Len(queue') <= QueueCap
    <3> DEFINE n == Len(queue)
    <3>1. n \in Nat \ {0} /\ n - 1 \in Int /\ \A i \in 1..(n - 1) : queue[i] \in Path
      BY <1>1, <2>1
    <3>2. queue' = SubSeq(queue, 1, n - 1) /\ n <= QueueCap
      BY <1>1, <2>1 DEF Front
    <3> HIDE DEF n
    <3>3. Len(SubSeq(queue, 1, n - 1)) = n - 1
      BY <1>1, <3>1, SubSeqProperties
    <3> QED
      BY <3>1, <3>2, <3>3, QueueCapAssumption
  <2>3. \A q \in Path : \/ entries'[q] = entries[q]
                        \/ /\ entries[q].state = "Queued" /\ entries'[q].state = "Loading"
                           /\ entries'[q].attempts = entries[q].attempts
    BY <1>1, <1>4, <2>1 DEF Take, Entry
  <2>4. Present' = Present /\ Evictable' = Evictable /\ \A q \in Path : Tries(entries'[q])
    BY <1>1, <2>3 DEF Present, Evictable, Tries
  <2>5. Storing' = Storing
    BY <1>1, <1>4, <2>1 DEF Take, Storing
  <2> QED
    BY <2>2, <2>4, <2>5, ModestStep DEF Modest
<1>5. ASSUME NEW w \in Worker, StampFile(w) \/ LoadFile(w) \/ Announce(w) \/ Exit(w)
      PROVE  Limits'
  <2>1. UNCHANGED <<entries, queue>>
    BY <1>5 DEF StampFile, LoadFile, Announce, Exit
  <2>2. Storing' = Storing
    <3>1. ASSUME NEW v \in Worker
          PROVE  worker'[v].pc \in {"post", "evict"} <=> worker[v].pc \in {"post", "evict"}
      <4>1. worker[v] \in Thread
        BY <1>1
      <4>2. CASE StampFile(w)
        BY <1>1, <4>1, <4>2 DEF StampFile, Thread
      <4>3. CASE LoadFile(w)
        BY <1>1, <4>1, <4>3 DEF LoadFile, Thread
      <4>4. CASE Announce(w) \/ Exit(w)
        BY <1>1, <4>4 DEF Announce, Exit, At
      <4> QED
        BY <1>5, <4>2, <4>3, <4>4
    <3> QED
      BY <3>1 DEF Storing
  <2> QED
    BY <1>2, <2>1, <2>2, ModestStep
<1>6. CASE BeginStop \/ Files \/ UNCHANGED vars
  <2>1. UNCHANGED <<entries, queue, worker>>
    BY <1>6 DEF BeginStop, Files, WriteFile, SetCondition, vars
  <2>2. Storing' = Storing
    BY <2>1 DEF Storing
  <2> QED
    BY <1>2, <2>1, <2>2, ModestStep
<1>7. CASE FinishStop
  <2>1. Modest
    BY <1>1, <1>7, QueueCapAssumption DEF FinishStop, Modest, Present, Evictable
  <2>2. Storing' = Storing
    BY <1>7 DEF FinishStop, Storing
  <2> QED
    BY <2>1, <2>2, ModestStep
<1>8. CASE Tick
  <2>1. \A q \in Path : \/ entries'[q] = Absent
                        \/ /\ entries'[q].state = entries[q].state
                           /\ entries'[q].attempts = entries[q].attempts
    BY <1>1, <1>8 DEF Tick, Older, Entry
  <2>2. Modest
    BY <1>1, <1>8, <2>1 DEF Tick, Modest, Present, Evictable, Tries
  <2>3. Storing' = Storing
    BY <1>8 DEF Tick, Storing
  <2> QED
    BY <2>2, <2>3, ModestStep
<1> QED
  BY <1>3, <1>4, <1>5, <1>6, <1>7, <1>8, StoreLimits, EvictLimits DEF Next, Work

\* The limits hold throughout, with what they rest on.
THEOREM LimitsKept == Spec => []Limits
<1>1. Init => Limits
  BY InitLimits
<1>2. IInv /\ Limits /\ [Next]_vars => Limits'
  BY StepLimits
<1> QED
  BY <1>1, <1>2, Invariance, PTL DEF Spec

\* The cache outgrows its cap by one tile for each thread about to evict, and
\* the queue never outgrows its own (Enqueue, EvictLocked).
THEOREM MemoryIsBounded == Spec => []MemoryBounded
<1>1. Limits => MemoryBounded
  BY DEF Limits
<1> QED
  BY <1>1, LimitsKept, PTL

\* One step of one entry, as FailuresAddUp has it.
AddsUp(e, next) ==
  e.state # "Absent" =>
    /\ next.state \in {"Queued", "Loading"} => next.attempts >= e.attempts
    /\ next.state = "Failed" =>
         next.attempts >= e.attempts + IF e.state = "Loading" THEN 1 ELSE 0
    /\ e.attempts >= MaxAttempts => next.state \in {"Failed", "Absent"}

\* Leaving the state and the count alone, or forgetting the file, is allowed.
LEMMA Unmoved ==
  ASSUME NEW e \in Entry, Tries(e), NEW next,
         \/ next.state = "Absent"
         \/ next.state = e.state /\ next.attempts = e.attempts
  PROVE  AddsUp(e, next)
<1>1. e.attempts \in Nat /\ e.state \in {"Absent", "Queued", "Loading", "Ready", "Failed"}
  BY DEF Entry
<1>2. e.state \in {"Queued", "Loading"} => ~(e.attempts >= MaxAttempts)
  BY <1>1, LimitsAssumption DEF Tries
<1>3. e.state = "Ready" => ~(e.attempts >= MaxAttempts)
  BY <1>1, LimitsAssumption DEF Tries
<1> QED
  BY <1>1, <1>2, <1>3 DEF AddsUp

\* A request leaves the count standing and takes no file that used it up.
LEMMA CallAdds ==
  ASSUME IInv, Limits, Call, NEW r \in Path
  PROVE  AddsUp(entries[r], entries'[r])
<1>1. /\ entries \in [Path -> Entry] /\ entries[r] \in Entry
      /\ Tries(entries[r]) /\ queue \in Seq(Path)
  BY DEF IInv, TypeOK, Limits
<1>2. Absent.state = "Absent"
  BY DEF Absent
<1>3. ASSUME NEW p \in Path, NEW e \in Entry, e.state = "Queued",
             \/ entries[p].state = "Absent"
             \/ e.attempts = entries[p].attempts /\ e.attempts < MaxAttempts,
             Enqueue([entries EXCEPT ![p] = e], p)
      PROVE  AddsUp(entries[r], entries'[r])
  <2>1. \A q \in Path : entries'[q] \in {entries[q], Absent} \/ (q = p /\ entries'[q] = e)
    BY <1>1, <1>3 DEF Enqueue
  <2>2. CASE entries'[r] \in {entries[r], Absent}
    BY <2>2, <1>1, <1>2, Unmoved
  <2>3. CASE r = p /\ entries'[r] = e
    BY <2>3, <1>1, <1>3, LimitsAssumption DEF AddsUp, Entry
  <2> QED
    BY <2>1, <2>2, <2>3
<1>4. ASSUME NEW p \in Path, ThumbRequest(p)
      PROVE  AddsUp(entries[r], entries'[r])
  <2> DEFINE e == [entries[p] EXCEPT !.idle = 0]
             q == [e EXCEPT !.state = "Queued"]
  <2>1. /\ e \in Entry /\ e.state = entries[p].state /\ e.attempts = entries[p].attempts
        /\ q \in Entry /\ q.state = "Queued" /\ q.attempts = entries[p].attempts
        /\ entries[p].attempts \in Nat
    <3>1. 0 \in 0..Never /\ entries[p] \in Entry
      BY <1>1, LimitsAssumption DEF Never
    <3>2. e \in Entry /\ e.state = entries[p].state /\ e.attempts = entries[p].attempts
      BY <3>1 DEF Entry
    <3> HIDE DEF e
    <3>3. q \in Entry /\ q.state = "Queued" /\ q.attempts = e.attempts
      BY <3>2 DEF Entry
    <3>4. entries[p].attempts \in Nat
      BY <3>1 DEF Entry
    <3> QED
      BY <3>2, <3>3, <3>4
  <2>2. CASE e.state = "Absent" /\ Enqueue([entries EXCEPT ![p] = NewEntry], p)
    <3>1. NewEntry.state = "Queued" /\ NewEntry \in Entry
      BY PieceTypes DEF NewEntry, Absent
    <3>2. entries[p].state = "Absent"
      BY <2>1, <2>2
    <3> HIDE DEF e, q
    <3> QED
      BY <1>3, <2>2, <3>1, <3>2
  <2>3. CASE Due(e) /\ Enqueue([entries EXCEPT ![p] = q], p)
    <3>1. Tries(entries[p])
      BY DEF Limits
    <3>2. q.attempts < MaxAttempts
      BY <2>1, <2>3, <3>1, LimitsAssumption DEF Due, Tries
    <3> HIDE DEF q, e
    <3> QED
      BY <1>3, <2>1, <2>3, <3>2
  <2>4. CASE entries' = [entries EXCEPT ![p] = e]
    <3>1. entries'[r] = entries[r] \/ (r = p /\ entries'[r] = e)
      BY <1>1, <2>4
    <3> HIDE DEF e
    <3> QED
      BY <1>1, <2>1, <3>1, Unmoved
  <2> QED
    BY <1>4, <2>2, <2>3, <2>4 DEF ThumbRequest
<1>5. ASSUME NEW p \in Path, ThumbPrioritize(p)
      PROVE  AddsUp(entries[r], entries'[r])
  <2>1. CASE entries[p].state = "Absent" /\ Enqueue([entries EXCEPT ![p] = NewEntry], p)
    <3>1. NewEntry.state = "Queued" /\ NewEntry \in Entry
      BY PieceTypes DEF NewEntry, Absent
    <3> QED
      BY <1>3, <2>1, <3>1
  <2>2. CASE UNCHANGED entries
    BY <1>1, <2>2, Unmoved
  <2> QED
    BY <1>5, <2>1, <2>2 DEF ThumbPrioritize, cacheVars
<1>6. ASSUME NEW p \in Path, ThumbLookup(p)
      PROVE  AddsUp(entries[r], entries'[r])
  <2>1. /\ entries'[r].state = entries[r].state
        /\ entries'[r].attempts = entries[r].attempts
    BY <1>1, <1>6 DEF ThumbLookup, Entry
  <2> QED
    BY <1>1, <2>1, Unmoved
<1>7. ASSUME NEW keep \in SUBSET Path, ThumbTrim(keep)
      PROVE  AddsUp(entries[r], entries'[r])
  <2>1. entries'[r] \in {entries[r], Absent}
    BY <1>1, <1>7 DEF ThumbTrim
  <2> QED
    BY <1>1, <1>2, <2>1, Unmoved
<1> QED
  BY <1>4, <1>5, <1>6, <1>7 DEF Call

\* While a file is remembered its failures add up, and MaxAttempts of them are
\* the last: nothing but a decoded tile or forgetting the file takes one away.
THEOREM FailuresCounted == Spec => FailuresAddUp
<1>1. ASSUME IInv, Limits, [Next]_vars, NEW r \in Path
      PROVE  AddsUp(entries[r], entries'[r])
  <2>1. /\ entries \in [Path -> Entry] /\ entries[r] \in Entry
        /\ Tries(entries[r]) /\ queue \in Seq(Path) /\ worker \in [Worker -> Thread]
    BY <1>1 DEF IInv, TypeOK, Limits
  <2>2. Absent.state = "Absent"
    BY DEF Absent
  <2>3. ASSUME entries'[r] \in {entries[r], Absent}
        PROVE  AddsUp(entries[r], entries'[r])
    BY <2>1, <2>2, <2>3, Unmoved
  <2>4. CASE Call
    BY <1>1, <2>4, CallAdds
  <2>5. ASSUME NEW w \in Worker, Take(w)
        PROVE  AddsUp(entries[r], entries'[r])
    <3>1. \/ entries'[r] = entries[r]
          \/ /\ entries[r].state = "Queued" /\ entries'[r].state = "Loading"
             /\ entries'[r].attempts = entries[r].attempts
      <4>1. queue # <<>> /\ Last(queue) \in Path
        BY <2>1, <2>5 DEF Take, Last
      <4> QED
        BY <2>1, <2>5, <4>1 DEF Take, Entry
    <3> QED
      BY <2>1, <2>3, <3>1, LimitsAssumption DEF AddsUp, Tries, Entry
  <2>6. ASSUME NEW w \in Worker, StoreResult(w)
        PROVE  AddsUp(entries[r], entries'[r])
    <3> DEFINE me == worker[w]
               e == Settled(entries[me.path], me)
    <3>1. me \in Thread /\ me.path \in Path /\ me.pc = "store"
      BY <1>1, <2>6 DEF IInv, TypeOK, Sound, ThreadKnows, StoreResult, Busy
    <3>2. entries[me.path].state = "Loading"
      BY <1>1, <3>1 DEF IInv, Consistent, OneDecoder, Busy
    <3>3. entries' = [entries EXCEPT ![me.path] = e]
      BY <2>6, <3>2 DEF StoreResult
    <3>4. CASE r = me.path
      <4>1. entries'[r] = Settled(entries[r], me) /\ entries[r].attempts < MaxAttempts
        BY <2>1, <3>2, <3>3, <3>4 DEF Tries
      <4>2. \/ Settled(entries[r], me).state = "Ready"
            \/ /\ Settled(entries[r], me).state = "Failed"
               /\ Settled(entries[r], me).attempts = entries[r].attempts + 1
        BY <2>1 DEF Settled, Entry
      <4> QED
        BY <2>1, <3>2, <3>4, <4>1, <4>2, LimitsAssumption DEF AddsUp, Entry
    <3>5. CASE r # me.path
      BY <2>1, <2>3, <3>3, <3>5
    <3> QED
      BY <3>4, <3>5
  <2>7. ASSUME NEW w \in Worker, StampFile(w) \/ LoadFile(w) \/ Announce(w) \/ Exit(w)
        PROVE  AddsUp(entries[r], entries'[r])
    BY <2>3, <2>7 DEF StampFile, LoadFile, Announce, Exit
  <2>8. ASSUME NEW w \in Worker, Evict(w)
        PROVE  AddsUp(entries[r], entries'[r])
    BY <2>3, <2>8 DEF Evict
  <2>9. CASE BeginStop \/ Files \/ UNCHANGED vars
    BY <2>3, <2>9 DEF BeginStop, Files, WriteFile, SetCondition, vars
  <2>10. CASE FinishStop
    BY <2>3, <2>10 DEF FinishStop
  <2>11. CASE Tick
    <3>1. \/ entries'[r] = Absent
          \/ /\ entries'[r].state = entries[r].state
             /\ entries'[r].attempts = entries[r].attempts
      BY <2>1, <2>11 DEF Tick, Older, Entry
    <3> QED
      BY <2>1, <2>3, <3>1, Unmoved
  <2> QED
    BY <1>1, <2>4, <2>5, <2>6, <2>7, <2>8, <2>9, <2>10, <2>11 DEF Next, Work
<1>2. IInv /\ Limits /\ [Next]_vars =>
        [\A p \in Path :
           LET e == entries[p]
               next == entries'[p]
           IN  e.state # "Absent" =>
                 /\ next.state \in {"Queued", "Loading"} => next.attempts >= e.attempts
                 /\ next.state = "Failed" =>
                      next.attempts >= e.attempts + IF e.state = "Loading" THEN 1 ELSE 0
                 /\ e.attempts >= MaxAttempts => next.state \in {"Failed", "Absent"}]_vars
  BY <1>1 DEF AddsUp
<1> QED
  BY <1>2, Invariance, LimitsKept, PTL DEF Spec, FailuresAddUp
-----------------------------------------------------------------------------
(* The strip in front of the cache.  A tile decoded while no frame is being *)
(* painted is announced, or about to be; one decoded during a frame is      *)
(* drawn by it, unless its place has been passed, and then it is announced. *)

Posting == \E w \in Worker : worker[w].pc = "post"
\* The frame being painted has passed the place of p; between frames all have been.
Passed(p) == cursor = 0 \/ \E k \in 1..Len(Strip) : Strip[k] = p /\ 2 * k < cursor
Painted == ~posted /\ ~Posting
             => \A p \in siblings : Passed(p) /\ entries[p].image # 0 => tile[p] # 0
\* A thread that took a tile along still finds one in the entry.
CachedKept == \A w \in Worker : worker[w].pc \in Busy /\ worker[w].cached # 0
                                  => entries[worker[w].path].image # 0
StripTypes == siblings \subseteq Path /\ cursor \in 0..LastCall /\ tile \in [Path -> Version]
StripInv == IInv /\ CachedKept /\ Painted /\ StripTypes

\* No tile comes into the cache.
NoNewImage == \A p \in Path : entries'[p].image # 0 => entries[p].image # 0

LEMMA BusyThread ==
  ASSUME IInv, NEW w \in Worker, worker[w].pc \in Busy
  PROVE  worker[w].path \in Path /\ entries[worker[w].path].state = "Loading"
BY DEF IInv, Sound, ThreadKnows, Consistent, OneDecoder

LEMMA GentleImages ==
  ASSUME IInv, CachedKept, Gentle, UNCHANGED worker
  PROVE  CachedKept' /\ NoNewImage
<1>1. ASSUME NEW w \in Worker, worker'[w].pc \in Busy /\ worker'[w].cached # 0
      PROVE  entries'[worker'[w].path].image # 0
  BY <1>1, BusyThread DEF CachedKept, Gentle
<1> QED BY <1>1 DEF CachedKept, Gentle, NoNewImage

\* A thread's step brings a tile into the cache only if it goes on to announce
\* it, or finds the one that was there.
LEMMA WorkImages ==
  ASSUME IInv, CachedKept, NEW w \in Worker, Work(w) \/ Exit(w)
  PROVE  /\ CachedKept'
         /\ \/ posted' \/ Posting'
            \/ NoNewImage /\ ~posted /\ ~Posting
<1>1. /\ worker \in [Worker -> Thread] /\ entries \in [Path -> Entry] /\ queue \in Seq(Path)
      /\ posted \in BOOLEAN
  BY DEF IInv, TypeOK
<1>2. ASSUME NEW t, worker' = [worker EXCEPT ![w] = t], t.pc \in Busy => worker[w].pc \in Busy /\
               t.path = worker[w].path /\ (t.cached # 0 => worker[w].cached # 0),
             worker[w].pc # "post", UNCHANGED <<entries, posted>>
      PROVE  CachedKept' /\ NoNewImage /\ (~posted' /\ ~Posting' => ~posted /\ ~Posting)
  <2>1. worker'[w] = t /\ \A v \in Worker : v # w => worker'[v] = worker[v]
    BY <1>1, <1>2
  <2>2. CachedKept'
    BY <1>2, <2>1 DEF CachedKept
  <2>3. Posting => Posting'
    BY <1>2, <2>1 DEF Posting
  <2> QED BY <1>2, <2>2, <2>3 DEF NoNewImage
<1>3. CASE Take(w)
  <2> DEFINE p == Last(queue)
             t == [pc |-> "stamp", path |-> p, cached |-> entries[p].image,
                   prev |-> entries[p].stamp, stamp |-> 0, image |-> 0]
  <2>1. p \in Path /\ worker[w].pc = "idle" /\ posted' = posted
    BY <1>1, <1>3 DEF Take, Last
  <2>2. CASE entries[p].state = "Queued"
    <3>1. worker' = [worker EXCEPT ![w] = t] /\ entries' = [entries EXCEPT ![p].state = "Loading"]
      BY <1>3, <2>2 DEF Take
    <3>2. /\ worker'[w] = t /\ \A v \in Worker : v # w => worker'[v] = worker[v]
          /\ \A q \in Path : entries'[q].image = entries[q].image
      BY <1>1, <3>1 DEF Entry
    <3>3. CachedKept'
      <4>1. ASSUME NEW v \in Worker, worker'[v].pc \in Busy /\ worker'[v].cached # 0
            PROVE  entries'[worker'[v].path].image # 0
        <5>1. CASE v = w
          BY <2>1, <3>2, <4>1, <5>1
        <5>2. CASE v # w
          BY <3>2, <4>1, <5>2, BusyThread DEF CachedKept
        <5> QED BY <5>1, <5>2
      <4> QED BY <4>1 DEF CachedKept
    <3>4. Posting => Posting'
      BY <2>1, <3>2 DEF Posting
    <3> QED BY <1>1, <2>1, <3>2, <3>3, <3>4 DEF NoNewImage
  <2>3. CASE entries[p].state # "Queued"
    <3>1. UNCHANGED <<entries, worker, posted>>
      BY <1>3, <2>3 DEF Take
    <3> QED BY <1>1, <3>1 DEF CachedKept, NoNewImage, Posting
  <2> QED BY <2>2, <2>3
<1>4. CASE StampFile(w)
  <2> DEFINE file == disk[worker[w].path]
             now == IF file.condition = "gone" THEN 0 ELSE file.version
             same == worker[w].cached # 0 /\ now # 0 /\ now = worker[w].prev
             t == IF same THEN [worker[w] EXCEPT !.pc = "store", !.stamp = now, !.image = worker[w].cached]
                          ELSE [worker[w] EXCEPT !.pc = "load", !.stamp = now, !.cached = 0]
  <2>1. worker' = [worker EXCEPT ![w] = t] /\ worker[w].pc = "stamp" /\ UNCHANGED <<entries, posted>>
    BY <1>4 DEF StampFile
  <2>2. t.path = worker[w].path /\ (t.cached # 0 => worker[w].cached # 0) /\ worker[w].pc \in Busy
    BY <1>1, <2>1 DEF Thread, Busy
  <2> HIDE DEF t
  <2> QED BY <1>1, <1>2, <2>1, <2>2
<1>5. CASE LoadFile(w)
  <2> DEFINE file == disk[worker[w].path]
             t == [worker[w] EXCEPT !.pc = "store", !.image = IF file.condition = "ok" THEN file.version ELSE 0]
  <2>1. worker' = [worker EXCEPT ![w] = t] /\ worker[w].pc = "load" /\ UNCHANGED <<entries, posted>>
    BY <1>5 DEF LoadFile
  <2>2. t.path = worker[w].path /\ (t.cached # 0 => worker[w].cached # 0) /\ worker[w].pc \in Busy
    BY <1>1, <2>1 DEF Thread, Busy
  <2> HIDE DEF t
  <2> QED BY <1>1, <1>2, <2>1, <2>2
<1>6. CASE StoreResult(w)
  <2> DEFINE me == worker[w]
             p == me.path
             t == IF me.cached = 0 /\ me.image # 0 THEN [At("post") EXCEPT !.path = p] ELSE At("evict")
             e == Settled(entries[p], me)
  <2>1. me \in Thread /\ me.pc = "store" /\ me.pc \in Busy
    BY <1>1, <1>6 DEF StoreResult, Busy
  <2>2. p \in Path /\ entries[p].state = "Loading"
    BY <2>1, BusyThread
  <2>3. /\ entries' = [entries EXCEPT ![p] = e] /\ worker' = [worker EXCEPT ![w] = t]
        /\ posted' = posted
    BY <1>6, <2>2 DEF StoreResult
  <2>4. t.pc \notin Busy /\ (me.cached = 0 /\ me.image # 0 => t.pc = "post")
    BY DEF At, Busy
  <2>5. IF me.image # 0 THEN e.image = me.image ELSE e.image = entries[p].image
    BY <1>1, <2>1, <2>2, SettledEntry
  <2> HIDE DEF e, t, p, me
  <2>6. /\ worker'[w] = t /\ \A v \in Worker : v # w => worker'[v] = worker[v]
        /\ entries'[p] = e /\ \A q \in Path : q # p => entries'[q] = entries[q]
    BY <1>1, <2>2, <2>3
  <2>7. CachedKept'
    <3>1. ASSUME NEW v \in Worker, worker'[v].pc \in Busy /\ worker'[v].cached # 0
          PROVE  entries'[worker'[v].path].image # 0
      <4>1. v # w /\ worker'[v] = worker[v]
        BY <2>4, <2>6, <3>1
      <4>2. worker[v].path # p /\ worker[v].path \in Path
        BY <2>1, <3>1, <4>1, BusyThread DEF IInv, Consistent, OneDecoder, p, me
      <4> QED BY <2>6, <3>1, <4>1, <4>2 DEF CachedKept
    <3> QED BY <3>1 DEF CachedKept
  <2>8. CASE me.cached = 0 /\ me.image # 0
    BY <2>4, <2>6, <2>7, <2>8 DEF Posting
  <2>9. CASE ~ (me.cached = 0 /\ me.image # 0)
    <3>1. e.image # 0 => entries[p].image # 0
      BY <2>1, <2>5, <2>9 DEF CachedKept, p, me
    <3>2. NoNewImage
      BY <2>6, <3>1 DEF NoNewImage
    <3>3. Posting => Posting'
      BY <2>1, <2>6 DEF Posting, me
    <3> QED BY <1>1, <2>3, <2>7, <3>2, <3>3
  <2> QED BY <2>8, <2>9
<1>7. CASE Announce(w)
  <2>1. posted' /\ worker' = [worker EXCEPT ![w] = At("evict")] /\ UNCHANGED entries
    BY <1>7 DEF Announce
  <2>2. At("evict").pc \notin Busy
    BY DEF At, Busy
  <2>3. CachedKept'
    BY <1>1, <2>1, <2>2 DEF CachedKept
  <2> QED BY <2>1, <2>3
<1>8. CASE Evict(w)
  <2>1. PICK V \in SUBSET Evictable :
          entries' = [p \in Path |-> IF p \in V THEN Absent ELSE entries[p]]
    BY <1>8 DEF Evict
  <2>2. /\ worker' = [worker EXCEPT ![w] = At("idle")] /\ posted' = posted
        /\ worker[w].pc = "evict" /\ At("idle").pc = "idle" /\ Absent.image = 0
    BY <1>8 DEF Evict, At, Absent
  <2>3. worker'[w].pc = "idle" /\ \A v \in Worker : v # w => worker'[v] = worker[v]
    BY <1>1, <2>2
  <2>4. NoNewImage
    BY <2>1, <2>2 DEF NoNewImage
  <2>5. CachedKept'
    <3>1. ASSUME NEW v \in Worker, worker'[v].pc \in Busy /\ worker'[v].cached # 0
          PROVE  entries'[worker'[v].path].image # 0
      <4>1. v # w /\ worker'[v] = worker[v]
        BY <2>3, <3>1 DEF Busy
      <4>2. worker[v].path \in Path \ Evictable
        BY <3>1, <4>1, BusyThread DEF Evictable
      <4> QED BY <2>1, <3>1, <4>1, <4>2 DEF CachedKept
    <3> QED BY <3>1 DEF CachedKept
  <2>6. Posting => Posting'
    BY <2>2, <2>3 DEF Posting
  <2> QED BY <1>1, <2>2, <2>4, <2>5, <2>6
<1>9. CASE Exit(w)
  <2>1. /\ worker' = [worker EXCEPT ![w] = At("exited")] /\ UNCHANGED <<entries, posted>>
        /\ worker[w].pc = "idle" /\ At("exited").pc \notin Busy
    BY <1>9 DEF Exit, At, Busy
  <2> QED BY <1>1, <1>2, <2>1
<1> QED BY <1>3, <1>4, <1>5, <1>6, <1>7, <1>8, <1>9 DEF Work

\* A step of the cache that leaves the strip alone keeps it painted.
LEMMA StillPainted ==
  ASSUME Painted, NoNewImage, UNCHANGED <<siblings, cursor, tile>>,
         ~posted' /\ ~Posting' => ~posted /\ ~Posting, siblings \subseteq Path
  PROVE  Painted'
BY DEF Painted, NoNewImage, Passed

\* What a call to the cache leaves as it was.
LEMMA CallStep ==
  ASSUME IInv, CachedKept, Gentle, QueueKept, UNCHANGED <<worker, phase, disk>>, posted' \in BOOLEAN
  PROVE  IInv' /\ CachedKept' /\ NoNewImage /\ (Posting' <=> Posting)
<1>1. IInv'
  BY GentleStep DEF IInv, TypeOK
<1> QED BY <1>1, GentleImages DEF Posting

LEMMA SameCacheGentle == ASSUME IInv, UNCHANGED cacheVars PROVE Gentle /\ QueueKept
BY DEF cacheVars, Gentle, QueueKept, QueueMatchesEntries, IInv, TypeOK, Consistent

LEMMA StripPlaces ==
  ASSUME NEW p \in Path PROVE \E k \in 1..Len(Strip) : Strip[k] = p
BY StripAssumption DEF ToSet

LEMMA UiStep ==
  ASSUME StripInv, Ui
  PROVE  StripInv'
<1>1. /\ IInv /\ CachedKept /\ Painted /\ siblings \subseteq Path
      /\ cursor \in 0..LastCall /\ tile \in [Path -> Version]
      /\ posted \in BOOLEAN /\ entries \in [Path -> Entry]
  BY DEF StripInv, StripTypes, IInv, TypeOK
<1>2. Len(Strip) \in Nat /\ LastCall = 2 * Len(Strip) + 1
  BY StripAssumption DEF LastCall
<1>3. CASE StartFrame
  <2>1. /\ cursor = 0 /\ cursor' = 1 /\ posted' = FALSE
        /\ UNCHANGED <<entries, queue, worker, phase, disk, siblings, current, tile>>
    BY <1>3 DEF StartFrame, UiFree
  <2>2. IInv' /\ CachedKept'
    BY <1>1, <2>1, SameCacheGentle, CallStep DEF cacheVars
  <2>3. StripTypes'
    BY <1>1, <1>2, <2>1 DEF StripTypes, LastCall
  <2>4. \A p \in Path : ~Passed(p)'
    BY <1>2, <2>1 DEF Passed
  <2> QED BY <1>1, <2>1, <2>2, <2>3, <2>4 DEF StripInv, Painted
<1>4. CASE AskTile
  <2> DEFINE p == Strip[(cursor + 1) \div 2]
  <2>1. /\ cursor \in 1..(LastCall - 1) /\ cursor % 2 = 1 /\ cursor' = cursor + 1
        /\ UNCHANGED <<worker, posted, phase, disk, siblings, current, tile>>
        /\ IF p \in siblings THEN ThumbRequest(p) ELSE UNCHANGED cacheVars
    BY <1>4 DEF AskTile
  <2>2. Gentle /\ QueueKept
    BY <1>1, <2>1, RequestStep, SameCacheGentle
  <2>3. IInv' /\ CachedKept' /\ NoNewImage /\ (Posting' <=> Posting)
    BY <1>1, <2>1, <2>2, CallStep
  <2>4. StripTypes'
    BY <1>1, <1>2, <2>1 DEF StripTypes, LastCall
  <2>5. ASSUME NEW q \in Path, Passed(q)' PROVE Passed(q)
    <3>1. PICK k \in 1..Len(Strip) : Strip[k] = q /\ 2 * k < cursor + 1
      BY <1>1, <2>1, <2>5 DEF Passed
    <3>2. 2 * k < cursor
      BY <1>1, <1>2, <2>1, <3>1
    <3> QED BY <3>1, <3>2 DEF Passed
  <2> QED BY <1>1, <2>1, <2>3, <2>4, <2>5 DEF StripInv, Painted, NoNewImage
<1>5. CASE DrawTile
  <2> DEFINE p == Strip[cursor \div 2]
             draws == p \in siblings /\ tile[p] = 0
  <2>1. /\ cursor \in 1..(LastCall - 1) /\ cursor % 2 = 0 /\ cursor' = cursor + 1
        /\ UNCHANGED <<worker, posted, phase, disk, siblings, current>>
        /\ IF draws THEN tile' = [tile EXCEPT ![p] = entries[p].image] /\ ThumbLookup(p)
                    ELSE UNCHANGED <<tile, entries, queue>>
    BY <1>5 DEF DrawTile
  <2>2. Gentle /\ QueueKept
    BY <1>1, <2>1, LookupStep, SameCacheGentle DEF cacheVars
  <2>3. IInv' /\ CachedKept' /\ NoNewImage /\ (Posting' <=> Posting)
    BY <1>1, <2>1, <2>2, CallStep
  <2>4. draws => entries[p].image \in Version
    BY <1>1 DEF Entry
  <2>5. ASSUME NEW q \in Path, Passed(q)' PROVE Passed(q) \/ q = p
    <3>1. PICK k \in 1..Len(Strip) : Strip[k] = q /\ 2 * k < cursor + 1
      BY <1>1, <2>1, <2>5 DEF Passed
    <3>2. 2 * k < cursor \/ k = cursor \div 2
      BY <1>1, <1>2, <2>1, <3>1
    <3> QED BY <3>1, <3>2 DEF Passed
  <2> HIDE DEF p
  <2>6. tile' \in [Path -> Version] /\ \A q \in Path : q # p => tile'[q] = tile[q]
    BY <1>1, <2>1, <2>4
  <2>7. p \in siblings => (entries[p].image # 0 => tile'[p] # 0)
    BY <1>1, <2>1
  <2>8. StripTypes'
    <3>1. cursor' \in 0..LastCall'
      BY <1>2, <2>1 DEF LastCall
    <3> QED BY <1>1, <2>1, <2>6, <3>1 DEF StripTypes
  <2>9. Painted'
    <3>1. ASSUME ~posted', ~Posting', NEW q \in siblings, Passed(q)', entries'[q].image # 0
          PROVE  tile'[q] # 0
      <4>1. q \in Path /\ entries[q].image # 0
        BY <1>1, <2>3, <3>1 DEF NoNewImage
      <4>2. CASE q = p
        BY <2>7, <3>1, <4>1, <4>2
      <4>3. CASE q # p
        BY <1>1, <2>1, <2>3, <2>5, <2>6, <3>1, <4>1, <4>3 DEF Painted
      <4> QED BY <4>2, <4>3
    <3> QED BY <2>1, <3>1 DEF Painted
  <2> QED BY <2>3, <2>8, <2>9 DEF StripInv
<1>6. CASE EndFrame
  <2>1. /\ cursor = LastCall /\ cursor' = 0
        /\ UNCHANGED <<worker, posted, phase, disk, siblings, current, tile>>
        /\ IF current \in siblings THEN ThumbPrioritize(current) ELSE UNCHANGED cacheVars
    BY <1>6 DEF EndFrame
  <2>2. Gentle /\ QueueKept
    BY <1>1, <2>1, PrioritizeStep, SameCacheGentle
  <2>3. IInv' /\ CachedKept' /\ NoNewImage /\ (Posting' <=> Posting)
    BY <1>1, <2>1, <2>2, CallStep
  <2>4. StripTypes'
    BY <1>1, <1>2, <2>1 DEF StripTypes, LastCall
  <2>5. ASSUME NEW q \in Path PROVE Passed(q)
    <3>1. PICK k \in 1..Len(Strip) : Strip[k] = q
      BY StripPlaces
    <3>2. 2 * k < cursor
      BY <1>2, <2>1, <3>1
    <3> QED BY <3>1, <3>2 DEF Passed
  <2> QED BY <1>1, <2>1, <2>3, <2>4, <2>5 DEF StripInv, Painted, NoNewImage
<1> QED BY <1>3, <1>4, <1>5, <1>6 DEF Ui

LEMMA StripStep == StripInv /\ [StripNext]_stripVars => StripInv'
<1> SUFFICES ASSUME StripInv, [StripNext]_stripVars PROVE StripInv'
  OBVIOUS
<1>1. /\ IInv /\ CachedKept /\ Painted /\ StripTypes
      /\ siblings \subseteq Path /\ posted \in BOOLEAN
  BY DEF StripInv, StripTypes, IInv, TypeOK
<1>2. ASSUME UNCHANGED uiVars PROVE StripTypes' /\ UNCHANGED <<siblings, cursor, tile>>
  BY <1>1, <1>2 DEF uiVars, StripTypes, LastCall
<1>3. CASE UNCHANGED stripVars
  <2>1. UNCHANGED uiVars /\ UNCHANGED cacheVars /\ UNCHANGED <<worker, posted, phase, disk>>
    BY <1>3 DEF stripVars, uiVars, cacheVars
  <2>2. IInv' /\ CachedKept' /\ NoNewImage /\ (Posting' <=> Posting)
    BY <1>1, <2>1, SameCacheGentle, CallStep
  <2> QED BY <1>1, <1>2, <2>1, <2>2, StillPainted DEF StripInv
<1>4. CASE OpenFolder
  <2>1. /\ siblings' \in SUBSET Path /\ ThumbTrim(siblings') /\ posted' = TRUE
        /\ UNCHANGED <<worker, phase, disk, cursor, tile>>
    BY <1>4 DEF OpenFolder
  <2>2. Gentle /\ QueueKept
    BY <1>1, <2>1, TrimStep
  <2>3. IInv' /\ CachedKept'
    BY <1>1, <2>1, <2>2, CallStep
  <2>4. StripTypes'
    BY <1>1, <2>1 DEF StripTypes, LastCall
  <2> QED BY <2>1, <2>3, <2>4 DEF StripInv, Painted
<1>5. CASE ReleaseBitmaps
  <2>1. /\ tile' = NoTiles /\ posted' = TRUE
        /\ UNCHANGED <<entries, queue, worker, phase, disk, siblings, current, cursor>>
    BY <1>5 DEF ReleaseBitmaps
  <2>2. IInv' /\ CachedKept'
    BY <1>1, <2>1, SameCacheGentle, CallStep DEF cacheVars
  <2>3. StripTypes'
    BY <1>1, <2>1, LimitsAssumption DEF StripTypes, LastCall, NoTiles, Version
  <2> QED BY <2>1, <2>2, <2>3 DEF StripInv, Painted
<1>6. CASE \E p \in Path : SmartGalleryAsks(p)
  <2>1. PICK p \in Path : SmartGalleryAsks(p)
    BY <1>6
  <2>2. Gentle /\ QueueKept
    BY <1>1, <2>1, RequestStep, LookupStep DEF SmartGalleryAsks
  <2>3. UNCHANGED <<worker, posted, phase, disk>> /\ UNCHANGED uiVars
    BY <2>1 DEF SmartGalleryAsks, uiVars
  <2>4. IInv' /\ CachedKept' /\ NoNewImage /\ (Posting' <=> Posting)
    BY <1>1, <2>2, <2>3, CallStep
  <2> QED BY <1>1, <1>2, <2>3, <2>4, StillPainted DEF StripInv
<1>7. CASE UNCHANGED uiVars /\ (BeginStop \/ Files)
  <2>1. UNCHANGED <<entries, worker, posted>>
    BY <1>7 DEF BeginStop, Files, WriteFile, SetCondition
  <2>2. IInv'
    BY <1>1, <1>7, StepInv DEF Next
  <2>3. CachedKept' /\ NoNewImage /\ (Posting' <=> Posting)
    BY <1>1, <2>1 DEF CachedKept, NoNewImage, Posting
  <2> QED BY <1>1, <1>2, <1>7, <2>1, <2>2, <2>3, StillPainted DEF StripInv
<1>8. CASE UNCHANGED uiVars /\ Tick
  <2>1. UNCHANGED <<worker, posted, phase, disk>> /\ Gentle /\ QueueKept
    BY <1>1, <1>8, TickGentle DEF Tick
  <2>2. IInv' /\ CachedKept' /\ NoNewImage /\ (Posting' <=> Posting)
    BY <1>1, <2>1, CallStep
  <2> QED BY <1>1, <1>2, <1>8, <2>1, <2>2, StillPainted DEF StripInv
<1>9. CASE UNCHANGED uiVars /\ FinishStop
  <2>1. /\ entries' = [p \in Path |-> Absent] /\ UNCHANGED <<worker, posted>>
        /\ \A w \in Worker : worker[w].pc = "exited"
    BY <1>9 DEF FinishStop
  <2>2. CachedKept' /\ NoNewImage /\ (Posting' <=> Posting)
    BY <2>1 DEF CachedKept, NoNewImage, Posting, Busy, Absent
  <2> QED BY <1>1, <1>2, <1>9, <2>1, <2>2, FinishStopStep, StillPainted DEF StripInv
<1>10. CASE UNCHANGED uiVars /\ \E w \in Worker : Work(w) \/ Exit(w)
  <2>1. IInv'
    BY <1>1, <1>10, StepInv DEF Next
  <2>2. CachedKept' /\ (posted' \/ Posting' \/ (NoNewImage /\ ~posted /\ ~Posting))
    BY <1>1, <1>10, WorkImages
  <2>3. CASE posted' \/ Posting'
    BY <1>2, <1>10, <2>1, <2>2, <2>3 DEF StripInv, Painted
  <2>4. CASE NoNewImage /\ ~posted /\ ~Posting
    BY <1>1, <1>2, <1>10, <2>1, <2>2, <2>4, StillPainted DEF StripInv
  <2> QED BY <2>2, <2>3, <2>4
<1> QED BY <1>3, <1>4, <1>5, <1>6, <1>7, <1>8, <1>9, <1>10, UiStep DEF StripNext

LEMMA StripInvariance == StripSpec => []StripInv
<1>1. StripInit => StripInv
  <2> SUFFICES ASSUME StripInit PROVE StripInv
    OBVIOUS
  <2>1. IInv
    BY InitInv DEF StripInit
  <2>2. entries = [p \in Path |-> Absent] /\ worker = [w \in Worker |-> At("idle")]
    BY DEF StripInit, Init
  <2>3. Absent.image = 0 /\ At("idle").pc = "idle"
    BY DEF Absent, At
  <2>4. CachedKept /\ Painted
    BY <2>2, <2>3 DEF CachedKept, Painted, Busy, StripInit
  <2>5. StripTypes
    BY StripAssumption, LimitsAssumption DEF StripTypes, StripInit, LastCall, NoTiles, Version
  <2> QED BY <2>1, <2>4, <2>5 DEF StripInv
<1> QED BY <1>1, StripStep, PTL DEF StripSpec

\* Whatever falls between the calls of a frame, no tile that was decoded stays
\* off the strip once nothing is due (PostMessage in Run, WM_PAINT, the calls
\* around ThumbTrim that ask for a repaint).
THEOREM PaintedInTheEnd == StripSpec => []DecodedIsPainted
<1>1. StripInv => DecodedIsPainted
  BY DEF StripInv, Painted, Passed, Posting, DecodedIsPainted
<1> QED BY <1>1, StripInvariance, PTL

\* In front of the strip, too, the cache agrees with itself and vouches for
\* what it shows.
THEOREM CacheBehindStrip == StripSpec => [](QueueMatchesEntries /\ OneDecoder)
<1>1. StripInv => QueueMatchesEntries /\ OneDecoder
  BY DEF StripInv, IInv, Consistent
<1> QED BY <1>1, StripInvariance, PTL
=============================================================================
