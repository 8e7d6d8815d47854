------------------------- MODULE SmartGalleryProofs -------------------------
(***************************************************************************)
(* For any number of photographs, stamps, models, choices and starts: the  *)
(* user's word is kept, and the worker forgets nothing the review waits    *)
(* for.                                                                    *)
(*                                                                         *)
(* ChoiceIsKept speaks of the time after the store was read; until then    *)
(* the choice is what reading the store will make of it, and nothing else  *)
(* is being saved, because no model has been opened (LoadShape).           *)
(* UndecidedIsQueued rests on the two tables of requests agreeing as far   *)
(* as it needs: what `queued` holds back is in the queue (QueueShape), and *)
(* on the request that follows the inventory being for the same listing    *)
(* (ReviewShape).                                                          *)
(***************************************************************************)
EXTENDS SmartGallery, FiniteSetTheorems, SequenceTheorems, TLAPS

QueueShape == \A p \in queued : InQueue(p)
ReviewShape ==
  /\ \A p \in reviewPending : reviewItems[p] # 0
  /\ inventory # None => inventory = reviewItems
LoadShape ==
  pc = "load" =>
    /\ activeIdentity = NoModel /\ saving = None /\ ui \in {"free", "stop"}
    /\ \A p \in Photo :
         Known(IF records[p] = None THEN store[p] ELSE records[p]).choice = choice[p]
    /\ dirty \/ records = NoRecords

\* The worker's hand is empty unless it is judging.
HandShape == pc \notin {"look", "pixels", "judge"} => hand = None

IInv == /\ TypeOK /\ QueueShape /\ HandShape /\ ReviewShape /\ LoadShape
        /\ ChoiceIsKept /\ UndecidedIsQueued
-----------------------------------------------------------------------------
(* Records and the queue.                                                  *)

\* A photograph without a record has the empty one.
LEMMA UnknownIsRecord == Unknown \in Record
BY SmartAssumption DEF Unknown, Record, Identity, Choices

LEMMA KnownIsRecord ==
  ASSUME NEW r \in Record \cup {None}
  PROVE  Known(r) \in Record
BY UnknownIsRecord DEF Known

LEMMA NoneIsNothing ==
  /\ None \notin Record /\ None \notin Item /\ None \notin Listing
  /\ None \notin Snapshot
BY SmartAssumption

LEMMA NoRecordsAreRecords == NoRecords \in Records
BY DEF NoRecords, Records

\* Appending requests: nothing leaves the queue, and what was asked is in it.
LEMMA Requested ==
  ASSUME queue \in Seq(Item), queued \subseteq Photo, QueueShape,
         NEW listing \in Listing, SmartRequest(listing)
  PROVE  /\ queue' \in Seq(Item) /\ queued' \subseteq Photo /\ QueueShape'
         /\ \A p \in Photo : InQueue(p) => InQueue(p)'
         /\ \A p \in Photo : listing[p] # 0 /\ ~Known(records[p]).judged => InQueue(p)'
<1>1. PICK tiles \in SUBSET Photo :
        LET asked == {p \in Photo : /\ listing[p] # 0 /\ p \notin queued
                                    /\ ~Stands(p, listing[p], tiles)}
        IN  /\ queued' = queued \cup asked
            /\ \E order \in Orders(asked) :
                 queue' = queue \o [i \in DOMAIN order |->
                                      [photo |-> order[i], stamp |-> listing[order[i]]]]
  BY DEF SmartRequest
<1> DEFINE asked == {p \in Photo : /\ listing[p] # 0 /\ p \notin queued
                                   /\ ~Stands(p, listing[p], tiles)}
<1>2. queued' = queued \cup asked
  BY <1>1
<1>3. PICK order \in Orders(asked) :
        queue' = queue \o [i \in DOMAIN order |->
                             [photo |-> order[i], stamp |-> listing[order[i]]]]
  BY <1>1
<1>4. asked \subseteq Photo /\ \A p \in asked : listing[p] # 0 /\ p \notin queued
  OBVIOUS
<1>5. \A p \in Photo : listing[p] # 0 /\ ~Known(records[p]).judged /\ p \notin queued
        => p \in asked
  BY DEF Stands, Current
<1> HIDE DEF asked
<1> DEFINE n == Cardinality(asked)
<1>6. n \in Nat
  BY <1>4, SmartAssumption, FS_Subset, FS_CardinalityType
<1>7. order \in [1..n -> asked] /\ \A p \in asked : \E i \in 1..n : order[i] = p
  BY <1>3 DEF Orders
<1> HIDE DEF n
<1> DEFINE more == [i \in DOMAIN order |->
                      [photo |-> order[i], stamp |-> listing[order[i]]]]
<1>8. more = [i \in 1..n |-> [photo |-> order[i], stamp |-> listing[order[i]]]]
  BY <1>7
<1>9. \A i \in 1..n : /\ [photo |-> order[i], stamp |-> listing[order[i]]] \in Item
                      /\ more[i].photo = order[i]
  <2> SUFFICES ASSUME NEW i \in 1..n
               PROVE  /\ [photo |-> order[i], stamp |-> listing[order[i]]] \in Item
                      /\ more[i].photo = order[i]
    OBVIOUS
  <2>1. order[i] \in Photo /\ listing[order[i]] # 0
    BY <1>4, <1>7
  <2>2. listing[order[i]] \in Stamp
    BY <2>1, SmartAssumption DEF Listing, Stamp
  <2> QED BY <1>8, <2>1, <2>2 DEF Item
<1>10. more \in Seq(Item) /\ Len(more) = n
  <2>1. \A i \in 1..n : more[i] \in Item
    BY <1>8, <1>9
  <2>2. more \in Seq(Item) /\ Len(more) = n
    <3> DEFINE f(i) == [photo |-> order[i], stamp |-> listing[order[i]]]
    <3>1. more = [i \in 1..n |-> f(i)]
      BY <1>8
    <3>2. \A i \in 1..n : f(i) \in Item
      BY <1>9
    <3> HIDE DEF more, f
    <3> QED BY <1>6, <3>1, <3>2
  <2> QED BY <2>2
<1>11. queue' = queue \o more
  BY <1>3
<1> HIDE DEF more
<1>12. /\ queue' \in Seq(Item) /\ Len(queue') = Len(queue) + n
       /\ \A i \in 1..Len(queue) : queue'[i] = queue[i]
       /\ \A i \in 1..n : queue'[Len(queue) + i] = more[i]
  <2> DEFINE k == Len(queue)
  <2>1. k \in Nat
    OBVIOUS
  <2>2. /\ queue' \in Seq(Item) /\ Len(queue') = k + n
        /\ \A i \in 1..k + n : queue'[i] = IF i <= k THEN queue[i] ELSE more[i - k]
    BY <1>10, <1>11, ConcatProperties
  <2> HIDE DEF k
  <2>3. \A i \in 1..k : queue'[i] = queue[i]
    BY <1>6, <2>1, <2>2
  <2>4. \A i \in 1..n : k + i \in 1..k + n /\ ~(k + i <= k) /\ k + i - k = i
    BY <1>6, <2>1
  <2>5. \A i \in 1..n : queue'[k + i] = more[i]
    <3> SUFFICES ASSUME NEW i \in 1..n PROVE queue'[k + i] = more[i]
      OBVIOUS
    <3>1. queue'[k + i] = IF k + i <= k THEN queue[k + i] ELSE more[k + i - k]
      <4>1. k + i \in 1..k + n
        BY <2>4
      <4> QED BY <1>6, <2>1, <2>2, <4>1
    <3>2. ~(k + i <= k) /\ k + i - k = i
      BY <2>4
    <3>3. queue'[k + i] = more[k + i - k]
      BY <3>1, <3>2, Zenon
    <3> QED BY <3>2, <3>3, Zenon
  <2> QED BY <2>2, <2>3, <2>5 DEF k
<1>13. \A p \in Photo : InQueue(p) => InQueue(p)'
  BY <1>6, <1>12 DEF InQueue
<1>14. \A p \in asked : InQueue(p)'
  <2> SUFFICES ASSUME NEW p \in asked PROVE InQueue(p)'
    OBVIOUS
  <2>1. PICK i \in 1..n : order[i] = p
    BY <1>7
  <2>2. Len(queue) + i \in 1..Len(queue') /\ queue'[Len(queue) + i].photo = p
    <3>1. Len(queue) \in Nat
      OBVIOUS
    <3>2. queue'[Len(queue) + i] = more[i] /\ more[i].photo = p
      BY <1>9, <1>12, <2>1
    <3> QED BY <1>6, <1>12, <3>1, <3>2
  <2> QED BY <2>2 DEF InQueue
<1>15. QueueShape'
  BY <1>2, <1>13, <1>14 DEF QueueShape
<1>16. ASSUME NEW p \in Photo, listing[p] # 0, ~Known(records[p]).judged
       PROVE  InQueue(p)'
  BY <1>5, <1>13, <1>14, <1>16 DEF QueueShape
<1> QED BY <1>2, <1>4, <1>12, <1>13, <1>15, <1>16

\* Putting a photograph back: the same of one.
LEMMA PutAtFront ==
  ASSUME queue \in Seq(Item), queued \subseteq Photo, QueueShape,
         NEW p \in Photo, NEW s \in Stamp, RequeueFront(p, s)
  PROVE  /\ queue' \in Seq(Item) /\ queued' \subseteq Photo /\ QueueShape'
         /\ \A q \in Photo : InQueue(q) => InQueue(q)'
         /\ InQueue(p)'
<1>1. queued' = queued \cup {p}
  BY DEF RequeueFront
<1>2. CASE p \in queued
  BY <1>1, <1>2 DEF RequeueFront, QueueShape, InQueue
<1>3. CASE p \notin queued
  <2> DEFINE item == [photo |-> p, stamp |-> s]
  <2>1. item \in Item /\ item.photo = p
    BY DEF Item
  <2>2. queue' = <<item>> \o queue
    BY <1>3 DEF RequeueFront
  <2> HIDE DEF item
  <2>3. /\ queue' \in Seq(Item) /\ Len(queue') = Len(queue) + 1 /\ queue'[1] = item
        /\ \A i \in 1..Len(queue) : queue'[i + 1] = queue[i]
    BY <2>1, <2>2
  <2>4. \A q \in Photo : InQueue(q) => InQueue(q)'
    <3> SUFFICES ASSUME NEW q \in Photo, InQueue(q) PROVE InQueue(q)'
      OBVIOUS
    <3>1. PICK i \in 1..Len(queue) : queue[i].photo = q
      BY DEF InQueue
    <3>2. i + 1 \in 1..Len(queue') /\ queue'[i + 1].photo = q
      BY <2>3, <3>1
    <3> QED BY <3>2 DEF InQueue
  <2>5. InQueue(p)'
    BY <2>1, <2>3 DEF InQueue
  <2> QED BY <1>1, <2>3, <2>4, <2>5 DEF QueueShape
<1> QED BY <1>2, <1>3
-----------------------------------------------------------------------------
(* Each action keeps the invariant. *)

\* The store is read: what was chosen before goes before it.
LEMMA LoadKeeps ==
  ASSUME IInv, Load
  PROVE  IInv'
<1> USE DEF Load, review, identities, disk, user
<1>1. TypeOK'
  <2>1. records' \in Records
    BY DEF IInv, TypeOK, Records
  <2>2. pc' \in {"open"}
    OBVIOUS
  <2> QED BY <2>1, <2>2 DEF IInv, TypeOK
<1>2. QueueShape'
  BY DEF IInv, QueueShape, InQueue
<1>3. ReviewShape'
  BY DEF IInv, ReviewShape
<1>4. LoadShape'
  BY DEF IInv, LoadShape
<1>5. ChoiceIsKept'
  <2>1. \A p \in Photo : Known(records'[p]).choice = choice'[p]
    BY DEF IInv, LoadShape
  <2>2. saving' = None /\ store' = store /\ dirty' = dirty
    BY DEF IInv, LoadShape
  <2>3. records = NoRecords => records' = store
    <3>1. records = NoRecords => \A p \in Photo : records[p] = None
      BY DEF NoRecords
    <3>2. store = [p \in Photo |-> store[p]]
      BY DEF IInv, TypeOK, Records
    <3> QED BY <3>1, <3>2
  <2>4. dirty \/ records = NoRecords
    BY DEF IInv, LoadShape
  <2> QED BY <2>1, <2>2, <2>3, <2>4 DEF ChoiceIsKept
<1>6. UndecidedIsQueued'
  <2>1. \A p \in Photo : Known(records[p]).judged => Known(records'[p]).judged
    BY DEF Known, Unknown
  <2>2. /\ reviewPending' \subseteq Photo /\ Serving' = Serving
        /\ reviewPending' = reviewPending /\ queue' = queue /\ hand' = hand
        /\ inventory' = inventory
    BY DEF IInv, TypeOK, Serving
  <2> QED BY <2>1, <2>2 DEF IInv, UndecidedIsQueued, InQueue, InHand
<1>7. HandShape'
  BY DEF IInv, HandShape
<1> QED BY <1>1, <1>2, <1>3, <1>4, <1>5, <1>6, <1>7 DEF IInv

\* No choice and no request depends on whether the model opens.
LEMMA OpenModelKeeps ==
  ASSUME IInv, OpenModel
  PROVE  IInv'
<1> USE DEF OpenModel, review, identities, disk, user
<1>1. TypeOK'
  <2>1. model' \in Identity /\ activeIdentity' \in Identity
    BY DEF IInv, TypeOK, Identity
  <2>2. pc' \in {"wait"}
    OBVIOUS
  <2> QED BY <2>1, <2>2 DEF IInv, TypeOK
<1>2. QueueShape'
  BY DEF IInv, QueueShape, InQueue
<1>3. ReviewShape'
  BY DEF IInv, ReviewShape
<1>4. LoadShape'
  BY DEF IInv, LoadShape
<1>5. ChoiceIsKept'
  BY DEF IInv, ChoiceIsKept
<1>6. UndecidedIsQueued'
  BY DEF IInv, UndecidedIsQueued, InQueue, InHand, Serving
<1>7. HandShape'
  BY DEF IInv, HandShape
<1> QED BY <1>1, <1>2, <1>3, <1>4, <1>5, <1>6, <1>7 DEF IInv

\* A request leaves both tables at once and is in hand.
LEMMA TakeKeeps ==
  ASSUME IInv, Take
  PROVE  IInv'
<1> USE DEF Take, review, identities, disk, user
<1>a. queue \in Seq(Item) /\ queue # <<>>
  BY DEF IInv, TypeOK
<1>b. /\ hand' \in Item /\ queue' \in Seq(Item) /\ hand' = queue[1]
      /\ Len(queue) \in Nat /\ Len(queue') = Len(queue) - 1
      /\ \A i \in 1..Len(queue') : queue'[i] = queue[i + 1]
  BY <1>a
<1>c. \A p \in Photo : InQueue(p) => InQueue(p)' \/ hand'.photo = p
  <2> SUFFICES ASSUME NEW p \in Photo, NEW i \in 1..Len(queue), queue[i].photo = p,
                      hand'.photo # p
               PROVE  InQueue(p)'
    BY DEF InQueue
  <2>1. i # 1
    BY <1>b
  <2>2. i - 1 \in 1..Len(queue') /\ i - 1 + 1 = i
    BY <1>b, <2>1
  <2>3. queue'[i - 1].photo = p
    BY <1>b, <2>2
  <2> QED BY <2>2, <2>3 DEF InQueue
<1>1. TypeOK'
  <2>1. pc' \in {"look"} /\ queued' \subseteq Photo /\ hand' # None
    BY <1>b, NoneIsNothing DEF IInv, TypeOK
  <2> QED BY <1>b, <2>1 DEF IInv, TypeOK
<1>2. QueueShape'
  <2>1. \A p \in queued' : p \in queued /\ p \in Photo /\ p # hand'.photo
    BY DEF IInv, TypeOK
  <2> QED BY <1>c, <2>1 DEF IInv, QueueShape
<1>3. ReviewShape'
  BY DEF IInv, ReviewShape
<1>4. LoadShape'
  BY DEF IInv, LoadShape
<1>5. ChoiceIsKept'
  <2>1. pc # "load" /\ pc' # "load"
    BY DEF Idle
  <2> QED BY <2>1 DEF IInv, ChoiceIsKept
<1>6. UndecidedIsQueued'
  <2>1. \A p \in Photo : InHand(p)' <=> hand'.photo = p
    BY <1>b, NoneIsNothing DEF InHand
  <2>2. hand = None
    BY DEF IInv, HandShape, Idle
  <2>3. reviewPending' \subseteq Photo
    BY DEF IInv, TypeOK
  <2> QED BY <1>c, <2>1, <2>2, <2>3 DEF IInv, UndecidedIsQueued, InHand, Serving
<1>7. HandShape'
  BY DEF IInv, HandShape
<1> QED BY <1>1, <1>2, <1>3, <1>4, <1>5, <1>6, <1>7 DEF IInv

LEMMA SaveOnlyKeeps ==
  ASSUME IInv, SaveOnly
  PROVE  IInv'
<1> USE DEF SaveOnly, Idle, review, identities, disk, user
<1>1. TypeOK'
  BY DEF IInv, TypeOK
<1>2. QueueShape'
  BY DEF IInv, QueueShape, InQueue
<1>3. ReviewShape'
  BY DEF IInv, ReviewShape
<1>4. LoadShape'
  BY DEF IInv, LoadShape
<1>5. ChoiceIsKept'
  BY DEF IInv, ChoiceIsKept
<1>6. UndecidedIsQueued'
  BY DEF IInv, UndecidedIsQueued, InQueue, InHand, Serving
<1>7. HandShape'
  BY DEF IInv, HandShape
<1> QED BY <1>1, <1>2, <1>3, <1>4, <1>5, <1>6, <1>7 DEF IInv

\* What stands has been judged, and may leave the hand.
LEMMA LookKeeps ==
  ASSUME IInv, Look
  PROVE  IInv'
<1> USE DEF Look, review, identities, disk, user
<1>1. TypeOK'
  BY DEF IInv, TypeOK
<1>2. QueueShape'
  BY DEF IInv, QueueShape, InQueue
<1>3. ReviewShape'
  BY DEF IInv, ReviewShape
<1>4. LoadShape'
  BY DEF IInv, LoadShape
<1>5. ChoiceIsKept'
  BY DEF IInv, ChoiceIsKept
<1>6. UndecidedIsQueued'
  <2>1. \A tiles \in SUBSET {hand.photo} :
          Stands(hand.photo, hand.stamp, tiles) => Known(records[hand.photo]).judged
    BY DEF Stands, Current
  <2>2. hand' = hand \/ (hand' = None /\ Known(records[hand.photo]).judged)
    BY <2>1
  <2> QED BY <2>2 DEF IInv, UndecidedIsQueued, InQueue, InHand, Serving
<1>7. HandShape'
  BY DEF IInv, HandShape
<1> QED BY <1>1, <1>2, <1>3, <1>4, <1>5, <1>6, <1>7 DEF IInv

LEMMA SeenKeeps ==
  ASSUME IInv, Seen
  PROVE  IInv'
<1> USE DEF Seen, review, identities, disk, user
<1>1. TypeOK'
  BY DEF IInv, TypeOK
<1>2. QueueShape'
  BY DEF IInv, QueueShape, InQueue
<1>3. ReviewShape'
  BY DEF IInv, ReviewShape
<1>4. LoadShape'
  BY DEF IInv, LoadShape
<1>5. ChoiceIsKept'
  BY DEF IInv, ChoiceIsKept
<1>6. UndecidedIsQueued'
  BY DEF IInv, UndecidedIsQueued, InQueue, InHand, Serving
<1>7. HandShape'
  BY DEF IInv, HandShape
<1> QED BY <1>1, <1>2, <1>3, <1>4, <1>5, <1>6, <1>7 DEF IInv

LEMMA UnseenKeeps ==
  ASSUME IInv, Unseen
  PROVE  IInv'
<1> USE DEF Unseen, review, identities, disk, user
<1>1. TypeOK'
  BY DEF IInv, TypeOK
<1>2. QueueShape'
  BY DEF IInv, QueueShape, InQueue
<1>3. ReviewShape'
  BY DEF IInv, ReviewShape
<1>4. LoadShape'
  BY DEF IInv, LoadShape
<1>5. ChoiceIsKept'
  BY DEF IInv, ChoiceIsKept
<1>6. UndecidedIsQueued'
  BY DEF IInv, UndecidedIsQueued, InQueue, InHand, Serving
<1>7. HandShape'
  BY DEF IInv, HandShape
<1> QED BY <1>1, <1>2, <1>3, <1>4, <1>5, <1>6, <1>7 DEF IInv

\* A pause puts the photograph back, unless another request for it is queued.
LEMMA PutBackKeeps ==
  ASSUME IInv, PutBack
  PROVE  IInv'
<1> USE DEF PutBack, review, identities, disk, user
<1>h. PICK h \in Item : h = hand
  BY DEF IInv, TypeOK
<1>a. /\ queue' \in Seq(Item) /\ queued' \subseteq Photo /\ QueueShape'
      /\ \A q \in Photo : InQueue(q) => InQueue(q)'
      /\ InQueue(h.photo)'
  <2>1. h.photo \in Photo /\ h.stamp \in Stamp
    BY DEF Item
  <2>2. queue \in Seq(Item) /\ queued \subseteq Photo /\ QueueShape
    BY DEF IInv, TypeOK
  <2>3. RequeueFront(h.photo, h.stamp)
    BY <1>h
  <2> QED BY <2>1, <2>2, <2>3, PutAtFront
<1>1. TypeOK'
  <2>1. pc' \in {"wait"} /\ hand' = None
    OBVIOUS
  <2> QED BY <1>a, <2>1 DEF IInv, TypeOK
<1>2. QueueShape'
  BY <1>a
<1>3. ReviewShape'
  BY DEF IInv, ReviewShape
<1>4. LoadShape'
  BY DEF IInv, LoadShape
<1>5. ChoiceIsKept'
  BY DEF IInv, ChoiceIsKept
<1>6. UndecidedIsQueued'
  <2>1. reviewPending' \subseteq Photo
    BY DEF IInv, TypeOK
  <2>2. \A p \in Photo : InHand(p) => p = h.photo
    BY <1>h DEF InHand
  <2>3. ~Stopping /\ (Serving' <=> Serving) /\ inventory' = inventory
    BY DEF Serving
  <2> QED BY <1>a, <2>1, <2>2, <2>3 DEF IInv, UndecidedIsQueued
<1>7. HandShape'
  BY DEF IInv, HandShape
<1> QED BY <1>1, <1>2, <1>3, <1>4, <1>5, <1>6, <1>7 DEF IInv

\* The photograph in hand is judged, its choice carried over; a newer stamp is queued.
LEMMA JudgeKeeps ==
  ASSUME IInv, Judge
  PROVE  IInv'
<1> USE DEF Judge, review, identities, disk, user
<1>a. hand \in Item /\ hand.photo \in Photo /\ hand.stamp \in Stamp
  <2>1. hand \in Item
    BY DEF IInv, TypeOK
  <2> QED BY <2>1 DEF Item
<1>b. /\ queue' \in Seq(Item) /\ queued' \subseteq Photo /\ QueueShape'
      /\ \A q \in Photo : InQueue(q) => InQueue(q)'
  <2>1. queue \in Seq(Item) /\ queued \subseteq Photo /\ QueueShape
    BY DEF IInv, TypeOK
  <2>2. CASE ~Counted /\ reviewItems[hand.photo] # 0
    <3>1. reviewItems[hand.photo] \in Stamp
      BY <1>a, <2>2, SmartAssumption DEF IInv, TypeOK, Listing, Stamp
    <3>2. RequeueFront(hand.photo, reviewItems[hand.photo])
      BY <2>2
    <3> QED BY <1>a, <2>1, <3>1, <3>2, PutAtFront
  <2>3. CASE ~(~Counted /\ reviewItems[hand.photo] # 0)
    <3>1. queue' = queue /\ queued' = queued
      BY <2>3
    <3> QED BY <2>1, <3>1 DEF QueueShape, InQueue
  <2> QED BY <2>2, <2>3
<1>c. Known(records[hand.photo]) \in Record
  BY <1>a, KnownIsRecord DEF IInv, TypeOK, Records
<1>d. /\ Decision \in Record /\ Decision.judged
      /\ Decision.choice = Known(records[hand.photo]).choice
  <2>1. hand.stamp \in 0..MaxStamp
    BY <1>a, SmartAssumption DEF Stamp
  <2> QED BY <1>c, <2>1 DEF IInv, TypeOK, Decision, Record
<1>e. /\ \A p \in Photo : records'[p] = IF p = hand.photo THEN Decision ELSE records[p]
      /\ records' \in Records /\ Known(Decision) = Decision
  BY <1>a, <1>d, NoneIsNothing DEF IInv, TypeOK, Records, Known
<1>1. TypeOK'
  <2>1. /\ pc' \in {"wait", "save"} /\ hand' = None /\ blind' = FALSE /\ dirty' = TRUE
        /\ reviewPending' \subseteq Photo
    BY DEF IInv, TypeOK
  <2> QED BY <1>b, <1>e, <2>1 DEF IInv, TypeOK
<1>2. QueueShape'
  BY <1>b
<1>3. ReviewShape'
  BY DEF IInv, ReviewShape
<1>4. LoadShape'
  BY DEF IInv, LoadShape
<1>5. ChoiceIsKept'
  <2>1. \A p \in Photo : Known(records[p]).choice = choice[p]
    BY DEF IInv, ChoiceIsKept
  <2>2. \A p \in Photo : Known(records'[p]).choice = choice'[p]
    BY <1>a, <1>d, <1>e, <2>1
  <2> QED BY <2>2 DEF ChoiceIsKept
<1>6. UndecidedIsQueued'
  <2>1. reviewPending' \subseteq Photo /\ reviewPending' \subseteq reviewPending
    BY DEF IInv, TypeOK
  <2>2. \A p \in Photo : p # hand.photo /\ InHand(p) => FALSE
    BY DEF InHand
  <2>3. \A p \in Photo : Known(records[p]).judged \/ p = hand.photo
                            => Known(records'[p]).judged
    BY <1>d, <1>e
  <2> QED BY <1>b, <2>1, <2>2, <2>3 DEF IInv, UndecidedIsQueued, Serving
<1>7. HandShape'
  BY DEF IInv, HandShape
<1> QED BY <1>1, <1>2, <1>3, <1>4, <1>5, <1>6, <1>7 DEF IInv

\* What is taken for writing is all there is.
LEMMA SaveKeeps ==
  ASSUME IInv, Save
  PROVE  IInv'
<1> USE DEF Save, BeginSave, review, identities, disk, user
<1>1. TypeOK'
  <2>1. saving' \in Snapshot \cup {None} /\ dirty' = FALSE
    BY DEF IInv, TypeOK, Snapshot
  <2>2. pc' \in {"write", "wait", "lastWrite", "exited"}
    OBVIOUS
  <2> QED BY <2>1, <2>2 DEF IInv, TypeOK
<1>2. QueueShape'
  BY DEF IInv, QueueShape, InQueue
<1>3. ReviewShape'
  BY DEF IInv, ReviewShape
<1>4. LoadShape'
  BY DEF IInv, LoadShape
<1>5. ChoiceIsKept'
  <2>1. pc # "load" /\ saving = None
    OBVIOUS
  <2>2. dirty => saving' = [by |-> "worker", what |-> records]
    OBVIOUS
  <2>3. dirty => saving' # None /\ saving'.what = records'
    <3>1. [by |-> "worker", what |-> records] \in Snapshot
      BY DEF IInv, TypeOK, Snapshot
    <3> QED BY <2>2, <3>1, NoneIsNothing
  <2>4. ~dirty => saving' = None /\ records' = records /\ store' = store
    BY DEF IInv, TypeOK
  <2> QED BY <2>1, <2>3, <2>4 DEF IInv, TypeOK, ChoiceIsKept
<1>6. UndecidedIsQueued'
  BY DEF IInv, UndecidedIsQueued, InQueue, InHand, Serving
<1>7. HandShape'
  BY DEF IInv, HandShape
<1> QED BY <1>1, <1>2, <1>3, <1>4, <1>5, <1>6, <1>7 DEF IInv

\* A write that fails leaves everything unsaved.
LEMMA WriteKeeps ==
  ASSUME IInv, Write
  PROVE  IInv'
<1> USE DEF Write, EndSave, review, identities, disk, user
<1>1. TypeOK'
  <2>1. saving \in Snapshot
    BY DEF IInv, TypeOK
  <2>2. store' \in Records /\ dirty' \in BOOLEAN /\ saving' = None
    BY <2>1 DEF IInv, TypeOK, Snapshot
  <2>3. pc' \in {"wait", "exited"}
    OBVIOUS
  <2> QED BY <2>2, <2>3 DEF IInv, TypeOK
<1>2. QueueShape'
  BY DEF IInv, QueueShape, InQueue
<1>3. ReviewShape'
  BY DEF IInv, ReviewShape
<1>4. LoadShape'
  BY DEF IInv, LoadShape
<1>5. ChoiceIsKept'
  BY DEF IInv, ChoiceIsKept
<1>6. UndecidedIsQueued'
  BY DEF IInv, UndecidedIsQueued, InQueue, InHand, Serving
<1>7. HandShape'
  BY DEF IInv, HandShape
<1> QED BY <1>1, <1>2, <1>3, <1>4, <1>5, <1>6, <1>7 DEF IInv

\* At a stop nothing is promised of the review.
LEMMA BreakKeeps ==
  ASSUME IInv, Break
  PROVE  IInv'
<1> USE DEF Break, review, identities, disk, user
<1>1. TypeOK'
  BY DEF IInv, TypeOK
<1>2. QueueShape'
  BY DEF IInv, QueueShape, InQueue
<1>3. ReviewShape'
  BY DEF IInv, ReviewShape
<1>4. LoadShape'
  BY DEF IInv, LoadShape
<1>5. ChoiceIsKept'
  BY DEF IInv, ChoiceIsKept
<1>6. UndecidedIsQueued'
  <2>1. ~Serving'
    BY DEF Serving, Stopping
  <2> QED BY <2>1 DEF UndecidedIsQueued
<1>7. HandShape'
  BY DEF IInv, HandShape
<1> QED BY <1>1, <1>2, <1>3, <1>4, <1>5, <1>6, <1>7 DEF IInv

\* A new listing, whose requests follow.
LEMMA SmartSyncLibraryKeeps ==
  ASSUME IInv, SmartSyncLibrary
  PROVE  IInv'
<1> USE DEF SmartSyncLibrary, review, identities, disk, user
<1>1. TypeOK'
  BY DEF IInv, TypeOK
<1>2. QueueShape'
  BY DEF IInv, QueueShape, InQueue
<1>3. ReviewShape'
  BY DEF IInv, ReviewShape
<1>4. LoadShape'
  BY DEF IInv, LoadShape
<1>5. ChoiceIsKept'
  BY DEF IInv, ChoiceIsKept
<1>6. UndecidedIsQueued'
  <2>1. inventory' # None
    BY NoneIsNothing
  <2> QED BY <2>1 DEF UndecidedIsQueued
<1>7. HandShape'
  BY DEF IInv, HandShape
<1> QED BY <1>1, <1>2, <1>3, <1>4, <1>5, <1>6, <1>7 DEF IInv

\* The requests of the listing the review waits for.
LEMMA RequestInventoryKeeps ==
  ASSUME IInv, RequestInventory
  PROVE  IInv'
<1> USE DEF RequestInventory, review, identities, disk, user
<1>a. /\ queue' \in Seq(Item) /\ queued' \subseteq Photo /\ QueueShape'
      /\ \A q \in Photo : InQueue(q) => InQueue(q)'
      /\ \A q \in Photo : inventory[q] # 0 /\ ~Known(records[q]).judged => InQueue(q)'
  <2>1. /\ queue \in Seq(Item) /\ queued \subseteq Photo /\ QueueShape
        /\ inventory \in Listing
    BY DEF IInv, TypeOK
  <2> QED BY <2>1, Requested
<1>1. TypeOK'
  BY <1>a DEF IInv, TypeOK
<1>2. QueueShape'
  BY <1>a
<1>3. ReviewShape'
  BY DEF IInv, ReviewShape
<1>4. LoadShape'
  BY DEF IInv, LoadShape
<1>5. ChoiceIsKept'
  BY DEF IInv, ChoiceIsKept
<1>6. UndecidedIsQueued'
  <2>1. reviewPending' \subseteq Photo /\ inventory = reviewItems
    BY DEF IInv, TypeOK, ReviewShape
  <2>2. \A q \in reviewPending : inventory[q] # 0
    BY <2>1 DEF IInv, ReviewShape
  <2> QED BY <1>a, <2>1, <2>2 DEF UndecidedIsQueued
<1>7. HandShape'
  BY DEF IInv, HandShape
<1> QED BY <1>1, <1>2, <1>3, <1>4, <1>5, <1>6, <1>7 DEF IInv

\* The requests of an album, for any stamp it saw.
LEMMA RequestAlbumKeeps ==
  ASSUME IInv, NEW p \in Photo, NEW s \in Stamp, RequestAlbum(p, s)
  PROVE  IInv'
<1> USE DEF RequestAlbum, review, identities, disk, user
<1> DEFINE asked == [q \in Photo |-> IF q = p THEN s ELSE 0]
<1>a. /\ queue' \in Seq(Item) /\ queued' \subseteq Photo /\ QueueShape'
      /\ \A q \in Photo : InQueue(q) => InQueue(q)'
  <2>1. /\ queue \in Seq(Item) /\ queued \subseteq Photo /\ QueueShape
    BY DEF IInv, TypeOK
  <2>2. asked \in Listing
    BY SmartAssumption DEF Listing, Stamp
  <2>3. SmartRequest(asked)
    OBVIOUS
  <2> HIDE DEF asked
  <2> QED BY <2>1, <2>2, <2>3, Requested
<1>1. TypeOK'
  BY <1>a DEF IInv, TypeOK
<1>2. QueueShape'
  BY <1>a
<1>3. ReviewShape'
  BY DEF IInv, ReviewShape
<1>4. LoadShape'
  BY DEF IInv, LoadShape
<1>5. ChoiceIsKept'
  BY DEF IInv, ChoiceIsKept
<1>6. UndecidedIsQueued'
  <2>1. reviewPending' \subseteq Photo
    BY DEF IInv, TypeOK
  <2> QED BY <1>a, <2>1 DEF IInv, UndecidedIsQueued, InHand, Serving
<1>7. HandShape'
  BY DEF IInv, HandShape
<1> QED BY <1>1, <1>2, <1>3, <1>4, <1>5, <1>6, <1>7 DEF IInv

LEMMA EditKeeps ==
  ASSUME IInv, NEW p \in Photo, Edit(p)
  PROVE  IInv'
<1> USE DEF Edit, review, identities, disk, user
<1>1. TypeOK'
  <2>1. index' \in Listing
    <3>1. index[p] + 1 \in 0..MaxStamp
      <4>1. index[p] \in 0..MaxStamp
        BY DEF IInv, TypeOK, Listing
      <4>2. MaxStamp \in Nat /\ LastStamp[p] \in 1..MaxStamp
        BY SmartAssumption DEF Stamp
      <4> QED BY <4>1, <4>2
    <3> QED BY <3>1 DEF IInv, TypeOK, Listing
  <2> QED BY <2>1 DEF IInv, TypeOK
<1>2. QueueShape'
  BY DEF IInv, QueueShape, InQueue
<1>3. ReviewShape'
  BY DEF IInv, ReviewShape
<1>4. LoadShape'
  BY DEF IInv, LoadShape
<1>5. ChoiceIsKept'
  BY DEF IInv, ChoiceIsKept
<1>6. UndecidedIsQueued'
  BY DEF IInv, UndecidedIsQueued, InQueue, InHand, Serving
<1>7. HandShape'
  BY DEF IInv, HandShape
<1> QED BY <1>1, <1>2, <1>3, <1>4, <1>5, <1>6, <1>7 DEF IInv

\* The user chooses.
LEMMA SmartSetOverrideKeeps ==
  ASSUME IInv, NEW p \in Photo, NEW c \in Choices, SmartSetOverride(p, c)
  PROVE  IInv'
<1> USE DEF SmartSetOverride, review, identities, disk, user
<1>a. Known(records[p]) \in Record
  BY KnownIsRecord DEF IInv, TypeOK, Records
<1> DEFINE new == [Known(records[p]) EXCEPT !.choice = c]
<1>b. new \in Record /\ new.choice = c /\ new.judged = Known(records[p]).judged
  BY <1>a DEF Record
<1>c. /\ records' \in Records
      /\ \A q \in Photo : records'[q] = IF q = p THEN new ELSE records[q]
  BY <1>b DEF IInv, TypeOK, Records
<1> HIDE DEF new
<1>d. /\ new # None /\ Known(new) = new
      /\ \A q \in Photo : choice'[q] = IF q = p THEN c ELSE choice[q]
  BY <1>b, NoneIsNothing DEF Known, IInv, TypeOK
<1>1. TypeOK'
  <2>1. choice' \in [Photo -> Choices] /\ choices' \in Nat /\ dirty' = TRUE
    BY DEF IInv, TypeOK
  <2> QED BY <1>c, <2>1 DEF IInv, TypeOK
<1>2. QueueShape'
  BY DEF IInv, QueueShape, InQueue
<1>3. ReviewShape'
  BY DEF IInv, ReviewShape
<1>4. LoadShape'
  <2> SUFFICES ASSUME pc = "load"
               PROVE  \A q \in Photo : Known(IF records'[q] = None THEN store[q]
                                             ELSE records'[q]).choice = choice'[q]
    BY DEF IInv, LoadShape
  <2>1. \A q \in Photo : Known(IF records[q] = None THEN store[q]
                                 ELSE records[q]).choice = choice[q]
    BY DEF IInv, LoadShape
  <2> QED BY <1>b, <1>c, <1>d, <2>1
<1>5. ChoiceIsKept'
  <2> SUFFICES ASSUME pc # "load"
               PROVE  \A q \in Photo : Known(records'[q]).choice = choice'[q]
    BY DEF ChoiceIsKept
  <2>1. \A q \in Photo : Known(records[q]).choice = choice[q]
    BY DEF IInv, ChoiceIsKept
  <2> QED BY <1>b, <1>c, <1>d, <2>1
<1>6. UndecidedIsQueued'
  <2>1. \A q \in Photo : Known(records'[q]).judged <=> Known(records[q]).judged
    <3>1. \A q \in Photo : Known(records'[q]).judged = Known(records[q]).judged
      BY <1>b, <1>c, <1>d
    <3> QED BY <3>1
  <2>2. reviewPending' \subseteq Photo
    BY DEF IInv, TypeOK
  <2> QED BY <2>1, <2>2 DEF IInv, UndecidedIsQueued, InQueue, InHand, Serving
<1>7. HandShape'
  BY DEF IInv, HandShape
<1> QED BY <1>1, <1>2, <1>3, <1>4, <1>5, <1>6, <1>7 DEF IInv

LEMMA SmartPauseKeeps ==
  ASSUME IInv, SmartPause
  PROVE  IInv'
<1> USE DEF SmartPause, review, identities, disk, user
<1>1. TypeOK'
  BY DEF IInv, TypeOK
<1>2. QueueShape'
  BY DEF IInv, QueueShape, InQueue
<1>3. ReviewShape'
  BY DEF IInv, ReviewShape
<1>4. LoadShape'
  BY DEF IInv, LoadShape
<1>5. ChoiceIsKept'
  BY DEF IInv, ChoiceIsKept
<1>6. UndecidedIsQueued'
  BY DEF IInv, UndecidedIsQueued, InQueue, InHand, Serving
<1>7. HandShape'
  BY DEF IInv, HandShape
<1> QED BY <1>1, <1>2, <1>3, <1>4, <1>5, <1>6, <1>7 DEF IInv

LEMMA SmartApplyReviewedKeeps ==
  ASSUME IInv, SmartApplyReviewed
  PROVE  IInv'
<1> USE DEF SmartApplyReviewed, ReviewReady, review, identities, disk, user
<1>1. TypeOK'
  BY DEF IInv, TypeOK
<1>2. QueueShape'
  BY DEF IInv, QueueShape, InQueue
<1>3. ReviewShape'
  BY DEF IInv, ReviewShape
<1>4. LoadShape'
  BY DEF IInv, LoadShape
<1>5. ChoiceIsKept'
  BY DEF IInv, ChoiceIsKept
<1>6. UndecidedIsQueued'
  BY DEF IInv, UndecidedIsQueued, InQueue, InHand, Serving
<1>7. HandShape'
  BY DEF IInv, HandShape
<1> QED BY <1>1, <1>2, <1>3, <1>4, <1>5, <1>6, <1>7 DEF IInv

\* The window thread saves, before it applies a review and after the worker has ended.
LEMMA SaveBeforeKeeps ==
  ASSUME IInv, SaveBefore
  PROVE  IInv'
<1> USE DEF SaveBefore, BeginSave, review, identities, disk, user
<1>1. TypeOK'
  <2>1. saving' \in Snapshot \cup {None} /\ dirty' = FALSE
    BY DEF IInv, TypeOK, Snapshot
  <2>2. ui' \in {"applyWrite", "free", "stopWrite", "ended"}
    OBVIOUS
  <2> QED BY <2>1, <2>2 DEF IInv, TypeOK
<1>2. QueueShape'
  BY DEF IInv, QueueShape, InQueue
<1>3. ReviewShape'
  BY DEF IInv, ReviewShape
<1>4. LoadShape'
  BY DEF IInv, LoadShape
<1>5. ChoiceIsKept'
  <2>1. saving = None /\ pc' = pc /\ records' = records /\ store' = store
    OBVIOUS
  <2>2. dirty => saving' = [by |-> "ui", what |-> records]
    OBVIOUS
  <2>3. dirty => saving' # None /\ saving'.what = records'
    <3>1. [by |-> "ui", what |-> records] \in Snapshot
      BY DEF IInv, TypeOK, Snapshot
    <3> QED BY <2>2, <3>1, NoneIsNothing
  <2>4. ~dirty => saving' = None
    BY DEF IInv, TypeOK
  <2> QED BY <2>1, <2>3, <2>4 DEF IInv, TypeOK, ChoiceIsKept
<1>6. UndecidedIsQueued'
  BY DEF IInv, UndecidedIsQueued, InQueue, InHand, Serving
<1>7. HandShape'
  BY DEF IInv, HandShape
<1> QED BY <1>1, <1>2, <1>3, <1>4, <1>5, <1>6, <1>7 DEF IInv

LEMMA WriteBeforeKeeps ==
  ASSUME IInv, WriteBefore
  PROVE  IInv'
<1> USE DEF WriteBefore, EndSave, review, identities, disk, user
<1>1. TypeOK'
  <2>1. saving \in Snapshot
    BY DEF IInv, TypeOK
  <2>2. store' \in Records /\ dirty' \in BOOLEAN /\ saving' = None
    BY <2>1 DEF IInv, TypeOK, Snapshot
  <2>3. ui' \in {"free", "ended"}
    OBVIOUS
  <2> QED BY <2>2, <2>3 DEF IInv, TypeOK
<1>2. QueueShape'
  BY DEF IInv, QueueShape, InQueue
<1>3. ReviewShape'
  BY DEF IInv, ReviewShape
<1>4. LoadShape'
  BY DEF IInv, LoadShape
<1>5. ChoiceIsKept'
  BY DEF IInv, ChoiceIsKept
<1>6. UndecidedIsQueued'
  BY DEF IInv, UndecidedIsQueued, InQueue, InHand, Serving
<1>7. HandShape'
  BY DEF IInv, HandShape
<1> QED BY <1>1, <1>2, <1>3, <1>4, <1>5, <1>6, <1>7 DEF IInv

LEMMA SmartStopKeeps ==
  ASSUME IInv, SmartStop
  PROVE  IInv'
<1> USE DEF SmartStop, review, identities, disk, user
<1>1. TypeOK'
  BY DEF IInv, TypeOK
<1>2. QueueShape'
  BY DEF IInv, QueueShape, InQueue
<1>3. ReviewShape'
  BY DEF IInv, ReviewShape
<1>4. LoadShape'
  BY DEF IInv, LoadShape
<1>5. ChoiceIsKept'
  BY DEF IInv, ChoiceIsKept
<1>6. UndecidedIsQueued'
  BY DEF IInv, UndecidedIsQueued, InQueue, InHand, Serving
<1>7. HandShape'
  BY DEF IInv, HandShape
<1> QED BY <1>1, <1>2, <1>3, <1>4, <1>5, <1>6, <1>7 DEF IInv

\* A new process knows nothing yet but what reading the store will tell it.
LEMMA SmartStartKeeps ==
  ASSUME IInv, SmartStart
  PROVE  IInv'
<1> USE DEF SmartStart, review, identities, disk, user
<1>1. TypeOK'
  <2>1. /\ records' \in Records /\ choice' \in [Photo -> Choices]
        /\ reviewItems' \in Listing
    <3>1. \A p \in Photo : Known(store[p]) \in Record
      BY KnownIsRecord DEF IInv, TypeOK, Records
    <3>2. \A p \in Photo : Known(store[p]).choice \in Choices
      BY <3>1 DEF Record
    <3> QED BY <3>2, NoRecordsAreRecords, SmartAssumption DEF Listing
  <2>2. /\ queue' \in Seq(Item) /\ queued' = {} /\ reviewPending' = {}
        /\ activeIdentity' \in Identity /\ model' \in Identity
        /\ paused' = FALSE /\ dirty' = FALSE /\ blind' = FALSE
        /\ hand' = None /\ inventory' = None /\ saving' = None
        /\ pc' = "load" /\ ui' = "free" /\ starts' \in Nat
    BY DEF IInv, TypeOK, Identity
  <2> QED BY <2>1, <2>2 DEF IInv, TypeOK
<1>2. QueueShape'
  BY DEF IInv, QueueShape, InQueue
<1>3. ReviewShape'
  BY DEF IInv, ReviewShape
<1>4. LoadShape'
  <2>1. \A p \in Photo : records'[p] = None
    BY DEF NoRecords
  <2>2. \A p \in Photo : choice'[p] = Known(store'[p]).choice
    OBVIOUS
  <2> QED BY <2>1, <2>2 DEF LoadShape
<1>5. ChoiceIsKept'
  BY DEF IInv, ChoiceIsKept
<1>6. UndecidedIsQueued'
  BY DEF IInv, UndecidedIsQueued, InQueue, InHand, Serving
<1>7. HandShape'
  BY DEF IInv, HandShape
<1> QED BY <1>1, <1>2, <1>3, <1>4, <1>5, <1>6, <1>7 DEF IInv

\* The first start of all.
LEMMA Starts == Init => IInv
<1> SUFFICES ASSUME Init PROVE IInv
  OBVIOUS
<1> USE DEF Init
<1>1. TypeOK
  <2>1. /\ records \in Records /\ store \in Records
        /\ reviewItems \in Listing /\ index \in Listing
        /\ choice \in [Photo -> Choices]
    BY NoRecordsAreRecords, SmartAssumption DEF Listing, Choices
  <2>2. activeIdentity \in Identity /\ model \in Identity /\ queue \in Seq(Item)
    BY DEF Identity
  <2> QED BY <2>1, <2>2 DEF TypeOK
<1>2. QueueShape /\ HandShape /\ ReviewShape
  BY DEF QueueShape, HandShape, ReviewShape
<1>3. LoadShape
  <2>1. \A p \in Photo : records[p] = None /\ store[p] = None
    BY DEF NoRecords
  <2> QED BY <2>1 DEF LoadShape, Known, Unknown
<1>4. ChoiceIsKept /\ UndecidedIsQueued
  BY DEF ChoiceIsKept, UndecidedIsQueued
<1> QED BY <1>1, <1>2, <1>3, <1>4 DEF IInv

LEMMA Stutters == IInv /\ UNCHANGED vars => IInv'
<1> SUFFICES ASSUME IInv, UNCHANGED vars PROVE IInv'
  OBVIOUS
<1> USE DEF vars
<1>1. TypeOK'
  BY DEF IInv, TypeOK
<1>2. QueueShape' /\ HandShape' /\ ReviewShape'
  BY DEF IInv, QueueShape, HandShape, ReviewShape, InQueue
<1>3. LoadShape' /\ ChoiceIsKept'
  BY DEF IInv, LoadShape, ChoiceIsKept
<1>4. UndecidedIsQueued'
  BY DEF IInv, UndecidedIsQueued, InQueue, InHand, Serving
<1> QED BY <1>1, <1>2, <1>3, <1>4 DEF IInv

\* Every step keeps the invariant.
LEMMA Steps == IInv /\ [Next]_vars => IInv'
<1> SUFFICES ASSUME IInv, Next PROVE IInv'
  BY Stutters
<1>1. CASE Worker
  BY <1>1, LoadKeeps, OpenModelKeeps, TakeKeeps, SaveOnlyKeeps, LookKeeps, SeenKeeps,
     UnseenKeeps, PutBackKeeps, JudgeKeeps, SaveKeeps, WriteKeeps, BreakKeeps DEF Worker
<1>2. CASE Window
  BY <1>2, SmartSetOverrideKeeps, SmartPauseKeeps, SmartApplyReviewedKeeps,
     SaveBeforeKeeps, WriteBeforeKeeps, SmartStopKeeps, SmartStartKeeps DEF Window
<1>3. CASE Requests
  BY <1>3, SmartSyncLibraryKeeps, RequestInventoryKeeps, RequestAlbumKeeps, EditKeeps
     DEF Requests
<1> QED BY <1>1, <1>2, <1>3 DEF Next
-----------------------------------------------------------------------------
\* The inductive invariant holds in every reachable state.
THEOREM Invariance == Spec => []IInv
<1> QED BY Starts, Steps, PTL DEF Spec

\* Every reachable state has its types.
THEOREM TypeCorrect == Spec => []TypeOK
<1>1. IInv => TypeOK
  BY DEF IInv
<1> QED BY <1>1, Invariance, PTL

\* The user's word is in the record, and on disk or known to be unsaved,
\* whatever the worker decides meanwhile, whatever fails and whenever the
\* process dies (Judge, Save, Load).
THEOREM ChoiceKept == Spec => []ChoiceIsKept
<1>1. IInv => ChoiceIsKept
  BY DEF IInv
<1> QED BY <1>1, Invariance, PTL

\* What the review waits for undecided is queued, in hand or about to be asked
\* for (SmartRequest, PutBack, the requeue after a decision).
THEOREM UndecidedQueued == Spec => []UndecidedIsQueued
<1>1. IInv => UndecidedIsQueued
  BY DEF IInv
<1> QED BY <1>1, Invariance, PTL
=============================================================================
