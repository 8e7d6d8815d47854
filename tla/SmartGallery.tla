---------------------------- MODULE SmartGallery ----------------------------
(***************************************************************************)
(* The smart gallery (src/src/smartgallery.cpp): a background worker gives *)
(* every photograph a decision of the model it has opened, the user may    *)
(* overrule it, and a first review counts the library's photographs until  *)
(* each has been judged.  Requests come from the album worker and from the *)
(* inventory worker of main.cpp, with whatever stamp (size and time) their *)
(* listing had; the governor pauses the worker at any time.                *)
(*                                                                         *)
(* A critical section of `mx` is one action.  Data: a path is a Photo, its *)
(* stamps are numbered, a decision is what it was made of (stamp, model,   *)
(* whether a thumbnail was missing), and the choice of the user.  Tiles in *)
(* the thumbnail cache come and go, so that every look for one has both    *)
(* outcomes.  The save at every 64th decision may happen at each.          *)
(* What applying the review's results means to the albums, the log of      *)
(* corrections and a store that cannot be read are left out.               *)
(***************************************************************************)
EXTENDS Integers, Sequences, FiniteSets

CONSTANTS
  Photo, None,
  Model,          \* identities (model, policy, algorithm) a model can have
  NoModel,        \* the identity of no model at all: all zeros
  MaxStamp,       \* bound: stamps a photograph has in turn
  LastStamp,      \* bound: of them, those this photograph has
  MaxChoices,     \* bound: calls of SmartSetOverride
  MaxStarts       \* bound: starts of the process after the first

Stamp == 1..MaxStamp
Identity == Model \cup {NoModel}
Choices == {"auto", "hide", "show"}

Item == [photo : Photo, stamp : Stamp]
Record == [judged : BOOLEAN,            \* algorithm = Algorithm
           stamp : 0..MaxStamp, identity : Identity,
           blind : BOOLEAN,             \* SmartNoThumbnail
           choice : Choices]
Records == [Photo -> Record \cup {None}]
Listing == [Photo -> 0..MaxStamp]       \* 0: not listed
Snapshot == [by : {"worker", "ui"}, what : Records]

ASSUME SmartAssumption ==
  /\ IsFiniteSet(Photo) /\ NoModel \notin Model
  /\ None \notin Record \cup Item \cup Listing \cup Snapshot
  /\ MaxStamp \in Nat \ {0} /\ LastStamp \in [Photo -> Stamp]
  /\ MaxChoices \in Nat /\ MaxStarts \in Nat

VARIABLES
  index,        \* the stamp under which the library knows a photograph
  records, queue, queued, reviewItems, reviewPending, paused, dirty,
  activeIdentity,
  model,        \* the worker's own model.identity
  pc, hand, blind,   \* the worker: where it is, its photograph, its tile missing
  inventory,    \* the listing SmartSyncLibrary still has to request, or None
  ui,           \* the window thread: its call in progress, "free" between two
  saving,       \* what the holder of saveMx is writing, or None
  store,        \* smart-gallery.bin
  choice,       \* history: the user's last word that this process can know
  choices, starts   \* bounds

review == <<reviewItems, reviewPending>>
worker == <<model, pc, hand, blind>>
disk == <<saving, store>>
identities == <<activeIdentity, model>>
user == <<choice, choices, starts>>
vars == <<index, records, queue, queued, reviewItems, reviewPending, paused,
          dirty, activeIdentity, model, pc, hand, blind, inventory, ui, saving,
          store, choice, choices, starts>>

NoRecords == [p \in Photo |-> None]
Unknown == [judged |-> FALSE, stamp |-> 0, identity |-> NoModel,
            blind |-> FALSE, choice |-> "auto"]
Known(r) == IF r = None THEN Unknown ELSE r

Init ==
  /\ index \in [Photo -> {0, 1}]
  /\ records = NoRecords /\ queue = <<>> /\ queued = {}
  /\ reviewItems = [p \in Photo |-> 0] /\ reviewPending = {}
  /\ paused = FALSE /\ dirty = FALSE
  /\ activeIdentity = NoModel
  /\ model = NoModel /\ pc = "load" /\ hand = None /\ blind = FALSE
  /\ inventory = None /\ ui = "free" /\ saving = None
  /\ store = NoRecords
  /\ choice = [p \in Photo |-> "auto"] /\ choices = 0 /\ starts = 0
-----------------------------------------------------------------------------
(* Records and requests.                                                   *)

Current(p, s) ==
  /\ Known(records[p]).judged /\ records[p].stamp = s
  /\ records[p].identity = activeIdentity

\* A decision made without a thumbnail stands until there is one.
Stands(p, s, tiles) == Current(p, s) /\ (records[p].blind => p \notin tiles)

\* The ways to list the elements of S, each once.
Orders(S) == {order \in [1..Cardinality(S) -> S] :
                \A p \in S : \E i \in DOMAIN order : order[i] = p}

SmartRequest(listing) ==
  \E tiles \in SUBSET Photo :
    LET asked == {p \in Photo : /\ listing[p] # 0 /\ p \notin queued
                                /\ ~Stands(p, listing[p], tiles)}
    IN  /\ queued' = queued \cup asked
        /\ \E order \in Orders(asked) :
             queue' = queue \o [i \in DOMAIN order |->
                                  [photo |-> order[i], stamp |-> listing[order[i]]]]

\* Back to the head of the queue, unless another request is in it.
RequeueFront(p, s) ==
  /\ queued' = queued \cup {p}
  /\ queue' = IF p \in queued THEN queue
              ELSE <<[photo |-> p, stamp |-> s]>> \o queue
-----------------------------------------------------------------------------
(* Saving: a snapshot under the lock, written with saveMx held.            *)

BeginSave(who) ==
  /\ saving = None
  /\ saving' = IF dirty THEN [by |-> who, what |-> records] ELSE None
  /\ dirty' = FALSE

\* Mutant: what was changed during the write counts as written.
EndSaveLate(who) ==
  /\ saving # None /\ saving.by = who /\ saving' = None
  /\ \/ store' = saving.what /\ dirty' = FALSE
     \/ UNCHANGED store /\ dirty' = TRUE
EndSave(who) ==
  /\ saving # None /\ saving.by = who /\ saving' = None
  /\ \/ store' = saving.what /\ UNCHANGED dirty
     \/ UNCHANGED store /\ dirty' = TRUE
-----------------------------------------------------------------------------
(* The worker.                                                             *)

\* What was chosen before the store was read goes before it.
Load ==
  /\ pc = "load" /\ pc' = "open"
  /\ records' = [p \in Photo |-> IF records[p] = None THEN store[p] ELSE records[p]]
  /\ UNCHANGED <<index, queue, queued, review, paused, dirty, identities,
                 hand, blind, inventory, ui, disk, user>>

\* It opens, or is absent, or is refused after its identity was computed.
OpenModel ==
  /\ pc = "open" /\ pc' = "wait"
  /\ \/ \E m \in Model :
          model' = m /\ activeIdentity' = m
     \/ UNCHANGED identities
     \/ \E m \in Model : model' = m /\ UNCHANGED activeIdentity
  /\ UNCHANGED <<index, records, queue, queued, review, paused, dirty,
                 hand, blind, inventory, ui, disk, user>>

Stopping == ui = "stop"
Idle == pc = "wait" /\ ~Stopping
Take ==
  /\ Idle /\ ~paused /\ queue # <<>>
  /\ hand' = Head(queue) /\ queue' = Tail(queue)
  /\ queued' = queued \ {Head(queue).photo}
  /\ pc' = "look"
  /\ UNCHANGED <<index, records, review, paused, dirty, identities,
                 blind, inventory, ui, disk, user>>
SaveOnly ==
  /\ Idle /\ dirty /\ (paused \/ queue = <<>>)
  /\ pc' = "save"
  /\ UNCHANGED <<index, records, queue, queued, review, paused, dirty,
                 identities, hand, blind, inventory, ui, disk, user>>

\* Mutant: the photograph is moved into the question and not there afterwards.
LookMoved ==
  /\ pc = "look" /\ hand' = None
  /\ \E tiles \in SUBSET {hand.photo} :
       pc' = IF Stands(hand.photo, hand.stamp, tiles) /\ model = activeIdentity
             THEN "wait" ELSE "pixels"
  /\ UNCHANGED <<index, records, queue, queued, review, paused, dirty,
                 identities, blind, inventory, ui, disk, user>>
Look ==
  /\ pc = "look"
  /\ \E tiles \in SUBSET {hand.photo} :
       pc' = IF /\ Stands(hand.photo, hand.stamp, tiles)
                /\ model = activeIdentity
             THEN "wait" ELSE "pixels"
  /\ hand' = IF pc' = "wait" THEN None ELSE hand
  /\ UNCHANGED <<index, records, queue, queued, review, paused, dirty,
                 identities, blind, inventory, ui, disk, user>>

\* A tile is needed and there, or not needed.  A camera's photograph needs
\* none, and is judged without it.
Seen ==
  /\ pc = "pixels" /\ pc' = "judge"
  /\ blind' = FALSE
  /\ UNCHANGED <<index, records, queue, queued, review, paused, dirty,
                 identities, hand, inventory, ui, disk, user>>
Unseen ==
  /\ pc = "pixels" /\ ~Stopping /\ ~paused /\ pc' = "judge"
  /\ blind' \in BOOLEAN
  /\ UNCHANGED <<index, records, queue, queued, review, paused, dirty,
                 identities, hand, inventory, ui, disk, user>>

\* Mutant: the photograph in hand is dropped by a pause.
PutOff ==
  /\ pc = "pixels" /\ ~Stopping /\ paused /\ pc' = "wait" /\ hand' = None
  /\ UNCHANGED <<index, records, queue, queued, review, paused, dirty,
                 identities, blind, inventory, ui, disk, user>>
PutBack ==
  /\ pc = "pixels" /\ ~Stopping /\ paused /\ pc' = "wait" /\ hand' = None
  /\ RequeueFront(hand.photo, hand.stamp)
  /\ UNCHANGED <<index, records, review, paused, dirty, identities,
                 blind, inventory, ui, disk, user>>

\* Mutant: the decision replaces the whole record.
DecisionOverruling ==
  [judged |-> TRUE, stamp |-> hand.stamp, identity |-> model, blind |-> blind,
   choice |-> "auto"]
Decision == [judged |-> TRUE, stamp |-> hand.stamp, identity |-> model,
             blind |-> blind, choice |-> Known(records[hand.photo]).choice]
\* The review counts the decision if the inventory has the same stamp, and
\* asks for the inventory's stamp if it has another.
Counted == reviewItems[hand.photo] = hand.stamp
Judge ==
  /\ pc = "judge" /\ pc' \in {"wait", "save"} /\ hand' = None /\ blind' = FALSE
  /\ records' = [records EXCEPT ![hand.photo] = Decision] /\ dirty' = TRUE
  /\ reviewPending' = IF Counted THEN reviewPending \ {hand.photo} ELSE reviewPending
  /\ IF ~Counted /\ reviewItems[hand.photo] # 0
     THEN RequeueFront(hand.photo, reviewItems[hand.photo])
     ELSE UNCHANGED <<queue, queued>>
  /\ UNCHANGED <<index, reviewItems, paused, identities,
                 inventory, ui, disk, user>>

\* Now and then, when nothing else is to be done, and once at the end.
Save ==
  /\ \/ pc = "save" /\ pc' = IF dirty THEN "write" ELSE "wait"
     \/ pc = "last" /\ pc' = IF dirty THEN "lastWrite" ELSE "exited"
  /\ BeginSave("worker")
  /\ UNCHANGED <<index, records, queue, queued, review, paused, identities,
                 hand, blind, inventory, ui, store, user>>
Write ==
  /\ \/ pc = "write" /\ pc' = "wait"
     \/ pc = "lastWrite" /\ pc' = "exited"
  /\ EndSave("worker")
  /\ UNCHANGED <<index, records, queue, queued, review, paused, identities,
                 hand, blind, inventory, ui, user>>
Break ==
  /\ pc \in {"wait", "pixels"} /\ Stopping /\ pc' = "last" /\ hand' = None
  /\ UNCHANGED <<index, records, queue, queued, review, paused, dirty,
                 identities, blind, inventory, ui, disk, user>>

Worker == \/ Load \/ OpenModel \/ Take \/ SaveOnly \/ Look
          \/ Seen \/ Unseen \/ PutBack \/ Judge \/ Save \/ Write \/ Break
-----------------------------------------------------------------------------
(* The inventory worker and the album worker.  A listing may be as old as  *)
(* the one before it: the index changes while it is collected.             *)

Serving == ui \in {"free", "apply", "applyWrite"}

SmartSyncLibrary ==
  /\ Serving /\ inventory = None
  /\ \E listing \in Listing :
       /\ \A p \in Photo : listing[p] \in reviewItems[p]..index[p]
       /\ inventory' = listing /\ reviewItems' = listing
       /\ reviewPending' = {p \in Photo : listing[p] # 0 /\ ~Current(p, listing[p])}
  /\ UNCHANGED <<index, records, queue, queued, paused, dirty, identities,
                 pc, hand, blind, ui, disk, user>>
\* The second half: the mutex was released in between.
RequestInventory ==
  /\ inventory # None /\ inventory' = None
  /\ SmartRequest(inventory)
  /\ UNCHANGED <<index, records, review, paused, dirty, identities,
                 pc, hand, blind, ui, disk, user>>

\* A folder of the album: IndexInspectDirectory or IndexPhotosIn listed it.
RequestAlbum(p, s) ==
  /\ Serving /\ s <= index[p]
  /\ SmartRequest([q \in Photo |-> IF q = p THEN s ELSE 0])
  /\ UNCHANGED <<index, records, review, paused, dirty, identities,
                 pc, hand, blind, inventory, ui, disk, user>>

\* A photograph appears in the library or is written over.
Edit(p) ==
  /\ index[p] < LastStamp[p] /\ index' = [index EXCEPT ![p] = @ + 1]
  /\ UNCHANGED <<records, queue, queued, review, paused, dirty, identities,
                 pc, hand, blind, inventory, ui, disk, user>>
-----------------------------------------------------------------------------
(* The window thread.                                                      *)

SmartSetOverride(p, c) ==
  /\ ui = "free" /\ index[p] # 0
  /\ choices < MaxChoices /\ choices' = choices + 1
  /\ records' = [records EXCEPT ![p] = [Known(records[p]) EXCEPT !.choice = c]]
  /\ dirty' = TRUE
  /\ choice' = [choice EXCEPT ![p] = c]
  /\ UNCHANGED <<index, queue, queued, review, paused, identities,
                 pc, hand, blind, inventory, ui, disk, starts>>

SmartPause ==
  /\ ui = "free" /\ paused' = ~paused
  /\ UNCHANGED <<index, records, queue, queued, review, dirty, identities,
                 pc, hand, blind, inventory, ui, disk, user>>

\* A model is ready and the review, whose listing may have been complete, waits
\* for nothing: the user may be asked, says yes, and SmartApplyReviewed saves.
ReviewReady == /\ activeIdentity # NoModel /\ reviewPending = {}
               /\ \E p \in Photo : reviewItems[p] # 0
SmartApplyReviewed ==
  /\ ui = "free" /\ ReviewReady /\ ui' = "apply"
  /\ UNCHANGED <<index, records, queue, queued, review, paused, dirty,
                 identities, pc, hand, blind, inventory, disk, user>>
SaveBefore ==
  /\ \/ ui = "apply" /\ ui' = IF dirty THEN "applyWrite" ELSE "free"
     \/ Stopping /\ pc = "exited" /\ ui' = IF dirty THEN "stopWrite" ELSE "ended"
  /\ BeginSave("ui")
  /\ UNCHANGED <<index, records, queue, queued, review, paused, identities,
                 pc, hand, blind, inventory, store, user>>
WriteBefore ==
  /\ \/ ui = "applyWrite" /\ ui' = "free"
     \/ ui = "stopWrite" /\ ui' = "ended"
  /\ EndSave("ui")
  /\ UNCHANGED <<index, records, queue, queued, review, paused, identities,
                 pc, hand, blind, inventory, user>>

\* The other workers have been joined; SmartStop joins this one and saves.
SmartStop ==
  /\ ui = "free" /\ inventory = None /\ ui' = "stop"
  /\ UNCHANGED <<index, records, queue, queued, review, paused, dirty,
                 identities, pc, hand, blind, inventory, disk, user>>

\* The process ends, well or badly, and another one starts.
SmartStart ==
  /\ starts < MaxStarts /\ starts' = starts + 1
  /\ records' = NoRecords /\ queue' = <<>> /\ queued' = {}
  /\ reviewItems' = [p \in Photo |-> 0] /\ reviewPending' = {}
  /\ paused' = FALSE /\ dirty' = FALSE
  /\ activeIdentity' = NoModel
  /\ model' = NoModel /\ pc' = "load" /\ hand' = None /\ blind' = FALSE
  /\ inventory' = None /\ ui' = "free" /\ saving' = None
  /\ choice' = [p \in Photo |-> Known(store[p]).choice]
  /\ UNCHANGED <<index, store, choices>>

Window == \/ \E p \in Photo, c \in Choices : SmartSetOverride(p, c)
          \/ SmartPause \/ SmartApplyReviewed \/ SaveBefore \/ WriteBefore
          \/ SmartStop \/ SmartStart
Requests == \/ SmartSyncLibrary \/ RequestInventory
            \/ \E p \in Photo, s \in Stamp : RequestAlbum(p, s)
            \/ \E p \in Photo : Edit(p)

Next == Worker \/ Window \/ Requests
Spec == Init /\ [][Next]_vars
-----------------------------------------------------------------------------
(* Properties.                                                             *)

TypeOK ==
  /\ index \in Listing /\ records \in Records
  /\ queue \in Seq(Item) /\ queued \subseteq Photo
  /\ reviewItems \in Listing /\ reviewPending \subseteq Photo
  /\ paused \in BOOLEAN /\ dirty \in BOOLEAN
  /\ activeIdentity \in Identity /\ model \in Identity
  /\ pc \in {"load", "open", "wait", "look", "pixels", "judge", "save", "write",
             "last", "lastWrite", "exited"}
  /\ hand \in Item \cup {None} /\ blind \in BOOLEAN
  /\ pc \in {"look", "pixels", "judge"} => hand # None
  /\ inventory \in Listing \cup {None}
  /\ ui \in {"free", "apply", "applyWrite", "stop", "stopWrite", "ended"}
  /\ saving \in Snapshot \cup {None} /\ store \in Records
  /\ choice \in [Photo -> Choices] /\ choices \in Nat /\ starts \in Nat

\* The user's word survives every decision made meanwhile, every change of the
\* photograph and of the model, and every start: it is in the record, and it is
\* on disk, or being written, or known to be unsaved (smartgallery.h: "survives
\* file/model changes"; Judge, Load, Save).
ChoiceIsKept ==
  pc # "load" =>
    /\ \A p \in Photo : Known(records[p]).choice = choice[p]
    /\ dirty \/ records = IF saving = None THEN store ELSE saving.what

\* A photograph the review waits for and nobody has decided upon is in the
\* queue, in the worker's hand, or about to be asked for, whatever pauses, older
\* listings and edits there were (the two tables `queue` and `queued`, PutBack).
InQueue(p) == \E i \in 1..Len(queue) : queue[i].photo = p
InHand(p) == hand # None /\ hand.photo = p
UndecidedIsQueued ==
  Serving => \A p \in reviewPending :
    Known(records[p]).judged \/ InQueue(p) \/ InHand(p) \/ inventory # None

\* "An edit/rename during the first pass must not strand the progress bar"
\* (smartgallery.cpp, SmartStart): when there is nothing left to do and the
\* inventory is the library's latest, no photograph waits in the review with
\* the model's decision, made on sight, about another stamp.
AtRest == pc = "wait" /\ queue = <<>> /\ inventory = None /\ reviewItems = index
Judged(p) == Known(records[p]).judged /\ records[p].identity = activeIdentity
EditIsJudged ==
  AtRest => \A p \in reviewPending :
    \/ ~Judged(p) \/ records[p].blind \/ records[p].stamp = reviewItems[p]
=============================================================================
