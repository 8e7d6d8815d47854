----------------------------- MODULE FilmStills -----------------------------
(***************************************************************************)
(* What the timeline is promised, whatever the preview engine does to keep *)
(* it: the stills it may draw are of the film that is open, and each was   *)
(* the answer to a question that was still asked when it came.  Questions  *)
(* may be withdrawn and stills forgotten; none survives the film.          *)
(***************************************************************************)
CONSTANTS Film, Position, None

VARIABLES
  film,     \* the film the timeline belongs to, None between two
  asked,    \* positions asked about and not yet answered
  stills    \* the frames that may be drawn, <<film, position>>

vars == <<film, asked, stills>>

Init == film = None /\ asked = {} /\ stills = {}

Open(f) == film' = f /\ asked' = {} /\ stills' = {}
Close == film' = None /\ asked' = {} /\ stills' = {}
Ask(p) == /\ film # None
          /\ asked' \in SUBSET (asked \cup {p}) /\ p \in asked'
          /\ UNCHANGED <<film, stills>>
Answer(p) == /\ film # None /\ p \in asked
             /\ asked' \in SUBSET asked
             /\ stills' \in SUBSET (stills \cup {<<film, p>>})
             /\ UNCHANGED film
\* Questions are withdrawn, stills are forgotten.
Forget == stills' \in SUBSET stills /\ asked' \in SUBSET asked /\ UNCHANGED film

Next == \/ \E f \in Film : Open(f)
        \/ Close
        \/ \E p \in Position : Ask(p) \/ Answer(p)
        \/ Forget

Spec == Init /\ [][Next]_vars
=============================================================================
