--------------------------- MODULE GovernorProofs ---------------------------
(***************************************************************************)
(* Proofs about the resource governor, for whatever thresholds, delays and *)
(* samples: its types, the order in which it gives work up, and that it    *)
(* does not flap.                                                          *)
(*                                                                         *)
(* NoFlap needs one fact of every state: the calm being measured began     *)
(* after pressure last took a tier away, so that it is never longer than   *)
(* the time since then (both counted up to the horizon).                   *)
(***************************************************************************)
EXTENDS Governor, TLAPS

\* Calm is measured from after the last fall, and not during pressure.
CalmIsRecent ==
  restedFor # Never => restedFor <= sinceFall /\ pressedFor = Never

\* What was published is the policy of the tier and of the sample observed.
PolicyIsCurrent == policy = PolicyForTier(tier, sample)

IInv == TypeOK /\ CalmIsRecent /\ PolicyIsCurrent

\* The policy of a tier has its type.
LEMMA PolicyTyped ==
  ASSUME NEW t \in Tier, NEW s
  PROVE PolicyForTier(t, s) \in [tier : Tier, allowed : SUBSET Work, blur : 0..100,
                                 previewScale : 0..100, coalesce : 0..120]
<1>1. Permitted(t) \ Withheld(s) \in SUBSET Work
  BY DEF Permitted, Withheld, Tier, Headroom, Balanced, Constrained, Work
<1>2. Blur(t, s) \in 0..100
  BY DEF Blur, Tier, Headroom, Balanced, Constrained
<1>3. PreviewScale(t, s) \in 0..100
  BY DEF PreviewScale, Tier, Headroom, Balanced
<1>4. Coalesce(t, s) \in 0..120
  BY DEF Coalesce, Tier, Headroom, Balanced, Constrained
<1> QED BY <1>1, <1>2, <1>3, <1>4 DEF PolicyForTier

\* A lower tier permits no more, and lets nothing cost more, than a higher.
LEMMA PolicyOrdered ==
  ASSUME NEW t \in Tier, NEW u \in Tier, t < u, NEW s
  PROVE /\ PolicyForTier(t, s).allowed \subseteq PolicyForTier(u, s).allowed
        /\ PolicyForTier(t, s).blur <= PolicyForTier(u, s).blur
        /\ PolicyForTier(t, s).previewScale <= PolicyForTier(u, s).previewScale
        /\ PolicyForTier(t, s).coalesce >= PolicyForTier(u, s).coalesce
<1>1. Permitted(t) \subseteq Permitted(u)
  BY DEF Permitted, Work, Tier, Headroom, Balanced, Constrained
<1>2. Permitted(t) \ Withheld(s) \subseteq Permitted(u) \ Withheld(s)
  BY <1>1
<1>3. Blur(t, s) <= Blur(u, s)
  BY DEF Blur, Tier, Headroom, Balanced, Constrained
<1>4. PreviewScale(t, s) <= PreviewScale(u, s)
  BY DEF PreviewScale, Tier, Headroom, Balanced
<1>5. Coalesce(t, s) >= Coalesce(u, s)
  BY DEF Coalesce, Tier, Headroom, Balanced, Constrained
<1> QED BY <1>2, <1>3, <1>4, <1>5 DEF PolicyForTier

\* Counting the time since an instant stays within the horizon.
LEMMA SpanTyped ==
  /\ Horizon \in Nat /\ Never \notin Span
  /\ \A span \in Span, d \in Nat :
       Later(span, d) \in Span /\ Later(span, d) >= span
  /\ \A a, b \in Span, d \in Nat : a <= b => Later(a, d) <= Later(b, d)
BY GovernorAssumption DEF Horizon, Span, Never, Later

LEMMA HeldTyped ==
  ASSUME NEW span \in Span \cup {Never}, NEW holds, NEW d \in Nat
  PROVE HeldFor(span, holds, d) \in Span \cup {Never}
BY SpanTyped DEF HeldFor, Span

LEMMA InitInv == Init => IInv
<1> SUFFICES ASSUME Init PROVE IInv OBVIOUS
<1>1. sample \in Sample
  BY DEF Init, Unloaded, Sample
<1>2. tier \in Tier
  BY DEF Init, Headroom, Tier
<1>3. policy \in [tier : Tier, allowed : SUBSET Work, blur : 0..100,
                 previewScale : 0..100, coalesce : 0..120]
  BY <1>2, PolicyTyped DEF Init
<1>4. sinceFall \in Span
  BY SpanTyped DEF Init, Span
<1> QED BY <1>1, <1>2, <1>3, <1>4 DEF Init, IInv, TypeOK, CalmIsRecent, PolicyIsCurrent

LEMMA StepInv == IInv /\ [Next]_vars => IInv'
<1> SUFFICES ASSUME IInv, [Next]_vars PROVE IInv' OBVIOUS
<1>1. CASE UNCHANGED vars
  BY <1>1 DEF vars, IInv, TypeOK, CalmIsRecent, PolicyIsCurrent
<1>2. CASE Next
  <2>1. PICK s \in Samples : Observe(s)
    BY <1>2 DEF Next, QualityPoll
  <2> DEFINE d == s.interval
             score == PressureScore(s)
             pressed == HeldFor(pressedFor, score >= Pressed, d)
             rested == HeldFor(restedFor, score <= Rested, d)
             changed == IF changedFor = Never THEN Never ELSE Later(changedFor, d)
             falls == Falls(pressed, score) /\ (changed = Never \/ changed >= MinDwell)
  <2>2. s \in Sample /\ d \in Nat \ {0}
    BY GovernorAssumption DEF Sample
  <2>3. score \in Int
    BY <2>2 DEF PressureScore, Sample
  <2>4. /\ pressed \in Span \cup {Never} /\ rested \in Span \cup {Never}
        /\ changed \in Span \cup {Never}
    BY <2>2, HeldTyped, SpanTyped DEF IInv, TypeOK
  <2>5. tier' \in Tier
    BY <2>1 DEF Observe, IInv, TypeOK, Tier, Ceiling, Balanced, Headroom, Falls, Emergency
  <2>6. 0 \in Span
    BY SpanTyped DEF Span
  <2>7. pressedFor' \in Span \cup {Never}
    BY <2>1, <2>4, <2>6 DEF Observe
  <2>8. restedFor' \in Span \cup {Never}
    BY <2>1, <2>4, <2>6 DEF Observe
  <2>9. changedFor' \in Span \cup {Never}
    BY <2>1, <2>4, <2>6 DEF Observe
  <2>10. sinceFall' \in Span
    BY <2>1, <2>2, <2>6, SpanTyped DEF Observe, IInv, TypeOK
  <2>11. policy' = PolicyForTier(tier', s) /\ sample' = s
    BY <2>1 DEF Observe
  <2>12. TypeOK'
    BY <2>2, <2>5, <2>7, <2>8, <2>9, <2>10, <2>11, PolicyTyped DEF TypeOK
  <2>13. CalmIsRecent'
    <3> SUFFICES ASSUME restedFor' # Never
                 PROVE restedFor' <= sinceFall' /\ pressedFor' = Never
      BY DEF CalmIsRecent
    <3>1. score <= Rested /\ ~(score >= Pressed)
      BY <2>1, <2>3, GovernorAssumption DEF Observe, HeldFor
    <3>2. pressed = Never /\ ~falls
      BY <3>1 DEF HeldFor, Falls
    <3>3. sinceFall' = Later(sinceFall, d) /\ pressedFor' = Never
      BY <2>1, <3>2 DEF Observe
    <3>4. restedFor' = 0 \/ (restedFor' = Later(restedFor, d) /\ restedFor # Never)
      BY <2>1, <3>1 DEF Observe, HeldFor
    <3>5. CASE restedFor' = 0
      BY <3>3, <3>5, <2>10 DEF Span
    <3>6. CASE restedFor' = Later(restedFor, d) /\ restedFor # Never
      BY <3>3, <3>6, <2>2, SpanTyped DEF IInv, TypeOK, CalmIsRecent
    <3> QED BY <3>3, <3>4, <3>5, <3>6
  <2> QED BY <2>11, <2>12, <2>13 DEF IInv, PolicyIsCurrent
<1> QED BY <1>1, <1>2

\* The inductive invariant of the governor.
THEOREM Invariance == Spec => []IInv
<1> QED BY InitInv, StepInv, PTL DEF Spec

\* The governor's state has its types, whatever it is shown.
THEOREM TypeCorrect == Spec => []TypeOK
<1>1. IInv => TypeOK
  BY DEF IInv
<1> QED BY <1>1, Invariance, PTL

\* Whatever the machine, a lower tier permits and costs no more than the one
\* the program is told of.
THEOREM OrderedSacrifice == Spec => []GivingUpIsOrdered
<1>1. IInv => GivingUpIsOrdered
  BY PolicyOrdered DEF IInv, TypeOK, PolicyIsCurrent, GivingUpIsOrdered
<1> QED BY <1>1, Invariance, PTL

\* For all thresholds, delays and samples: a tier comes back only after a
\* whole recovery time without a tier lost to pressure.
THEOREM NoFlapping == Spec => NoFlap
<1>1. IInv /\ [Next]_vars => (tier' > tier => sinceFall' >= RecoverAfter) \/ UNCHANGED vars
  <2> SUFFICES ASSUME IInv, Next, tier' > tier PROVE sinceFall' >= RecoverAfter
    BY DEF vars
  <2>1. PICK s \in Samples : Observe(s)
    BY DEF Next, QualityPoll
  <2> DEFINE d == s.interval
             score == PressureScore(s)
             pressed == HeldFor(pressedFor, score >= Pressed, d)
             rested == HeldFor(restedFor, score <= Rested, d)
  <2>2. s \in Sample /\ d \in Nat \ {0}
    BY GovernorAssumption DEF Sample
  <2>3. rested # Never /\ rested >= RecoverAfter /\ sinceFall' = Later(sinceFall, d)
    BY <2>1 DEF Observe, IInv, TypeOK, Tier, Ceiling, Balanced, Headroom
  <2>4. CASE restedFor = Never
    <3>1. rested = 0
      BY <2>3, <2>4 DEF HeldFor
    <3> QED BY <3>1, <2>2, <2>3, SpanTyped, GovernorAssumption DEF IInv, TypeOK, Span
  <2>5. CASE restedFor # Never
    <3>1. rested = Later(restedFor, d)
      BY <2>3, <2>5 DEF HeldFor
    <3>2. restedFor \in Span /\ sinceFall \in Span /\ restedFor <= sinceFall
      BY <2>5 DEF IInv, TypeOK, CalmIsRecent
    <3>3. Later(restedFor, d) <= Later(sinceFall, d)
      BY <3>2, <2>2, SpanTyped
    <3>4. Later(restedFor, d) \in Span /\ Later(sinceFall, d) \in Span
      BY <3>2, <2>2, SpanTyped
    <3> QED BY <3>1, <3>3, <3>4, <2>3, GovernorAssumption DEF Span, Horizon
  <2> QED BY <2>4, <2>5
<1>2. IInv /\ [Next]_vars => [tier' > tier => sinceFall' >= RecoverAfter]_vars
  BY <1>1
<1> QED BY <1>2, Invariance, PTL DEF Spec, NoFlap
=============================================================================
