------------------------------ MODULE Governor ------------------------------
(***************************************************************************)
(* The resource governor (src/src/governor.cpp): from one sample of the    *)
(* machine at a time it decides the tier, and with it what secondary work  *)
(* the rest of the program may do.  QualityPoll in main.cpp feeds it on    *)
(* the window thread.                                                      *)
(*                                                                         *)
(* Data: pressures are percentages.  A sample keeps the worst of the       *)
(* memory signals and the worst of the frame signals, which count only     *)
(* while a film plays.  The instants the code remembers are kept as the    *)
(* time since, Never where it has -1, counted up to Horizon, which is      *)
(* longer than any delay they are compared with.                           *)
(***************************************************************************)
EXTENDS Integers, FiniteSets

CONSTANTS
  Samples,       \* the samples the machine may give
  Rested, Pressed, Severe,   \* thresholds in percent         (code: 25, 60, 90)
  DegradeFast,   \* severe pressure before a tier is given up (code: 0.4 s)
  DegradeAfter,  \* pressure before a tier is given up        (code: 1.2 s)
  MinDwell,      \* time between two changes                  (code: 2.0 s)
  RecoverAfter   \* calm before a tier is taken back          (code: 5.0 s)

Sample == [interval : Nat \ {0},       \* since the last poll    (code: 0.25 s up)
           memory : 0..100, frames : 0..100, playing : BOOLEAN,
           windowHidden : BOOLEAN, onBattery : BOOLEAN, batterySaver : BOOLEAN,
           throttled : BOOLEAN]

ASSUME GovernorAssumption ==
  /\ Samples \subseteq Sample
  /\ Rested \in Nat /\ Pressed \in Nat /\ Severe \in Nat
  /\ Rested < Pressed /\ Pressed <= Severe
  /\ DegradeFast \in Nat \ {0} /\ DegradeAfter \in Nat
  /\ MinDwell \in Nat /\ RecoverAfter \in Nat
  /\ DegradeFast <= DegradeAfter /\ DegradeAfter <= MinDwell
  /\ MinDwell <= RecoverAfter

VARIABLES
  tier,          \* 0 Emergency, 1 Constrained, 2 Balanced, 3 Headroom
  policy,        \* what was last published
  pressedFor,    \* time since pressedSince_
  restedFor,     \* time since restedSince_
  changedFor,    \* time since changedAt_
  sample,        \* history: the sample last observed
  sinceFall      \* history: time since pressure last took a tier away

vars == <<tier, policy, pressedFor, restedFor, changedFor, sample, sinceFall>>

Tier == 0..3
Emergency == 0
Constrained == 1
Balanced == 2
Headroom == 3

Horizon == RecoverAfter
Never == -1
Span == 0..Horizon
Later(span, d) == IF span + d > Horizon THEN Horizon ELSE span + d

\* The worst signal decides; heat and battery saving add to it.
PressureScore(s) ==
  LET worst == IF s.playing /\ s.frames > s.memory THEN s.frames ELSE s.memory
      sum == worst + (IF s.throttled THEN 15 ELSE 0) + (IF s.batterySaver THEN 10 ELSE 0)
  IN  IF sum > 100 THEN 100 ELSE sum

Work == {"glass", "neighbourPrefetch", "backgroundIndexing", "previewGeneration",
         "sceneAnalysis", "aiTranscription", "enhancement"}

\* Mutant: an emergency leaves the timeline previews running.
PermittedPreviewing(t) ==
  CASE t = Headroom    -> Work
    [] t = Balanced    -> Work \ {"sceneAnalysis"}
    [] t = Constrained -> {"glass"}
    [] OTHER           -> {"previewGeneration"}

\* The work a tier permits, and what battery and a hidden window take away.
Permitted(t) ==
  CASE t = Headroom    -> Work
    [] t = Balanced    -> Work \ {"sceneAnalysis"}
    [] t = Constrained -> {"glass"}
    [] OTHER           -> {}
Withheld(s) ==
  {w \in Work :
     \/ s.onBattery /\ w \in {"enhancement", "sceneAnalysis"}
     \/ s.batterySaver /\ w = "aiTranscription"
     \/ s.windowHidden /\ w \in {"previewGeneration", "glass"}
     \/ s.windowHidden /\ (s.onBattery \/ s.batterySaver) /\ w = "backgroundIndexing"}

\* What the permitted work may cost: the blur, the previews' size, and how
\* long preview requests are gathered.
Blur(t, s) == IF s.windowHidden THEN 0
              ELSE CASE t = Headroom -> 100 [] t = Balanced -> 75
                     [] t = Constrained -> 40 [] OTHER -> 0
PreviewScale(t, s) == CASE t = Headroom -> IF s.batterySaver THEN 50 ELSE 100
                        [] t = Balanced -> IF s.batterySaver THEN 50 ELSE 60
                        [] OTHER -> 50
Coalesce(t, s) == CASE t = Headroom -> IF s.batterySaver THEN 66 ELSE 16
                    [] t = Balanced -> IF s.batterySaver THEN 66 ELSE 33
                    [] t = Constrained -> 66
                    [] OTHER -> 120

PolicyForTier(t, s) ==
  [tier |-> t, allowed |-> Permitted(t) \ Withheld(s), blur |-> Blur(t, s),
   previewScale |-> PreviewScale(t, s), coalesce |-> Coalesce(t, s)]

\* Reset, before anything has been observed.
Unloaded == [interval |-> 1, memory |-> 0, frames |-> 0,
             playing |-> FALSE, windowHidden |-> FALSE, onBattery |-> FALSE,
             batterySaver |-> FALSE, throttled |-> FALSE]
Init ==
  /\ tier = Headroom /\ policy = PolicyForTier(Headroom, Unloaded)
  /\ pressedFor = Never /\ restedFor = Never /\ changedFor = Never
  /\ sample = Unloaded /\ sinceFall = Horizon
-----------------------------------------------------------------------------
\* How long a condition has held, once it is known whether it still does.
\* Mutant: a condition that pauses keeps its time.
HeldForStill(span, holds, d) ==
  IF span = Never THEN IF holds THEN 0 ELSE Never ELSE Later(span, d)
\* Mutant: the time starts anew with every sample.
HeldForAnew(span, holds, d) == IF holds THEN 0 ELSE Never
HeldFor(span, holds, d) ==
  IF ~holds THEN Never ELSE IF span = Never THEN 0 ELSE Later(span, d)

\* Mutant: the ladder has no bottom.
FallsPastEmergency(pressed, score) ==
  pressed # Never /\ pressed >= (IF score >= Severe THEN DegradeFast ELSE DegradeAfter)
\* Pressure has lasted long enough to cost a tier.
Falls(pressed, score) ==
  /\ pressed # Never /\ pressed >= (IF score >= Severe THEN DegradeFast ELSE DegradeAfter)
  /\ tier > Emergency

Ceiling(s) == IF s.batterySaver THEN Balanced ELSE Headroom

\* The ceiling of battery saving comes last and asks for no delay.
Observe(s) ==
  LET d == s.interval
      score == PressureScore(s)
      pressed == HeldFor(pressedFor, score >= Pressed, d)
      rested == HeldFor(restedFor, score <= Rested, d)
      changed == IF changedFor = Never THEN Never ELSE Later(changedFor, d)
      dwelt == changed = Never \/ changed >= MinDwell
      falls == Falls(pressed, score) /\ dwelt
      rises == ~falls /\ rested # Never /\ rested >= RecoverAfter /\ dwelt /\ tier < Ceiling(s)
      moved == IF falls THEN tier - 1 ELSE IF rises THEN tier + 1 ELSE tier
      clamps == moved > Ceiling(s)
  IN  /\ tier' = IF clamps THEN Ceiling(s) ELSE moved
      /\ policy' = PolicyForTier(tier', s)
      /\ pressedFor' = IF falls THEN 0 ELSE pressed
      /\ restedFor' = IF rises THEN 0 ELSE rested
      /\ changedFor' = IF falls \/ rises \/ clamps THEN 0 ELSE changed
      /\ sample' = s
      /\ sinceFall' = IF falls THEN 0 ELSE Later(sinceFall, d)

\* One poll of the machine.
QualityPoll ==
  \E s \in Samples : Observe(s)

Next == QualityPoll
Spec == Init /\ [][Next]_vars
\* Timers of 250 and 350 ms wake the window thread for as long as it lives.
FairSpec == Spec /\ WF_vars(Next)
-----------------------------------------------------------------------------
(* What the governor promises.                                              *)

\* Types.
TypeOK ==
  /\ tier \in Tier
  /\ policy \in [tier : Tier, allowed : SUBSET Work, blur : 0..100,
                 previewScale : 0..100, coalesce : 0..120]
  /\ pressedFor \in Span \cup {Never} /\ restedFor \in Span \cup {Never}
  /\ changedFor \in Span \cup {Never}
  /\ sample \in Sample
  /\ sinceFall \in Span

\* The tier does not flap: what pressure has taken away is not given back
\* before a whole recovery time has passed since the last of it went.
NoFlap == [][tier' > tier => sinceFall' >= RecoverAfter]_vars

\* What is given up is given up in one order: a lower tier never permits, or
\* lets cost, more than a higher one does on the same machine.
GivingUpIsOrdered ==
  \A t \in Tier : t < tier =>
    LET lower == PolicyForTier(t, sample)
    IN  /\ lower.allowed \subseteq policy.allowed /\ lower.blur <= policy.blur
        /\ lower.previewScale <= policy.previewScale /\ lower.coalesce >= policy.coalesce

\* A machine that stays calm, plugged in and visible gets everything back.
Calm == PressureScore(sample) <= Rested /\ ~sample.batterySaver
          /\ ~sample.onBattery /\ ~sample.windowHidden
CalmGivesAllBack == <>[]Calm => <>[](policy.allowed = Work)

\* A machine under pressure that does not let up ends with playback alone.
PressureShedsAll ==
  <>[](PressureScore(sample) >= Pressed) => <>[](policy.allowed = {})
=============================================================================
