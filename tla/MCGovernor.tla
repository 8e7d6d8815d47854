---- MODULE MCGovernor ----
EXTENDS Governor
\* Nothing wrong; a signal between the thresholds; pressure, which heat makes
\* of the same signal; severe pressure, from memory or from the film.
Calm0 == [Unloaded EXCEPT !.playing = TRUE]
Band == [Calm0 EXCEPT !.frames = 50]
Machines == {Calm0, Band,
             [Band EXCEPT !.throttled = TRUE],
             [Calm0 EXCEPT !.frames = 95],
             [Unloaded EXCEPT !.memory = 95, !.windowHidden = TRUE],
             [Unloaded EXCEPT !.frames = 95],
             [Unloaded EXCEPT !.throttled = TRUE, !.batterySaver = TRUE],
             [Unloaded EXCEPT !.batterySaver = TRUE, !.onBattery = TRUE, !.windowHidden = TRUE],
             [Band EXCEPT !.onBattery = TRUE],
             [Band EXCEPT !.batterySaver = TRUE]}
MCSamples == {[m EXCEPT !.interval = d] : m \in Machines, d \in {1, 4}}
====
