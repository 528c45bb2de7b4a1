-------------------------- MODULE MCDetectionRunner --------------------------
(* DetectionRunner on small instances. *)
EXTENDS DetectionRunner

CONSTANTS worker, a1, a2, burst

OneRunner == {worker}
OneIP     == {a1}
TwoIPs    == {a1, a2}
OneRule   == {burst}

\* Two events in a window.  The cooldown and the gap of the duplicate query
\* together are shorter than the time the run spans, so that a burst can be too
\* late for an old alert to stand for it.
Parameters == [r \in Rules |-> [window |-> 1, count |-> 2, cooldown |-> 1, fields |-> 1]]

\* The second address writes its timestamps in another zone.
TwoZones == [ip \in IPs |-> IF ip = a2 THEN {2} ELSE {0}]
UTC      == [ip \in IPs |-> {0}]

\* One event, like rule 005: every event of its own is a burst.
Singles == [r \in Rules |-> [window |-> 1, count |-> 1, cooldown |-> 3, fields |-> 1]]
==============================================================================
