-------------------------- MODULE MCThresholdEngine --------------------------
(* ThresholdEngine on small streams. *)
EXTENDS ThresholdEngine, TLC

CONSTANTS a1, a2, burst, paired

TwoIPs     == {a1, a2}
OneIP      == {a1}
TwoRules   == {burst, paired}
OneRule    == {burst}

\* A threshold rule like those of rules/, its cooldown longer than its
\* window, and a rule that groups by two fields, which the engine skips.
Parameters == [r \in Rules |->
    IF r = burst THEN [window |-> 2, count |-> 2, cooldown |-> 3, fields |-> 1]
                 ELSE [window |-> 2, count |-> 1, cooldown |-> 0, fields |-> 2]]

AnyIP == Permutations(IPs)

UTC        == {0}
TwoOffsets == {0, 3}
Minutes    == 0 .. 3
==============================================================================
