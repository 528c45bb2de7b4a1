----------------------------- MODULE MCDashboard -----------------------------
(* Dashboard on a small instance. *)
EXTENDS Dashboard

CONSTANTS p1, p2, s1, s2, block, b1, b2, ann, bob, text

TwoPatches   == {p1, p2}
TwoSummaries == {s1, s2}
OneBlock     == {block}
TwoBrowsers  == {b1, b2}
TwoUsers     == {ann, bob}
OneText      == {text}
OneEach      == [b \in Browsers |-> IF b = b1 THEN ann ELSE bob]
TwoStatuses  == {"open", "closed"}
AnnIsAdmin   == [u \in Users |-> IF u = ann THEN "admin" ELSE "hash"]
==============================================================================
