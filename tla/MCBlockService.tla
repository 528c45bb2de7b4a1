--------------------------- MODULE MCBlockService ---------------------------
(* BlockService and its refinement on a small instance. *)
EXTENDS BlockServiceRefinement, AuditTampering, TLC

CONSTANTS r1, r2, r3, a1, a2, old

TwoRequests   == {r1, r2}
ThreeRequests == {r1, r2, r3}
OneIP         == {a1}
TwoIPs        == {a1, a2}
OneLegacy     == {old}
ShortTTL      == {0, 2}

RequestsAndIPs == Permutations(Requests) \cup Permutations(IPs)
=============================================================================
