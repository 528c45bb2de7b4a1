\* Two overlapping requests that do not fork the chain.
CONSTANTS
    r1 = r1  r2 = r2  r3 = r3  a1 = a1  a2 = a2  old = old
    Requests <- TwoRequests
    IPs <- OneIP
    TTLs <- ShortTTL
    LegacyIds <- OneLegacy
    MaxClock = 2
    Serialised = FALSE
SYMMETRY RequestsAndIPs
SPECIFICATION Spec
INVARIANTS
    IntactChainVerifies
CHECK_DEADLOCK FALSE
