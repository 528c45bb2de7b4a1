\* A block of an address that is blocked already.
CONSTANTS
    r1 = r1  r2 = r2  r3 = r3  a1 = a1  a2 = a2  old = old
    Requests <- TwoRequests
    IPs <- OneIP
    TTLs <- ShortTTL
    LegacyIds <- OneLegacy
    MaxClock = 2
    Serialised = TRUE
SYMMETRY RequestsAndIPs
SPECIFICATION Spec
INVARIANTS
    EveryAnswerAudited
CHECK_DEADLOCK FALSE
