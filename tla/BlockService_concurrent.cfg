\* Overlapping block and unblock requests, with failures.
CONSTANTS
    r1 = r1  r2 = r2  r3 = r3  a1 = a1  a2 = a2  old = old
    Requests <- ThreeRequests
    IPs <- OneIP
    TTLs <- ShortTTL
    LegacyIds <- OneLegacy
    MaxClock = 2
    Serialised = FALSE
SYMMETRY RequestsAndIPs
SPECIFICATION Spec
INVARIANTS
    TypeOK
    RegistryMatchesAudit
    AnswersAreCommitted
    ChainIsRooted
CHECK_DEADLOCK FALSE
