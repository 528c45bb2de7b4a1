\* Requests that do not overlap: three calls on two addresses, blocks expiring in between.
CONSTANTS
    r1 = r1  r2 = r2  r3 = r3  a1 = a1  a2 = a2  old = old
    Requests <- ThreeRequests
    IPs <- TwoIPs
    TTLs <- ShortTTL
    LegacyIds <- OneLegacy
    MaxClock = 3
    Serialised = TRUE
SYMMETRY RequestsAndIPs
SPECIFICATION Spec
INVARIANTS
    ChainVerifies
    OneBlockInForce
    UnblockCoversEarlierBlocks
    TamperingIsLocalised
PROPERTIES
    ImplementsRegistry
CHECK_DEADLOCK FALSE
