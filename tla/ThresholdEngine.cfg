\* Every sorted stream of at most four events whose timestamps share one offset.
CONSTANTS
    a1 = a1  a2 = a2  burst = burst  paired = paired
    Rules <- TwoRules
    IPs <- TwoIPs
    RuleOf <- Parameters
    Instants <- Minutes
    Offsets <- UTC
    MaxEvents = 4
SYMMETRY AnyIP
SPECIFICATION Spec
INVARIANTS
    TypeOK
    AlertsSpanWindow
    AlertsCountBurst
    CooldownKept
    NoBurstMissed
CHECK_DEADLOCK FALSE
