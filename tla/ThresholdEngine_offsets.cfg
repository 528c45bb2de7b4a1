\* Every sorted stream of at most three events, written with two UTC offsets.
CONSTANTS
    a1 = a1  a2 = a2  burst = burst  paired = paired
    Rules <- OneRule
    IPs <- OneIP
    RuleOf <- Parameters
    Instants <- Minutes
    Offsets <- TwoOffsets
    MaxEvents = 3
SPECIFICATION Spec
INVARIANTS
    AlertsSpanWindow
CHECK_DEADLOCK FALSE
