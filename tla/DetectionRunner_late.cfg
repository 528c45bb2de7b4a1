\* An older burst that arrives after a younger one was alerted.
CONSTANTS
    worker = worker  a1 = a1  a2 = a2  burst = burst
    Runners <- OneRunner
    Rules <- OneRule
    Severe <- OneRule
    IPs <- OneIP
    RuleOf <- Singles
    Lookback = 4
    DedupeGap = 1
    Ahead = 0
    ZonesOf <- UTC
    MaxClock = 3
    MaxEvents = 2
    MaxCrashes = 0
    MaxAlerts = 0
    SmtpFails = FALSE
SPECIFICATION Spec
PROPERTIES
    OnlyNearDuplicatesDropped
CHECK_DEADLOCK FALSE
