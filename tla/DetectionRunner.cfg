\* One worker that goes on running: late events, crashes, triage; two addresses.
CONSTANTS
    worker = worker  a1 = a1  a2 = a2  burst = burst
    Runners <- OneRunner
    Rules <- OneRule
    Severe <- OneRule
    IPs <- TwoIPs
    RuleOf <- Parameters
    Lookback = 1
    DedupeGap = 1
    Ahead = 1
    ZonesOf <- TwoZones
    MaxClock = 2
    MaxEvents = 4
    MaxCrashes = 1
    MaxAlerts = 2
    SmtpFails = FALSE
SPECIFICATION Spec
INVARIANTS
    NoDuplicateOpen
    AlertsJustified
    RunCoversSnapshot
    MailsLostOnlyByCrashes
PROPERTIES
    BurstsAreAlerted
CHECK_DEADLOCK FALSE
