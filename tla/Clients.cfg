\* One client at a time beside one runner, or two runners and nobody; one address.
CONSTANTS
    worker = worker  detect = detect  a1 = a1  burst = burst  probe = probe
    Runners <- TwoRunners
    Rules <- TwoRules
    ZonesOf <- UTC
    IPs <- OneIP
    RuleOf <- Pairs
    Lookback = 2
    DedupeGap = 0
    Ahead = 0
    Severe = {}
    MaxClock = 1
    MaxEvents = 4
    MaxCrashes = 0
    MaxAlerts = 2
    SmtpFails = FALSE
    MaxAge = 1
    Decay <- FourDays
    SeverityOf <- AllLow
    Retention = 0
    PageSize = 1
    TopItems = 1
    ValueOf <- Values
    Shape <- Own
    AttackIP <- OnlyIP
    Limit = 1
    ClientKinds <- AllKinds
    RunnersBeside <- WhoDetects
    EventsBeside <- HowMany
    MatchesBeside <- WhichRules
    MaxLeft = 2
    Ranges <- AllRanges
SPECIFICATION ClientsSpec
INVARIANTS
    SummaryAddsUp
    EvidenceBacksAlerts
    RiskAgreesWithList
    PagesMissOnlyWhatMoved
    DetectedAttacksReported
    DuplicatesNeedARace
PROPERTIES
    RiskFollowsAlerts
CHECK_DEADLOCK FALSE
