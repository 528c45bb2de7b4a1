\* Two analysts at two browsers: triage, summaries and an admin's click.
CONSTANTS
    p1 = p1  p2 = p2  s1 = s1  s2 = s2  block = block
    b1 = b1  b2 = b2  ann = ann  bob = bob  text = text
    Patches <- TwoPatches
    Summaries <- TwoSummaries
    AdminClicks <- OneBlock
    Browsers <- TwoBrowsers
    Users <- TwoUsers
    Texts <- OneText
    Statuses <- TwoStatuses
    LLMEnabled = TRUE
    Accounts <- AnnIsAdmin
    FirstUser <- OneEach
    Workers = 2
    MaxActs = 4
SPECIFICATION DashSpec
INVARIANTS
    DashTypeOK
    TriageStands
    AnswersShowEffect
    SummaryGeneratedOnce
    OnlyAdminsBlock
    NotesStayUntilEdited
PROPERTIES
    UpdateIsShown
CHECK_DEADLOCK FALSE
