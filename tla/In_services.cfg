SPECIFICATION MCSpec
CONSTANTS
    Leads = {l1, l2}
    Payloads <- MCPayloads
    Known <- MCKnown
    Contains <- MCContains
    RequiredFields <- MCRequired
    DeadlineRules <- MCDeadlineRules
    RegisteredRules = {"r1", "r2"}
    DefaultType = "default"
    MaxAttempts = 2
    MaxFaults = 3
    RuleTexts <- MCRules
    PackRules <- MCPackRules
    GivenVersions <- MCGivenVersions
    RuleIds = {"r"}
    Jurisdictions = {"US", "CA"}
    TriggerDays <- MCDays
    AsOfDays <- MCAsOf
    MaxLoads = 2
    Packets <- MCPackets
    Requests <- MCRequests
    Breakages <- MCBreakages
    Inputs <- MCInputs
    Settings <- MCSettings
    Profile <- MCProfile
    MaxPages = 2
    NaN = 1000
SYMMETRY Symmetry
INVARIANTS
    RightClient
    NoNeedlessDuplicate
    WelcomeOnce
    DeadlinesComplete
    DueDateRight
    QcFailClosed
    ExtractionSound
CHECK_DEADLOCK FALSE
