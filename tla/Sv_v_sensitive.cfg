SPECIFICATION ServicesSpec
CONSTANTS
    RuleTexts <- MCRules
    PackRules <- MCPackRules
    GivenVersions <- MCGivenVersions
    RuleIds = {"r"}
    Jurisdictions = {"US", "CA"}
    TriggerDays <- MCDays
    AsOfDays <- MCAsOf
    MaxLoads = 2
    Packets <- MCPackets
    Requests <- MCRequests
    Breakages <- MCBreakages
    Inputs <- MCInputs
    Settings <- MCSettings
    Profile <- MCProfile
    MaxPages = 2
    NaN = 1000
INVARIANT
    SensitiveFlagged
CHECK_DEADLOCK FALSE
