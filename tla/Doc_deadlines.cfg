SPECIFICATION MCSpec
CONSTANTS
    Matters = {m1}
    Gens = {g1, g2}
    Contexts = {"full", "gap"}
    GapContexts = {"gap"}
    OverrideKeys = {"o"}
    NoOverride = "none"
    TemplateName = "letter"
    Bytes = {b1, b2}
    Versions = {1, 2}
    MaxTemplates = 2
    Routes = {t1, t2}
    Recipients = {"x"}
    Principals = {"attorney", "paralegal"}
    ClassPolicy <- MCPolicy
    FieldChoices <- MCFields
    Threshold = 80
    NReminders = 1
    Offset <- MCOffset
    DueTimes = {1}
    MaxTime = 2
    MaxCalls = 2
    MaxLevel = 1
    MaxRetries = 2
    FaultKinds = {"notify", "redis", "arm", "restart"}
    MaxFaults = 1
    Celery = FALSE
SYMMETRY Symmetry
VIEW Seen
CONSTRAINT RoutedSimple
INVARIANTS
    VersionsDistinct
    ContentAsAsked
    PrivilegedNotShared
    FilingRecorded
    TypeOK
    FiredDelivered
PROPERTY
    FlaggedSilent
CHECK_DEADLOCK FALSE
