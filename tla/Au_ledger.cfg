SPECIFICATION Spec
CONSTANTS
    Kinds <- MCKinds
    Columns = {"x", "y"}
    Contents = {"a", "b"}
    Units = {u1, u2, u3}
    Given <- MCGiven
    Present <- MCPresent
    First <- MCFirst
    MaxRecords = 2
SYMMETRY Symmetry
INVARIANTS
    TypeOK
    ChainRooted
    SerialVerifies
    TrailExplains
    TamperEvident
PROPERTIES
    LedgerImplemented
CHECK_DEADLOCK FALSE
