SPECIFICATION Spec
CONSTANTS
    Kinds <- MCKinds
    Columns = {"x", "y"}
    Contents = {"a", "b"}
    Units = {u1, u2}
    Given <- MCGiven
    Present <- MCPresent
    First <- MCFirst
    MaxRecords = 1
INVARIANTS LogVerifies
CHECK_DEADLOCK FALSE
