------------------------------ MODULE MCAudit ------------------------------
EXTENDS AuditChain, TLC

MCKinds == {"contact", "matter", "communication"}
MCPresent == {"contact", "matter"}
\* Each value differs from the first in one column and from the other in both.
MCGiven == {[x |-> "b", y |-> "a"], [x |-> "a", y |-> "b"]}
MCFirst == [c \in Columns |-> "a"]
Symmetry == Permutations(Units)
=============================================================================
