SPECIFICATION Spec
CONSTANTS
  Requests = {q1, q2}
  MaxEvents = 2
  FaultKinds = {"duplicate", "redis", "enqueue", "send", "store", "restart"}
  MaxFaults = 3
  Statuses = {open, won}
  AllowList = {won}
  First = open
  NoStatus = NoStatus
  MaxIdle = 1
  MaxSweeps = 3
  MaxDecisions = 2
INVARIANTS TypeOK SealHonest AckedReachSink
PROPERTIES MailedOnce
CHECK_DEADLOCK FALSE
