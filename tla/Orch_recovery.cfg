SPECIFICATION FairSpec
CONSTANTS
  Workers = {w1, w2}
  Approvers = {}
  NSteps = 2
  GateSteps = {}
  GateIds = {g1}
  Channels = {c1}
  Actors = {boss}
  Authorized = {boss}
  Decisions = {"approve"}
  Outcomes = {"ok", "transient"}
  MaxAttempts = 1
  MaxJobs = 1
  FaultKinds = {"crash", "lock_ttl", "lock_error", "error"}
  MaxFaults = 1
  AtomicStore = FALSE
  NoProc = NoProc
INVARIANTS RepeatsReported StepsInOrder SucceededComplete OnePass
PROPERTIES LockReturned
CHECK_DEADLOCK FALSE
