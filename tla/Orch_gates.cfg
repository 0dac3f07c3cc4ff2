SPECIFICATION Spec
CONSTANTS
  Workers = {w1}
  Approvers = {a1, a2}
  NSteps = 2
  GateSteps = {1}
  GateIds = {g1}
  Channels = {c1, c2}
  Actors = {boss, guest}
  Authorized = {boss}
  Decisions = {"approve", "reject"}
  Outcomes = {"ok", "transient"}
  MaxAttempts = 2
  MaxJobs = 1
  FaultKinds = {"crash", "token_ttl", "error"}
  MaxFaults = 1
  AtomicStore = TRUE
  NoProc = NoProc
INVARIANTS TypeOK GateRespected TokenOnce
PROPERTIES ContractKept
CHECK_DEADLOCK FALSE
