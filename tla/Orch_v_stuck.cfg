SPECIFICATION SweptSpec
CONSTANTS
  Workers = {w1}
  Approvers = {}
  NSteps = 1
  GateSteps = {}
  GateIds = {g1}
  Channels = {c1}
  Actors = {boss}
  Authorized = {boss}
  Decisions = {"approve"}
  Outcomes = {"ok"}
  MaxAttempts = 2
  MaxJobs = 1
  FaultKinds = {"crash"}
  MaxFaults = 1
  AtomicStore = TRUE
  NoProc = NoProc
PROPERTIES RunSettles
CHECK_DEADLOCK FALSE
