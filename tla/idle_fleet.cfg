CHECK_DEADLOCK FALSE
SPECIFICATION Spec
CONSTANTS
  r1 = r1
  r2 = r2
  p1 = p1
  p2 = p2
  Undefined = Undefined
  NoShape = NoShape
  Policies = {p1, p2}
  Replicas = {r1, r2}
  Capacities = {10}
  CoordinationEpoch = 3
  Window = 1
  Mode = "leader"
  Kind = "mem"
  Gets = {0, 1}
  Evidence = "all"
  Jitter = 1
  SyncTimeout = 3
  FallbackAfter = 3
  MaxTime = 6
  MaxReports = 2
  MaxFaults = 0
SYMMETRY Interchangeable
INVARIANTS
  DecidesOnEvidence
