SPECIFICATION Spec
CONSTANTS
  p1 = p1
  p2 = p2
  p3 = p3
  k1 = k1
  k2 = k2
  k3 = k3
  v1 = v1
  v2 = v2
  t1 = t1
  t2 = t2
  None = None
  Zero = Zero
  Undefined = Undefined
  Keys = {k1}
  Values = {v1}
  Policies = {p1, p2}
  First = p1
  Sampled = {k1}
  Lossy = {}
  Threads = {t1, t2}
  InitialCap <- TwoArms
  RateNum = 1
  RateDen = 1
  MinShadowCapacity = 1
  Sizes = {}
  Strategies = {"cold"}
  ObserveOnly = FALSE
  EvictPartial = TRUE
  HasTicker = FALSE
  EpochRequests = 2
  SwitchCooldownEpochs = 0
  MinEpochRequests = 0
  MinImprovement = 0
  MaxRequests = 6
  MaxEpochs = 3
INVARIANTS
  RequestClockKeepsRunning
