SPECIFICATION Spec
CONSTANTS
  p1 = p1
  p2 = p2
  p3 = p3
  k1 = k1
  k2 = k2
  k3 = k3
  v1 = v1
  v2 = v2
  t1 = t1
  t2 = t2
  None = None
  Zero = Zero
  Undefined = Undefined
  Keys = {k1, k2, k3}
  Values = {v1}
  Policies = {p1, p2}
  First = p1
  Sampled = {k1, k2}
  Lossy = {}
  Threads = {t1}
  InitialCap <- TwoArms
  RateNum = 1
  RateDen = 2
  MinShadowCapacity = 1
  Sizes = {1, 3}
  Strategies = {"gradual"}
  ObserveOnly = TRUE
  EvictPartial = FALSE
  HasTicker = TRUE
  EpochRequests = 0
  SwitchCooldownEpochs = 0
  MinEpochRequests = 0
  MinImprovement = 0
  MaxRequests = 1
  MaxEpochs = 2
PROPERTIES
  ObserveOnlyIsSinglePolicy
