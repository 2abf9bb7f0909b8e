SPECIFICATION Spec
CONSTANTS
  c1 = c1
  c2 = c2
  x1 = x1
  x2 = x2
  x3 = x3
  Ticker = Ticker
  Coordinator = Coordinator
  Nobody = Nobody
  Callers = {c1}
  Closers = {x1, x2, x3}
  Closes <- TwoAndOne
INVARIANTS
  StoppedWhenClosed
  LocksAreOwned
PROPERTIES
  CallsReturn
  CloseEnds
  OutageEndsInFallback
  RecoveryEndsFallback
