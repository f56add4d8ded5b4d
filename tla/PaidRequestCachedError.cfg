SPECIFICATION Spec
CONSTANTS
  Reqs = {r1, r2}
  Shapes <- MCShapes
  Keys = {k1, k2}
  Payments = {p1, p2, p3}
  Bodies = {b1, b2}
  NoKey = NoKey  NoEntry = NoEntry  NoReq = NoReq
  k1 = k1  k2 = k2  p1 = p1  p2 = p2  p3 = p3  b1 = b1  b2 = b2
  PruneEvery = 2
  AsyncMarks = FALSE
  MaxTimeouts = 1
  MaxCrashes = 0
INVARIANT CacheHoldsResults
CHECK_DEADLOCK FALSE
