SPECIFICATION Spec
CONSTANTS
  Closers = {c1}
  Cancellers = {k1}
  MaxLots = 2
  VerifyAttempts = 2
  MinLots = 1
  Nobody = nobody
INVARIANT ClosedMeansFilled
CHECK_DEADLOCK FALSE
