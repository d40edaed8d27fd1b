SPECIFICATION Spec
CONSTANTS
  p1 = p1
  p2 = p2
  Caller <- MCCallers
  Cap = 2
  Rates = {0, 1}
  MaxCost = 3
  MS = 1
  NoRefillTtl = 6
  Skew <- MCSkewed
  MaxSkew = 1
  MaxLag = 2
  MaxClock = 8
  MaxRewind = 0
INVARIANTS TypeOK ForgottenMeansFull RateBound
PROPERTIES ImplementsIdealBucket RetryWithinOneTick
CHECK_DEADLOCK FALSE
