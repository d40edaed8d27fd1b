SPECIFICATION Spec
CONSTANTS
  p1 = p1
  p2 = p2
  p3 = p3
  Caller <- MCOneCaller
  Plan <- MCPlans
  Limit <- MCLimits
  WindowSec <- MCWindows
  MS = 2
  MaxCost = 2
  MaxLag = 2
  MaxClock = 7
  MaxCollided = 1
INVARIANT WindowBoundButCollisions
PROPERTY RetryFreesOneUnit
CHECK_DEADLOCK FALSE
