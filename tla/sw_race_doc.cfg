SPECIFICATION Spec
CONSTANTS
  p1 = p1
  p2 = p2
  p3 = p3
  Caller <- MCTwoCallers
  Plan <- MCOnePlan
  Limit <- MCLimits
  WindowSec <- MCWindows
  MS = 2
  MaxCost = 1
  MaxLag = 1
  MaxClock = 3
  MaxCollided = 0
INVARIANT LogWithinLimit
CHECK_DEADLOCK FALSE
