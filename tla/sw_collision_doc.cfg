SPECIFICATION Spec
CONSTANTS
  p1 = p1
  p2 = p2
  p3 = p3
  Caller <- MCOneCaller
  Plan <- MCOnePlan
  Limit <- MCLimits
  WindowSec <- MCWindows
  MS = 2
  MaxCost = 1
  MaxLag = 1
  MaxClock = 4
  MaxCollided = 1
INVARIANT EveryWindowWithinLimit
CHECK_DEADLOCK FALSE
