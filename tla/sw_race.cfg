SPECIFICATION Spec
CONSTANTS
  p1 = p1
  p2 = p2
  p3 = p3
  Caller <- MCThreeCallers
  Plan <- MCPlans
  Limit <- MCLimits
  WindowSec <- MCWindows
  MS = 2
  MaxCost = 2
  MaxLag = 1
  MaxClock = 7
  MaxCollided = 0
SYMMETRY Symmetry
VIEW View
INVARIANTS TypeOK LogWithinRace
PROPERTY ExpiryForgetsNothing
CHECK_DEADLOCK FALSE
