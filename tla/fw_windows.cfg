SPECIFICATION Spec
CONSTANTS
  p1 = p1
  p2 = p2
  Caller <- MCCallers
  Plan <- MCPlans
  Limit <- MCLimits
  W <- MCWindows
  MaxCost = 1
  Skew <- MCSkewed
  MaxSkew = 1
  MaxLag = 1
  MaxClock = 5
  MaxCount = 1
INVARIANTS TypeOK BudgetPerLife KeyOutlivesWindow InTimeWithinLimit LivesBounded ResetNotEarly
CHECK_DEADLOCK FALSE
