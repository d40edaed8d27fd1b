SPECIFICATION Spec
CONSTANTS
  p1 = p1
  p2 = p2
  p3 = p3
  Caller <- MCOneCaller
  Limit = 1
  MaxCost = 1
  TtlSec = 2
  MaxAborts = 0
  HasRelease = FALSE
PROPERTY RefusedOnlyWhenFull
