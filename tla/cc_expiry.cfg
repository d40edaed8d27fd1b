SPECIFICATION Spec
CONSTANTS
  p1 = p1
  p2 = p2
  p3 = p3
  Caller <- MCThreeCallers
  Limit = 2
  MaxCost = 2
  TtlSec = 1
  MaxAborts = 1
  HasRelease = TRUE
SYMMETRY Symmetry
INVARIANTS TypeOK CounterCoversGrants LiveCallsWithinLimit NoImmortalCharge NoUnitWithheld
PROPERTY ImplementsForgetfulSemaphore
