SPECIFICATION FairSpec
CONSTANTS
  p1 = p1
  p2 = p2
  p3 = p3
  Caller <- MCTwoCallers
  Limit = 2
  MaxCost = 2
  TtlSec = 2
  MaxAborts = 2
  HasRelease = FALSE
PROPERTIES LeakReclaimed DebtForgotten TrafficKeepsNoKey
INVARIANT BudgetPerKeyLife
