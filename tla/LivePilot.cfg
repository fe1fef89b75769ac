SPECIFICATION Spec
CONSTANTS
  Runs = {r1, r2}
  Accounts = {a1}
  Days = 2
  Sizes = {1, 2}
  MaxPositions = 1
  Limits <- MCLimits
  Jobs <- MCJobs
  MaxEvents = 3
INVARIANTS
  UncountedOrderHalts
  DailyBudget
  SwitchStopsAllButOne
SYMMETRY RunSymmetry
CHECK_DEADLOCK FALSE
