SPECIFICATION Spec
CONSTANTS
  Orders = {o1, o2}
  Settlers = {s1, s2}
  Quantity = 2
  Days = 2
INVARIANTS
  SettledIsFinal
  DoubleBookingNeedsKill
  CostBasisKept
CHECK_DEADLOCK FALSE
