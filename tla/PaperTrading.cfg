SPECIFICATION Spec
CONSTANTS
  Invocations = {r1, r2, r3}
  Symbols = {a, b}
  Dates = 3
  MaxPositions = 1
  InitialCash = 6
  Amounts = {2, 3}
  Fee = 1
INVARIANTS
  AccountReconciles
  CapacityUpToStuckExits
SYMMETRY PaperSymmetry
CHECK_DEADLOCK FALSE
