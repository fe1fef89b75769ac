SPECIFICATION Spec
CONSTANTS
  Symbols = {a, b, c}
  Prices = {2, 3}
  Days = 4
  InitialCash = 10
  Fee = 1
  MaxPositions = 2
  MaxHold = 2
  TrendAge = 1
  StopPct = 30
  RiskPct = 20
  NotionalPct = 60
  LossPct = 20
  GapPct = 60
INVARIANTS
  TypeOK
  ProceedsWait
  PositionCap
  AgeBounded
PROPERTIES LossStopsEntries
SYMMETRY SymbolSymmetry
CHECK_DEADLOCK FALSE
