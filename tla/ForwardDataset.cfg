CONSTANTS
  s1 = s1
  s2 = s2
  Symbols = {s1, s2}
  KOSPI = KOSPI
  None = None
  Error = Error
  Torn = Torn
  Watchlist <- Both
  Universes <- Growing
  Requests <- WarmUpAndSession
  Days = 4
  FirstDay = 3
  PageSize = 2
  MaxRequests = 3
  MaxFaults = 1
  Late = {s1}
  OwnDirectory = TRUE
SPECIFICATION Spec
INVARIANTS WholeHistory ReportedComplete DatasetSound
PROPERTIES RoutineFinishes
CHECK_DEADLOCK FALSE
