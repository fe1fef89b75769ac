CONSTANTS
  s1 = s1
  s2 = s2
  Symbols = {s1, s2}
  KOSPI = KOSPI
  None = None
  Error = Error
  Torn = Torn
  Watchlist <- Both
  Universes <- One
  Requests <- TwoDates
  Days = 3
  FirstDay = 2
  PageSize = 2
  MaxRequests = 3
  MaxFaults = 0
  Late = {s1}
  OwnDirectory = FALSE
SPECIFICATION Spec
PROPERTIES EveryDayPrepared
CHECK_DEADLOCK FALSE
