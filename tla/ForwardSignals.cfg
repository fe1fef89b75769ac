SPECIFICATION RSpec
CONSTANTS
  sa = sa
  sb = sb
  Symbols <- MCSymbols
  Headlines <- MCHeadlines
  Picks <- MCPicks
  Gaps <- MCGaps
  Days = 3
  Runs = {1, 2}
  MaxPositions = 1
  MaxFeed = 2
  MaxRecords = 2
  MaxEvents = 4
  Display = 1
  DartPage = 1
  BriefWindow = 2
  WatchWindow = 1
  ForwardSessions = 2
  None = None
  Torn = Torn
INVARIANTS HeldWithinLimit NoDisclosureMissed
PROPERTIES NoLookAhead ScoresSettle
CHECK_DEADLOCK FALSE
