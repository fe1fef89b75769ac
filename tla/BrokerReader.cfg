SPECIFICATION ReaderSpec
CONSTANTS
  DayOrders = {1, 2, 3}
  Shares = 2
  PageSize = 1
  MaxPages = 2
  None = None
INVARIANTS NothingLost FinalWhenNotOpen
CHECK_DEADLOCK FALSE
