SPECIFICATION FairSpec
CONSTANTS
  Procs = {p1, p2}
  Accounts = {a1}
  Intents = {i1, i2}
  None = None
PROPERTIES HaltBeforeNextAction
CHECK_DEADLOCK FALSE
