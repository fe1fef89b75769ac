SPECIFICATION FairSpec
CONSTANTS
  Procs = {p1, p2}
  Accounts = {a1, a2}
  Intents = {i1, i2}
  None = None
INVARIANTS
  TypeOK
  MutualExclusion
  AtMostOncePost
  WriteAheadAudit
  PostIsAccountedFor
PROPERTIES
  NoPostBehindHalt
  ImplementsContract
  WaiterServed
CHECK_DEADLOCK FALSE
