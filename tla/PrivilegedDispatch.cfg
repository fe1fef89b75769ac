SPECIFICATION FairSpec
CONSTANTS
  Verifiers = {v1, v2}
  Nonces = {n1, n2}
  Handlers = {h1, h2}
  None = None
  MaxTime = 2
INVARIANTS
  TypeOK
  OneDispatchPerNonce
  ApprovalIsDurable
  OnlyAdmittedConsumed
PROPERTIES
  WriterReleases
  ImplementsOneShot
CHECK_DEADLOCK FALSE
