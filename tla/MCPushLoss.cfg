CONSTANTS
  Devices = {d1}
  MaxOps = 3
  BatchLimit = 2
  MaxLate = 1
  Heals = FALSE
  ServerLoses = TRUE
SPECIFICATION Spec
CHECK_DEADLOCK FALSE
INVARIANTS
  TypeOK
  RecordedOnceInOrder
  OutboxAgrees
  WipeLosesNothing
  FlaggedSinceRevoke
