CONSTANTS
  Devices = {d1}
  MaxOps = 2
  BatchLimit = 2
  MaxLate = 1
  Heals = TRUE
  ServerLoses = FALSE
SPECIFICATION FairSpec
CHECK_DEADLOCK FALSE
PROPERTIES
  KeepsPromise
  RevokedDeviceWipes
