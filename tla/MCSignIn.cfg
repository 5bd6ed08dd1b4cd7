SPECIFICATION SignInSpec
CONSTANTS
  Users = {u1}
  DeviceIds = {d1}
  Attempts = {a1, a2}
  LoginLimit = 2
  AddressLimit = 3
  Window = 2
  CodeLife = 2
  MaxTime = 2
  MaxCodes = 1
  MaxEndings = 2
SYMMETRY Symmetry
CONSTRAINT Apart
INVARIANTS SignInTypeOK FailuresWithinLimit EndedSessionsStayEnded
