SPECIFICATION FairSpec
CONSTANTS
  Users = {u1}
  Devices = {d1}
  Values = {10, 20}
  Threshold = 10
  MaxRates = 2
  MaxTime = 1
INVARIANTS TypeOK AuditTellsCurrent DevicesAgree
PROPERTY RequestsEnd
CHECK_DEADLOCK FALSE
