SPECIFICATION Spec
CONSTANTS
  Users = {u1, u2}
  Devices = {}
  Values = {10, 20}
  Threshold = 10
  MaxRates = 2
  MaxTime = 0
INVARIANT FirstRateIsFirst
CHECK_DEADLOCK FALSE
