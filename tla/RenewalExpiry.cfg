SPECIFICATION Spec
CONSTANTS
  Interval = 4
  TokenTTL = 8
  MaxTTL = 32
  Latency = 1
  MaxFails = 0
  MaxTime = 80
INVARIANTS
  ExpiryIsBrief
CHECK_DEADLOCK FALSE
