SPECIFICATION FairSpec
CONSTANTS
  Threads = {t1, t2}
  Services = {s1, s2}
  Omitting = {s2}
  Tokens = {k1, k2, k3}
  None = None
  Failed = Failed
INVARIANTS
  NoReplay
  UsableAtRest
PROPERTIES
  IsSingleFlight
  RefreshReturns
CHECK_DEADLOCK FALSE
