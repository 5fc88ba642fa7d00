SPECIFICATION Spec
CONSTANTS
  Threads = {t1, t2}
  Keys = {k1, k2}
  Creds = {c1, c2}
  None = None
  Failed = Failed
  MaxInvalidations = 1
SYMMETRY Symmetry
INVARIANTS
  InvalidateForcesExchange
PROPERTIES
  IsSingleFlight
  OneRefreshPerEntry
CHECK_DEADLOCK FALSE
