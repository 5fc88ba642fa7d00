SPECIFICATION FairSpec
CONSTANTS
  Threads = {t1, t2}
  Keys = {k1}
  Creds = {c1, c2}
  None = None
  Failed = Failed
  MaxInvalidations = 0
PROPERTIES
  MissReturns
  RefreshSettles
CHECK_DEADLOCK FALSE
