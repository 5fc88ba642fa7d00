SPECIFICATION FairSpec
CONSTANTS
  Threads = {t1}
  Services = {s1}
  Roles = {ro, rw}
  Leases = {l1, l2}
  None = None
  Drained = FALSE
INVARIANT RevokeAllCoversCut
PROPERTIES
  ShutdownCompletes
  DueIsRenewed
CHECK_DEADLOCK FALSE
