SPECIFICATION Spec
CONSTANTS
  Threads = {t1, t2}
  Services = {s1}
  Roles = {ro}
  Leases = {l1, l2}
  None = None
  Drained = FALSE
SYMMETRY Symmetry
INVARIANTS
  CachedNeverRevoked
  NoDoubleRenewal
PROPERTIES
  NoResurrection
  ForgottenNotRenewed
CHECK_DEADLOCK FALSE
