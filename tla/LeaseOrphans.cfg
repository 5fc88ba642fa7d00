SPECIFICATION ProgramSpec
CONSTANTS
  Threads = {t1, t2}
  Services = {s1}
  Roles = {ro}
  Leases = {l1, l2}
  None = None
  Drained = TRUE
SYMMETRY Symmetry
INVARIANTS
  ShutdownLeavesNoLiveLease
CHECK_DEADLOCK FALSE
