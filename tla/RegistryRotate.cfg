SPECIFICATION Spec
CONSTANTS
  Threads = {t1, t2}
  Names = {n1}
  Targets = {g1}
  Methods = {m1}
  Egresses = {}
  Values = {v1, v2}
  None = None
  Ops = {"create_auth", "rotate"}
  Faults = FALSE
  MaxCrashes = 0
SYMMETRY Symmetry
INVARIANTS
  InjectionResolves
CHECK_DEADLOCK FALSE
