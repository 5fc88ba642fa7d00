SPECIFICATION Spec
CONSTANTS
  Threads = {t1, t2}
  Names = {n1, n2}
  Targets = {g1, g2}
  Methods = {m1}
  Egresses = {e1}
  Values = {v1, v2, v3}
  None = None
  Ops = {"create", "create_auth", "put", "put_plain", "put_auth", "rotate", "rotate_auth", "delete", "oauth"}
  Faults = TRUE
  MaxCrashes = 1
SYMMETRY Symmetry
INVARIANTS
  SecretBacked
  CreatedWithItsCredential
  NoOrphanedSecret
PROPERTIES
  RestartRestores
CHECK_DEADLOCK FALSE
