SPECIFICATION FlowSpec
CONSTANTS
  Flows = {f1, f2}
  Replies = {r1, r2}
  FlowNames = {n1, n2}
  Providers = {p1}
  DeviceProviders = {}
  Nobody = Nobody
  Typed = Typed
  VaultFaults = FALSE
  StateTTL = 1
  FlowHorizon = 2
SYMMETRY FlowSymmetry
INVARIANTS
  SuccessMeansUsable
CHECK_DEADLOCK FALSE
