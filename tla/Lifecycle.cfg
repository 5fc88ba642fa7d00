SPECIFICATION LifeSpec
CONSTANTS
  LastLine = 2
  MaxFaults = 3
  Interval = 4
  TokenTTL = 8
  MaxTTL = 32
  Latency = 1
  MaxFails = 3
  MaxTime = 80
  Clients = {c1, c2}
  Burst = 1
  Remote = TRUE
  Names = {n1, n2}
  Setups <- SomeSetups
  Admins = {a1, a2}
  Queries = {q1, q2}
  Nowhere = Nowhere
  Refused = {"option"}
INVARIANTS
  ResumableIsConfigured
  OutageBounded
  OrderlyStopLeavesNothing
  UserFitsServer
PROPERTIES
  SavedComesBack
  StopEnds
  BridgeAnswers
  QuerySettles
CHECK_DEADLOCK FALSE
