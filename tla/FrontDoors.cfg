SPECIFICATION DoorSpec
CONSTANTS
  Pair = {p1, p2}
  OtherPair = {q1, q2}
  Events = {x1, x2, x3}
  NoEvent = NoEvent
  ChannelSize = 2
  RingSize = 2
  Retention = 1
  LastDay = 3
  Resource = "us"
  Trusted = {"idp"}
  ReachableKeys = {"idp"}
  Skew = 1
  Requests = {p1, p2}
  SessionIds = {x1, x2, x3}
  Bearers <- SomeBearers
  NoSession = NoSession
  NoToken = NoToken
  Cap = 1
  Horizon = 5
  Callers = {c1}
  Asked <- SomeAsked
  Configs <- SomeConfigs
  NoService = NoService
  NoMethod = NoMethod
  Elsewhere <- SomeElsewhere
  Redirects = 1
  Changes = 3
  Outgoing = {p1, p2}
  Hosts = {"h1", "h2"}
  Addresses = {"public", "loopback"}
  Denied = {"loopback"}
  Loopback = {"loopback"}
  EgressRules <- SomeEgressRules
  Answers <- SomeAnswers
  NameChanges = 1
  Flows = {f1, f2}
  Replies = {p1, p2}
  FlowNames = {q1, q2}
  Providers = {g1}
  DeviceProviders = {g1}
  Nobody = Nobody
  Typed = Typed
  VaultFaults = TRUE
  StateTTL = 1
  FlowHorizon = 2
  CloudCalls = {p1, p2}
  CloudServices = {s1}
  CloudConfigs <- SomeCloudConfigs
  NoCredential = NoCredential
  NoAudience = NoAudience
  DefaultAudience = "pool"
  Grants = {0, 2}
  Lifetime = 1
  LastTick = 2
  Threads = {t1}
  Names = {n1}
  Targets = {g1}
  Methods = {m1}
  Egresses = {}
  Values = {q1, q2}
  None = None
  Ops = {"create_auth", "put", "delete"}
  Faults = FALSE
  MaxCrashes = 1
  Calls = {p1, p2}
  TTL = 2
  MaxTime = 3
SYMMETRY DoorSymmetry
INVARIANTS
  DoorTypeOK
  CloseFlushes
  QueriesSeeNewest
  CapHonoured
  IdleBounded
  PolicyHonoured
  ExecGated
  DeniedIsAllowed
  StateUsedOnce
  AccountHonoured
  StalenessBounded
PROPERTIES
  IsLossyLog
CHECK_DEADLOCK FALSE
