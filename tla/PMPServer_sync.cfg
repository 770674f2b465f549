SPECIFICATION Spec
CONSTANTS
  c1 = c1
  c2 = c2
  Client <- MCClient
  InternalPort = {1, 2}
  StaticPort = {80}
  DynamicPort = {50}
  NoEntry = NoEntry
  Idle = Idle
  MaxMappings = 3
  MaxPerClient = 2
  MinLifetime = 2
  MaxLifetime = 3
  Lifetime = {1, 4}
  AllowAll = FALSE
  Async = FALSE
  Steer = TRUE
  Slot = {}
  CountBound = 3
SYMMETRY ClientSymmetry
INVARIANTS
  TypeOK
  IndexExact
  CountersExact
  QuotaRespected
PROPERTY OthersUntouched
CHECK_DEADLOCK FALSE
