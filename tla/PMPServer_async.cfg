SPECIFICATION Spec
CONSTANTS
  c1 = c1
  c2 = c2
  Client <- MCClient
  InternalPort = {1}
  StaticPort = {80}
  DynamicPort = {50}
  NoEntry = NoEntry
  Idle = Idle
  MaxMappings = 2
  MaxPerClient = 2
  MinLifetime = 2
  MaxLifetime = 2
  Lifetime = {2}
  AllowAll = FALSE
  Async = TRUE
  Steer = FALSE
  Slot = {1, 2}
  CountBound = 3
SYMMETRY ClientSymmetry
INVARIANTS
  CompanionReserved
  TimersExact
  PointersLive
CHECK_DEADLOCK FALSE
