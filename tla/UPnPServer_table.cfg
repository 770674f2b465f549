CONSTANTS
  c1 = c1
  c2 = c2
  Client <- MCClient
  InternalPort = {1}
  StaticPort = {80}
  DynamicPort = {50}
  None = None
  MaxMappings = 2
  MaxPerClient = 1
  AllowAll = FALSE
  Steer = FALSE
  ThirdParty = FALSE
  MaxId = 1
  Slot = {1}
  TimerBound = 2
SYMMETRY ClientSymmetry
SPECIFICATION Spec
INVARIANTS
  TypeOK
  DerivedExact
  PinholeTimersExact
PROPERTIES
  OthersUntouched
CHECK_DEADLOCK FALSE
