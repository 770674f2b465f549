SPECIFICATION SystemSpec
CONSTANTS
  Host = Host
  Key = {1, 2}
  External = {50}
  Speaks = {"pcp", "natpmp"}
  Reordered = TRUE
  StaticPort = {}
  DynamicPort = {50}
  Lease = 2
  NoEntry = NoEntry
  Idle = Idle
  Protocols <- BothDialects
  MapAttempts = 1
  DeleteAttempts = 1
  Op = {"map", "unmap", "address"}
  None = None
  MaxCalls = 2
  MaxQueue = 1
  MaxBoot = 1
  MaxRequests = 1
  MaxReplies = 2
  MayRefuse = TRUE
INVARIANT ActiveIsForwarded
CHECK_DEADLOCK FALSE
