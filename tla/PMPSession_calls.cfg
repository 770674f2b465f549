SPECIFICATION Spec
CONSTANTS
  k1 = k1
  k2 = k2
  Key = {k1}
  External = {50}
  Protocols <- BothDialects
  MapAttempts = 2
  DeleteAttempts = 1
  Op = {"map", "exact", "unmap", "probe", "address", "cancel", "permanent"}
  None = None
  Speaks = {"pcp", "natpmp"}
  MaxCalls = 2
  MaxQueue = 1
  MaxBoot = 1
  Reordered = FALSE
INVARIANTS
  TypeOK
  OwedOnce
  LeaseTended
PROPERTIES
  EveryCallAnswered
  LostIsAskedFor
CHECK_DEADLOCK FALSE
