CONSTANTS
  MaxPort = 1
  AddAny = TRUE
  Recreate = TRUE
  ConflictLimit = 2
  Op = {"map", "unmap", "foreign", "discover", "cancel"}
  None = None
  MaxCalls = 3
  Slot = {1, 2}
SPECIFICATION Spec
INVARIANTS
  TypeOK
  OwedOnce
  LeaseTended
PROPERTY EveryCallAnswered
CHECK_DEADLOCK FALSE
