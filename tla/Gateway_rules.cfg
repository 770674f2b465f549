CONSTANTS
  Engine = {"pmp", "upnp"}
  Port = {p1}
  Target = {t1, t2}
  None = None
  Left = Left
  Slot = {1, 2}
  Handle = {1, 2, 3, 4}
  MaxFailures = 1
SPECIFICATION Spec
INVARIANTS
  TypeOK
  GrantedIsForwarded
  GoneIsClosed
  ClosedForwardsNoGrant
PROPERTY ReconciledIsClean
CHECK_DEADLOCK FALSE
