CONSTANTS
  Engine = {"pmp", "upnp"}
  StartCall = {s1, s2}
  MapCall = {m1, m2}
  CloseCall = {c1}
  CheckPort = TRUE
SPECIFICATION Spec
INVARIANTS
  StartsAgree
  CalledOnce
PROPERTY
  EveryCallAnswered
CHECK_DEADLOCK FALSE
