CONSTANTS
  Adapter = {"nftables", "iptables", "pf", "relay"}
  Port = {p1, p2}
  UdpPort = {p2}
  Target = {t1, t2}
  None = None
  Slot = {s1, s2}
  MaxFailures = 2
  MaxSockets = 2
  MaxRules = 2
SPECIFICATION Spec
INVARIANTS
  AnsweredIsInForce
  ListedIsInForce
  DestroyedForwardsNothing
SYMMETRY Symmetry
CHECK_DEADLOCK FALSE
