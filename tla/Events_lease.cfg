CONSTANTS
  Call = {c1, c2}
  None = None
  MaxWork = 5
  MaxBoot = 1
SPECIFICATION EventsSpec
INVARIANTS
  GapIsTold
  KeptWhileAnswered
PROPERTY
  LetGo
CHECK_DEADLOCK FALSE
