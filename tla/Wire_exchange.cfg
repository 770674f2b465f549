SPECIFICATION Spec
CONSTANTS
  None = None
  NaN = NaN
  Asked <- MCAsked
  InFlight <- MCInFlight
  Foreign <- MCForeign
  Decision <- MCDecision
  ExternalIp <- MCExternalIp
  Now <- MCNow
  Elsewhere <- MCElsewhere
  Cut = {1, 3, 4, 7, 8, 11, 12, 15, 16, 23, 24, 40, 59, 60}
CHECK_DEADLOCK FALSE
INVARIANTS HeardIsSaid AnswerFits
