SPECIFICATION EpochSpec
CONSTANTS
  MaxDelay = 1000
  Steps = {700, 16000}
  Unheard = Unheard
  MaxNow = 23400
  MaxRestarts = 1
  MaxPackets = 2
PROPERTIES
  NoFalseAlarm
  RestartNoticed
CHECK_DEADLOCK FALSE
