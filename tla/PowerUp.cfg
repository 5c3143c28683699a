CONSTANTS
  PowerNodes = {"n1", "n2"}
  WakeOnLan = {"n1"}
  MaxTargets = 2
  MaxPowerFaults = 0
SPECIFICATION PowerSpec
PROPERTIES UpConverges
CHECK_DEADLOCK FALSE
