SPECIFICATION Spec
CONSTANTS
  MaxId = 3
  MinTail = 1
  MaxFaults = 0
  Faults = {}
  Windows = {}
PROPERTIES ReplayResends
CHECK_DEADLOCK FALSE
