SPECIFICATION Spec
CONSTANTS
  MaxId = 3
  MinTail = 1
  MaxFaults = 1
  Faults = {"restore"}
  Windows = {}
PROPERTIES PathOnlyGrows
CHECK_DEADLOCK FALSE
