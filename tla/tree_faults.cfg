SPECIFICATION Spec
CONSTANTS
  MaxId = 4
  MinTail = 1
  MaxFaults = 1
  Faults = {"insert", "leaf", "reparent", "restore", "load"}
  Windows = {"abort", "exhaust", "thought"}
INVARIANTS NothingForgotten
CHECK_DEADLOCK FALSE
