SPECIFICATION Spec
CONSTANTS
  MaxId = 4
  MinTail = 1
  MaxFaults = 1
  Faults = {"insert", "leaf", "reparent", "load"}
  Windows = {"abort"}
INVARIANTS TreeSound MemoryIsStore ReplyUnderPrompt
PROPERTIES PathOnlyGrows
CHECK_DEADLOCK FALSE
