SPECIFICATION Spec
CONSTANTS
  MaxPrompts = 2
  MaxFailures = 0
  MaxTurnRetries = 1
  MaxOverflowRetries = 1
  Commands = {"Cancel"}
  Endings = {}
  Faults = {}
  Windows = {"outcome"}
INVARIANTS OneStream
CHECK_DEADLOCK FALSE
