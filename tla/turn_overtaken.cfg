SPECIFICATION Spec
CONSTANTS
  MaxPrompts = 3
  MaxFailures = 2
  MaxTurnRetries = 1
  MaxOverflowRetries = 1
  Commands = {"Cancel"}
  Endings = {"Error"}
  Faults = {}
  Windows = {}
INVARIANTS NoOvertaking
CHECK_DEADLOCK FALSE
