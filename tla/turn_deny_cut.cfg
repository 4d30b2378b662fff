SPECIFICATION Spec
CONSTANTS
  MaxPrompts = 1
  MaxFailures = 0
  MaxTurnRetries = 1
  MaxOverflowRetries = 1
  Commands = {"Cancel", "Answer"}
  Endings = {"Deny"}
  Faults = {}
  Windows = {}
INVARIANTS ReplySavedOnce
CHECK_DEADLOCK FALSE
