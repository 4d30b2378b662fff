SPECIFICATION Spec
CONSTANTS
  MaxPrompts = 2
  MaxFailures = 0
  MaxTurnRetries = 1
  MaxOverflowRetries = 1
  Commands = {"Cancel", "Fork"}
  Endings = {}
  Faults = {}
  Windows = {}
INVARIANTS GraceTargetsCancelled
CHECK_DEADLOCK FALSE
