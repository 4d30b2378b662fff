SPECIFICATION Spec
CONSTANTS
  MaxPrompts = 3
  MaxFailures = 0
  MaxTurnRetries = 1
  MaxOverflowRetries = 1
  Commands = {"Cancel"}
  Endings = {}
  Faults = {}
  Windows = {"signal"}
INVARIANTS TerminalNotTorn
CHECK_DEADLOCK FALSE
