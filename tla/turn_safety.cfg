SPECIFICATION FairSpec
CONSTANTS
  MaxPrompts = 2
  MaxFailures = 2
  MaxTurnRetries = 1
  MaxOverflowRetries = 1
  Commands <- AllCommands
  Endings = {"Error", "Overflow"}
  Faults = {"start", "resume"}
  Windows = {}
INVARIANTS OneStream TerminalNotTorn ReplySavedOnce QuitSaves
PROPERTIES CancelledEnds
CHECK_DEADLOCK FALSE
