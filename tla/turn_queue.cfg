SPECIFICATION ServedSpec
CONSTANTS
  MaxPrompts = 4
  MaxFailures = 0
  MaxTurnRetries = 1
  MaxOverflowRetries = 1
  Commands <- UncutCommands
  Endings = {}
  Faults = {}
  Windows = {}
INVARIANTS NoOvertaking QueueArmed
PROPERTIES SteeredLeaves
CHECK_DEADLOCK FALSE
