SPECIFICATION Spec
CONSTANTS
  MaxPrompts = 2
  MaxFailures = 1
  MaxTurnRetries = 1
  MaxOverflowRetries = 1
  Commands <- AllCommands
  Endings = {"Error", "Overflow", "Deny"}
  Faults = {"start", "resume"}
  Windows = {"outcome", "abort", "signal"}
INVARIANT ReplyNotLost
CHECK_DEADLOCK FALSE
