SPECIFICATION Spec
CONSTANTS
  Tabs = {1, 2}
  CommandBuffer = 2
  EventBuffer = 2
  MaxActs = 4
  MaxSaid = 1
  MaxFaults = 0
  Windows = {}
INVARIANTS ChoiceKept
CHECK_DEADLOCK FALSE
