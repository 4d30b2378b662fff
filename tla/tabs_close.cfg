SPECIFICATION FairSpec
CONSTANTS
  Tabs = {1, 2}
  CommandBuffer = 2
  EventBuffer = 1
  MaxActs = 3
  MaxSaid = 2
  MaxFaults = 0
  Windows = {"full"}
PROPERTIES CloseEnds
CHECK_DEADLOCK FALSE
