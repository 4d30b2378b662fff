SPECIFICATION FairSpec
CONSTANTS
  Tabs = {1, 2}
  CommandBuffer = 2
  EventBuffer = 3
  MaxActs = 2
  MaxSaid = 2
  MaxFaults = 1
  Windows = {}
INVARIANTS OwnStream CommandsAtHome PicksReachAll
PROPERTIES CloseEnds
CHECK_DEADLOCK FALSE
