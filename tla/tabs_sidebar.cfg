SPECIFICATION Spec
CONSTANTS
  Tabs = {1, 2}
  CommandBuffer = 2
  EventBuffer = 2
  MaxActs = 2
  MaxSaid = 1
  MaxFaults = 0
  Windows = {}
INVARIANTS SidebarTrue
CHECK_DEADLOCK FALSE
