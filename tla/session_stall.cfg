SPECIFICATION FairSpec
CONSTANTS
  Clients = {a, g}
  Sessions = {s1}
  TTL = 2
  Stalls = {g}
  Windows <- AllWindows
  None = None
  Gone = Gone
PROPERTIES LeaseHonoured StaleFrees
CHECK_DEADLOCK FALSE
