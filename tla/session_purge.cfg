SPECIFICATION Spec
CONSTANTS
  Clients = {a, b}
  Sessions = {s1}
  TTL = 1
  Stalls = {}
  Windows = {"purge"}
  None = None
  Gone = Gone
INVARIANTS InUseSurvives
CHECK_DEADLOCK FALSE
