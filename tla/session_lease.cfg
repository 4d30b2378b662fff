SPECIFICATION Spec
CONSTANTS
  Clients = {a, b}
  Sessions = {s1, s2}
  TTL = 1
  Stalls = {}
  Windows = {}
  None = None
  Gone = Gone
INVARIANTS Exclusive InUseSurvives OneWriter
PROPERTIES ClaimsKept LeaseSpec
CHECK_DEADLOCK FALSE
