SPECIFICATION Spec
CONSTANTS
  a = a
  b = b
  c = c
  w = w
  x = x
  Hidden = Hidden
  Batch <- WorkerBatch
  Inside <- WorkerInside
  Slots = 1
  Asking = {}
  Denied = {x}
  Acts = {}
INVARIANTS DenialShown
CHECK_DEADLOCK FALSE
