SPECIFICATION Spec
CONSTANTS
  a = a
  b = b
  c = c
  w = w
  x = x
  Hidden = Hidden
  Batch <- MixedBatch
  Inside <- MixedInside
  Slots = 2
  Asking = {a}
  Denied = {x}
  Acts = {"steer", "cancel", "abort"}
INVARIANTS OneRecord
CHECK_DEADLOCK FALSE
