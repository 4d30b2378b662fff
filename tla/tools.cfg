SPECIFICATION FairSpec
CONSTANTS
  a = a
  b = b
  c = c
  w = w
  x = x
  Hidden = Hidden
  Batch <- MixedBatch
  Inside <- MixedInside
  Slots = 2
  Asking = {a}
  Denied = {x}
  Acts = {"steer", "cancel", "abort"}
INVARIANTS ShownTrue RecordedOnce SteerKillsNothing
PROPERTIES AskSettles
CHECK_DEADLOCK FALSE
