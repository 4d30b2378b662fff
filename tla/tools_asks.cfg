SPECIFICATION FairSpec
CONSTANTS
  a = a
  b = b
  c = c
  w = w
  x = x
  Hidden = Hidden
  Batch <- PairBatch
  Inside <- PairInside
  Slots = 2
  Asking = {a, b}
  Denied = {}
  Acts = {}
PROPERTIES AskSettles
CHECK_DEADLOCK FALSE
