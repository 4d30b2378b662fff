SPECIFICATION FairSpec
CONSTANTS
  file1 = file1
  rust = rust
  call1 = call1
  call2 = call2
  Loop = Loop
  Langs = {rust}
  AutoStart = {rust}
  LangOf <- OneFile
  Faulty = {1}
  Calls = {call1, call2}
  MaxVersion = 2
  MaxAsks = 3
  MaxProcs = 2
  MaxCrashes = 1
  MaxAborts = 1
  Windows = {}
INVARIANTS NoOrphan InStep
PROPERTIES Reported LoopReturns
CHECK_DEADLOCK FALSE
