SPECIFICATION Spec
CONSTANTS
  file1 = file1
  rust = rust
  call1 = call1
  call2 = call2
  Loop = Loop
  Langs = {rust}
  AutoStart = {rust}
  LangOf <- OneFile
  Faulty = {1}
  Calls = {call1}
  MaxVersion = 2
  MaxAsks = 4
  MaxProcs = 2
  MaxCrashes = 0
  MaxAborts = 0
  Windows = {}
INVARIANTS EditSeen
CHECK_DEADLOCK FALSE
