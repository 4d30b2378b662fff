SPECIFICATION Spec
CONSTANTS
    Window = 6
    Reserved = 3
    Keep = 3
    MinTail = 3
    Preamble = 0
    SummarySize = 1
    Texts = {1}
    Outputs = {0, 2}
    MaxOverflows = 2
    Reports = {TRUE, FALSE}
    MaxPrompts = 3
    MaxCalls = 2
    MaxFailures = 0
    MaxCommands = 0
    MaxRows = 12
    Upsets = {"full"}
INVARIANT StopIsMeasured
CHECK_DEADLOCK FALSE
