SPECIFICATION Spec
CONSTANTS
    Window = 6
    Reserved = 3
    Keep = 3
    MinTail = 3
    Preamble = 0
    SummarySize = 1
    Texts = {1}
    Outputs = {0, 2}
    MaxOverflows = 2
    Reports = {TRUE, FALSE}
    MaxPrompts = 2
    MaxCalls = 2
    MaxFailures = 1
    MaxCommands = 1
    MaxRows = 12
    Upsets = {"long"}
INVARIANT RequestCovers
CHECK_DEADLOCK FALSE
