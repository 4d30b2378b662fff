SPECIFICATION FairSpec
CONSTANTS
    Window = 6
    Reserved = 3
    Keep = 3
    MinTail = 3
    Preamble = 0
    SummarySize = 1
    Texts = {1}
    Outputs = {0, 2}
    MaxOverflows = 2
    Reports = {TRUE, FALSE}
    MaxPrompts = 2
    MaxCalls = 1
    MaxFailures = 1
    MaxCommands = 1
    MaxRows = 9
    Upsets = {}
INVARIANTS RequestCovers StopIsMeasured OneReply
CHECK_DEADLOCK FALSE
PROPERTY Settles
