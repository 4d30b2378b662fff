SPECIFICATION Spec
CONSTANTS
    EventBuffer = 5
    MaxRetries = 1
    MaxOverflows = 1
    MaxPrompts = 3
    MaxCalls = 0
    MaxFailures = 2
    MaxCommands = 2
    Questions = {}
    Permissions = {}
    Upsets = {}
INVARIANTS
    PaneIsStore
    BusyTrue
    SteeredTrue
CHECK_DEADLOCK FALSE
