SPECIFICATION Spec
CONSTANTS
    EventBuffer = 5
    MaxRetries = 1
    MaxOverflows = 1
    MaxPrompts = 2
    MaxCalls = 1
    MaxFailures = 2
    MaxCommands = 1
    Questions = {1}
    Permissions = {}
    Upsets = {}
INVARIANTS
    PaneIsStore
    BusyTrue
    SteeredTrue
CHECK_DEADLOCK FALSE
