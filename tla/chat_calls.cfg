SPECIFICATION Spec
CONSTANTS
    EventBuffer = 5
    MaxRetries = 1
    MaxOverflows = 1
    MaxPrompts = 2
    MaxCalls = 2
    MaxFailures = 1
    MaxCommands = 1
    Questions = {2}
    Permissions = {1}
    Upsets = {}
INVARIANTS
    PaneIsStore
    BusyTrue
    SteeredTrue
CHECK_DEADLOCK FALSE
