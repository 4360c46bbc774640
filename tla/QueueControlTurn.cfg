CONSTANTS
    MaxCommands = 3
    MaxGeneration = 0
    Modes <- ControlModes
    Holder <- MCHolder
    NoHolder = NoHolder
    h1 = h1
    ChildRuntime = FALSE
SPECIFICATION Spec
CHECK_DEADLOCK FALSE
PROPERTIES
    ControlTurnComesFirst
