CONSTANTS
    MaxCommands = 3
    MaxGeneration = 0
    Modes <- ProgressModes
    Holder <- MCHolder
    NoHolder = NoHolder
    h1 = h1
    ChildRuntime = TRUE
SPECIFICATION Spec
CHECK_DEADLOCK FALSE
PROPERTIES
    ServesOneAtATime
    QueuedCommandLeaves
