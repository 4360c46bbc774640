CONSTANTS
    MaxCommands = 2
    MaxGeneration = 1
    Modes <- BranchModes
    Holder <- MCHolder
    NoHolder = NoHolder
    h1 = h1
    ChildRuntime = FALSE
SPECIFICATION Spec
CHECK_DEADLOCK FALSE
PROPERTIES
    StaleNeverRecorded
