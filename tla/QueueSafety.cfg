CONSTANTS
    MaxCommands = 3
    MaxGeneration = 1
    Modes <- SafetyModes
    Holder <- MCHolder
    NoHolder = NoHolder
    h1 = h1
    ChildRuntime = FALSE
SPECIFICATION Spec
CHECK_DEADLOCK FALSE
INVARIANTS
    TypeOK
    NoStrandedCommand
    EveryCommandInOnePlace
    NoTurnCollision
    ExecutionLeavesNothing
PROPERTIES
    CancelledNeverStarts
    UnwantedNeverStarts
    LeaseProtectsPromotion
    AbsorptionWaitsForControlTurn
    StoppedStartsNoTurn
