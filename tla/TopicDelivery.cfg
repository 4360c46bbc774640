SPECIFICATION Spec
CONSTANTS
    None = None
    MaxEvents = 3
    MaxOps = 1
    Retention = 1
    SnapshotParts = 2
    MaxTroubles = 2
INVARIANTS TypeOK ViewMatches CaughtUp
PROPERTIES NeverBackwards FlightCloses
CHECK_DEADLOCK FALSE
