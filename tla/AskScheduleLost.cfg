SPECIFICATION Spec
CONSTANTS
    A = A  B = B
    S = S  T = T  U = U
    None = None
    ActorOrder <- Actors
    Scripts <- MCScripts
    Caps = {1, 2}
    MaxLives = 3
    StopsIn = {1}
INVARIANTS ReplayMatches
CHECK_DEADLOCK FALSE
