SPECIFICATION Spec
CONSTANTS
    A = A  B = B
    S = S  T = T  U = U
    None = None
    ActorOrder <- Actors
    Scripts <- MCScripts
    Caps = {1, 2}
    MaxLives = 3
    StopsIn = {2}
INVARIANTS TypeOK ReplayMatches ScheduleReplayed ActorOrderKept NoIdleActor
PROPERTIES AnswersKept QuietAfterEnd RunEnds
CHECK_DEADLOCK FALSE
