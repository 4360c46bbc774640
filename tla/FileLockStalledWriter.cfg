SPECIFICATION Spec
CONSTANTS
    c1 = c1
    c2 = c2
    c3 = c3
    p1 = p1
    p2 = p2
    Call = {c1, c2}
    Process = {p1, p2}
    HostOf <- OwnProcess
    Ino = {1, 2}
    NoLock = NoLock
    Legacy = Legacy
    MaxCrashes = 0
    MaxStuck = 1
    PromptWriters = FALSE
INVARIANT
    MutualExclusion
