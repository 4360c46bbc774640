SPECIFICATION Spec
CONSTANTS
    c1 = c1
    c2 = c2
    c3 = c3
    p1 = p1
    p2 = p2
    Call = {c1, c2, c3}
    Process = {p1, p2}
    HostOf <- Mixed
    Ino = {1, 2}
    NoLock = NoLock
    Legacy = Legacy
    MaxCrashes = 1
    MaxStuck = 1
    PromptWriters = TRUE
INVARIANTS
    TypeOK
    MutualExclusion
    HolderKeepsItsLock
    EndedLeavesNoOwner
PROPERTIES
    ReclaimSparesTheLiving
