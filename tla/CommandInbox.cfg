SPECIFICATION Spec
CONSTANTS
    a = a  b = b  x = x
    t = t  u = u  s = s
    None = None
    Call = {a, b, x}
    Command = {t, u, s}
    Scenario <- Scenarios
    Text = {t}
    Compact = {u}
    SettledLimit = 1
    MaxRestarts = 1
INVARIANTS TypeOK OneExecutes PinnedWhileHeld EffectsOnce DuplicateIsTaken LiveOrder NobodyStuck
PROPERTIES UnknownIsUnknown
CHECK_DEADLOCK FALSE
