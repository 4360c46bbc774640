SPECIFICATION Spec
CONSTANTS
    a = a  b = b  x = x
    t = t  u = u  s = s
    None = None
    Call = {a, b, x}
    Command = {t, u, s}
    Scenario <- Scenarios
    Text = {t}
    Compact = {u}
    SettledLimit = 1
    MaxRestarts = 0
PROPERTIES CancelledStaysCancelled
CHECK_DEADLOCK FALSE
