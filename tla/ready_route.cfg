SPECIFICATION Spec
CONSTANTS
    Requests = {r1, r2}
    Nobody = nobody
    Window = 4
    FailureWindow = 1
    CheckTimeout = 2
    CallDeadline = 4
    MaxTime = 9
    LastAsk = 4
    MaxChanges = 1
    MaxBackends = 1
CHECK_DEADLOCK FALSE
INVARIANTS
    RouteBounded
