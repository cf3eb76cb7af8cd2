\* Two requests, a backend that changes twice and may be replaced once.
SPECIFICATION FairSpec
CONSTANTS
    Requests = {r1, r2}
    Nobody = nobody
    Window = 4
    FailureWindow = 1
    CheckTimeout = 2
    CallDeadline = 4
    MaxTime = 12
    LastAsk = 4
    MaxChanges = 2
    MaxBackends = 2
CHECK_DEADLOCK FALSE
INVARIANTS
    WaitBounded
PROPERTIES
    ProbesSpaced
    NoStaleReady
    RecoveryNoticed
    EveryRequestEnds
