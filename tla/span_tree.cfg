\* All small traces with distinct ids, with reused ids, and with times.
SPECIFICATION Spec
CONSTANTS
    a = a
    b = b
    c = c
    d = d
    None = None
    Ids = {a, b, c, d}
    Traces <- MCTraces
CHECK_DEADLOCK FALSE
INVARIANTS
    ErrorsCounted
    DeepestBlamed
    TrappedInCycle
    SelfTimeExact
    VerdictOnItsTree
