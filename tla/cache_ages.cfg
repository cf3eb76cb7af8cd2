\* One key, two callers of whom one may cancel, a clock that runs for one Ttl,
\* one clear(): answers stay fresh and every call ends.
CONSTANTS
    Callers = {c1, c2}
    Keys = {k1}
    Computations = {i1, i2}
    None = None
    Cancellable = {c1}
    Ttl = 2
    MaxEntries = 1
    MaxTime = 2
    MaxClears = 1
SPECIFICATION FairSpec
CHECK_DEADLOCK FALSE
INVARIANT
    FreshAnswer
PROPERTY
    EveryCallEnds
