\* One caller at a time, three keys, room for two, a clock that runs for two Ttls.
CONSTANTS
    Callers = {c1}
    Keys = {k1, k2, k3}
    Computations = {i1, i2, i3}
    None = None
    Cancellable = {}
    Ttl = 2
    MaxEntries = 2
    MaxTime = 4
    MaxClears = 0
SPECIFICATION Spec
SYMMETRY SymAges
CHECK_DEADLOCK FALSE
PROPERTIES
    BoundedLRU
    ExpiredReclaimed
