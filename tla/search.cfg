\* Two calls of two backends that share a limiter with one slot per window: the
\* budget of one covers the wait for a slot, the other's does not.
SPECIFICATION SearchSpec
CONSTANTS
    Tasks = {t1, t2}
    t1 = t1
    t2 = t2
    x = x
    y = y
    z = z
    Callers <- MCCallers
    Nobody = nobody
    Max = 1
    Window = 2
    Budgets = {1, 2}
    Timeout <- MCTimeout
    RequestTime = 1
    Execution = 1
    Interval = 1
    Traces = {x, y, z}
    Rows <- MCRows
    MaxHydrate = 3
    Limit = 1
    Hydrated = {y, z}
    Matching = {x, z}
    MaxTime = 17
    LastAsk = 17
    LastStart = 1
CHECK_DEADLOCK FALSE
INVARIANTS
    RateBound
    SearchBounded
    LimitSpentOnMatches
PROPERTIES
    ParkedIsServed
    EverySearchEnds
