\* Three callers that may all cancel, one key, one clear(), time stands still.
CONSTANTS
    Callers = {c1, c2, c3}
    Keys = {k1}
    Computations = {i1, i2, i3}
    None = None
    Cancellable = {c1, c2, c3}
    Ttl = 1
    MaxEntries = 1
    MaxTime = 0
    MaxClears = 1
SPECIFICATION Spec
SYMMETRY SymRaces
CHECK_DEADLOCK FALSE
INVARIANTS
    NoForeignCancellation
    OnlyUnwantedCancelled
    NoPoisonedSlot
    SingleFlight
