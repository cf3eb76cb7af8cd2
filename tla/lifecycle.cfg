SPECIFICATION Spec
CONSTANTS
    Slots = {primary, secondary}
    Calls = {c1, c2}
    DrainSeconds = 1
    CloseTimeout = 2
    MaxTime = 4
    MaxBackends = 3
    MaxClients = 5
SYMMETRY SymCallsAndSlots
CHECK_DEADLOCK FALSE
INVARIANTS
    OneBackendPerSlot
    DrainBounded
PROPERTIES
    CloseLeavesNoneOpen
