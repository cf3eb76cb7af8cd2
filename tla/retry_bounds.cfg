SPECIFICATION Spec
CONSTANTS
    MaxAttempts = 3
    MaxSleep = 10
    MaxHops = 2
    Total = 16
    RetryAfters = {0, 4, 6, 10, 11}
    Cap = 1
    WireChunk = 1
    Expansions = {1, 4}
    MaxTime = 18
CONSTANT Backoff <- MCBackoff
INVARIANTS
    SendsBounded
    SleepBounded
    EndsByDeadline
    NoLeakedResponse
    BodyBounded
