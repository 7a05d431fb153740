SPECIFICATION MCSpec
CONSTANTS
    w1 = w1
    w2 = w2
    first = first
    recovery = recovery
    Workers = {w1, w2}
    Names = {first, recovery}
    NumEvents = 2
    MaxBatch = 2
    Lease = 1
    Reliable = w1
INVARIANTS
    ClaimInv
PROPERTIES
    SettledByHandler
    EveryEventDelivered
