SPECIFICATION Spec
CONSTANTS
    r1 = r1
    r2 = r2
    r3 = r3
    k1 = k1
    k2 = k2
    k3 = k3
    k4 = k4
    Requests = {r1, r2, r3}
    Keys = {k1, k2, k3, k4}
    Parts <- SharedParts
    Bytes <- SharedBytes
    Retained = 2
    LiveLimit = 8
    MaxRequest = 4
    Workers = 1
    QueueCapacity = 1
    Cancels = {r2}
    Deadlines = {r2}
    Undecodable = {}
    TooLong = {}
INVARIANT BuilderWithinRequest
INVARIANT CacheExact
INVARIANT LiveWithinLimit
INVARIANT PromptsComplete
INVARIANT SingleFlight
PROPERTY PreparationEnds
