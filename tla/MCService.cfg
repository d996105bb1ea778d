SPECIFICATION Spec
CONSTANTS
    old = old
    s = s
    a = a
    Ids = {old, s, a}
    Requests = {s, a}
    Capacity = 1
    Declined = {}
    MaxRecords = 2
    MaxBytes = 9
    Envelope <- Sizes
    Owned <- Sizes
    Stream = s
    Stores = {s, a}
    MaxInputs = 2
    Limit = 4
    Slots = 2
    MaxWidth = 2
    TextLimit = 8
    Deltas <- Text
    Answers = {"ok", "failure"}
INVARIANTS
    StoreExact
    RefusedForLeftovers
    TruthfulReplies
    TwoRangesSuffice
    DeliveredExactly
    LeasesBounded
CHECK_DEADLOCK FALSE
PROPERTY EveryRequestLeaves
