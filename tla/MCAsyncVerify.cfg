SPECIFICATION Spec
CONSTANTS
    Lanes = {a, b}
    Requests = 1
    Budget = 3
    Width = 2
    Block = 2
    FirstBlock = 1
    Lead = 4
    RingRows = 6
    Drafts = {"exact", "near", "off"}
    StopStrings = TRUE
    Cancels = TRUE
    Faults = FALSE
SYMMETRY Perms
INVARIANT OnlyVerifiedPublished
INVARIANT LineFrontier
INVARIANT PassKept
PROPERTY PublishedNeverRetracted
PROPERTY HandsOverExact
