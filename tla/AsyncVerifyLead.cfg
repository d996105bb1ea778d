SPECIFICATION Spec
CONSTANTS
    Lanes = {a}
    Requests = 1
    Budget = 10
    Width = 1
    Block = 2
    FirstBlock = 0
    Lead = 5
    RingRows = 7
    Drafts = {"exact", "off"}
    StopStrings = FALSE
    Cancels = FALSE
    Faults = FALSE
INVARIANT OnlyVerifiedPublished
