SPECIFICATION Spec
CONSTANTS
    Lanes = {a}
    Requests = 1
    Budget = 4
    Width = 2
    Block = 2
    FirstBlock = 1
    Lead = 6
    RingRows = 8
    Drafts = {"exact", "off", "stop"}
    StopStrings = FALSE
    Cancels = TRUE
    Faults = FALSE
INVARIANT CancelEndsClean
