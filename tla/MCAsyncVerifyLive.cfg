SPECIFICATION Spec
CONSTANTS
    Lanes = {a}
    Requests = 2
    Budget = 5
    Width = 2
    Block = 2
    FirstBlock = 1
    Lead = 3
    RingRows = 4
    Drafts = {"exact", "near", "off", "stop", "offstop"}
    StopStrings = TRUE
    Cancels = TRUE
    Faults = TRUE
PROPERTY RequestEnds
PROPERTY VerifiedWhileLeadLasts
