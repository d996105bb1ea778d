SPECIFICATION Spec
CONSTANTS
    Requests = {r1, r2}
    Lanes = {a, b}
    Capacity = 2
    Memory = 2
    Large = {r1}
    Unsupported = {}
    Declined = {}
    Homed = {r1}
    Rounds = 1
    Cancels = FALSE
    Deadlines = TRUE
    Pressure = TRUE
    Shortage = TRUE
    Faults = TRUE
    Closes = TRUE
    Reuse = TRUE
PROPERTY OldestNeverSuspends
PROPERTY CloseReturns
PROPERTY EveryRequestEnds
