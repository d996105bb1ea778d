SPECIFICATION Spec
CONSTANTS
    Requests = {r1, r2, r3, r4}
    Lanes = {a, b}
    Capacity = 2
    Memory = 2
    Large = {r1}
    Unsupported = {r2}
    Declined = {r4}
    Homed = {}
    Rounds = 1
    Cancels = TRUE
    Deadlines = FALSE
    Pressure = FALSE
    Shortage = TRUE
    Faults = TRUE
    Closes = TRUE
    Reuse = FALSE
SYMMETRY Perms
INVARIANT OutstandingExact
INVARIANT NoneStranded
PROPERTY ImplementsLife
