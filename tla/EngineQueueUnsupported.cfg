SPECIFICATION Spec
CONSTANTS
    Requests = {r1, r2, r3}
    Lanes = {a, b}
    Capacity = 3
    Memory = 2
    Large = {r1}
    Unsupported = {r3}
    Declined = {}
    Homed = {}
    Rounds = 1
    Cancels = FALSE
    Deadlines = FALSE
    Pressure = FALSE
    Shortage = FALSE
    Faults = FALSE
    Closes = FALSE
    Reuse = FALSE
INVARIANT NoFailureWithoutFault
