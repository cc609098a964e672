\* Two calls in a row over two ports.
SPECIFICATION Spec
CONSTANTS
    p = p
    q = q
    plain = plain
    full = full
    f4p = f4p
    sd = sd
    NONE = NONE
    Port = {p, q}
    Device = {plain, full, f4p, sd}
    Plugged <- MCPlugged
    Make <- MCMake
    Settings <- MCSettings
    Calls <- MCCalls
    MaxLine = 2
    MaxCalls = 2
CHECK_DEADLOCK FALSE
INVARIANTS
    TypeOK
    HandedOrClosed
    RowsInOrder
    RowsTrue
    VerifiedIsTrue
    GateHolds
    ScaleIsTrue
