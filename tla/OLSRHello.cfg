SPECIFICATION Spec
CONSTANTS
    a = a
    b = b
    c = c
    Node = {a, b, c}
    Link <- Line
    Lossy <- FarSide
    HOLD = 1
    Unwilling = {}
    UseMac = TRUE
    MaxFaults = 4
    None = None
INVARIANTS TypeOK HeardLately RelaysFit
PROPERTY Settles
