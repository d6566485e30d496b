SPECIFICATION Spec
CONSTANTS
    a = a
    b = b
    c = c
    x = x
    y = y
    MaxTuples = 4
    Nb = {a, b, c}
    Far = {x, y}
    Willingness = {0, 3, 7}
    Algorithms = {"RFC", "R2", "QOLSR", "OLSRD"}
    LinkQuality = "ETX"
    Etx <- EtxOfLinks
    Nb2hopSets <- Vectors
INVARIANTS TypeOK Covers NeverUnwilling RelaysEarnTheirPlace
PROPERTY Ends
CHECK_DEADLOCK FALSE
