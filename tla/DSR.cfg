SPECIFICATION Spec
CONSTANTS
    a = a
    b = b
    c = c
    d = d
    Node = {a, b, c, d}
    Links <- Diamond
    Fragile <- LastHop
    Flow <- OnePacket
    Egoist = {b}
    None = None
    MAC_BROADCAST = MAC_BROADCAST
    GRAT_ROUTE_ERROR = d
    SEND_BUF_SIZE = 1
    MAX_SR_LEN = 4
    MAX_ROUTE_ERRORS = 2
    dsr_salvage_max_attempts = 15
    dsr_salvage_max_requests = 1
    MaxFaults = 1
    MaxAsked = 2
    MayExpire = FALSE
INVARIANTS TypeOK  
PROPERTIES SelfishPromise 
CHECK_DEADLOCK FALSE
