SPECIFICATION Spec
CONSTANTS
    a = a
    b = b
    c = c
    d = d
    Node = {a, b, c, d}
    Link <- Line
    OLSR_MAX_MSGS = 4
    tc_msg_ttl <- FishEye
    MaxTcs = 3
    MaxChanges = 0
    MaxMissed = 1
    MaxExpiries = 1
    Flow <- Far
    IP_BROADCAST = IP_BROADCAST
    IP_DEF_TTL = 32
    Egoist = {b}
INVARIANTS TypeOK RoutesAreShortest
PROPERTY SelfishPromise
