SPECIFICATION Spec
CONSTANTS
    a = a
    b = b
    c = c
    d = d
    Node = {a, b, c, d}
    Link <- Ring
    OLSR_MAX_MSGS = 4
    tc_msg_ttl <- FullTtl
    MaxTcs = 2
    MaxChanges = 1
    MaxMissed = 1
    MaxExpiries = 0
    Flow <- NoFlow
    IP_BROADCAST = IP_BROADCAST
    IP_DEF_TTL = 32
    Egoist = {}
SYMMETRY Ways
INVARIANT KnowsTheNewest
PROPERTY FloodsAsPromised
