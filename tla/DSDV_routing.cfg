SPECIFICATION Spec
CONSTANTS
    a = a
    b = b
    c = c
    Node <- Trio
    Link <- Line
    BIG = 4
    Flows <- NoFlows
    Egoists = {}
    IP_BROADCAST = IP_BROADCAST
    IP_DEF_TTL = 3
    MAX_QUEUE_LENGTH = 1
    FullUpdateAbove = 1
    UseMac = FALSE
    None = None
    MaxSeqno <- OnePeriodEach
    MaxLapses = 1
    MaxUpdates = 1
    MaxPackets = 0
INVARIANT HopOrder
PROPERTY NeverOlder
CHECK_DEADLOCK FALSE
