SPECIFICATION FairSpec
CONSTANTS
    a = a
    b = b
    c = c
    Node <- Trio
    Link <- Inward
    BIG = 4
    Flows <- NoFlows
    Egoists = {}
    IP_BROADCAST = IP_BROADCAST
    IP_DEF_TTL = 3
    MAX_QUEUE_LENGTH = 1
    FullUpdateAbove = 3
    UseMac = FALSE
    None = None
    MaxSeqno <- OnePeriodEach
    MaxLapses = 2
    MaxUpdates = 1
    MaxPackets = 0
PROPERTY LossIsAnnounced
CHECK_DEADLOCK FALSE
