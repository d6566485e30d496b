SPECIFICATION Spec
CONSTANTS
    a = a
    b = b
    c = c
    Node <- Trio
    Link <- Line
    BIG = 4
    Flows <- EveryKind
    Egoists = {b}
    IP_BROADCAST = IP_BROADCAST
    IP_DEF_TTL = 3
    MAX_QUEUE_LENGTH = 1
    FullUpdateAbove = 2
    UseMac = TRUE
    None = None
    MaxSeqno <- NearIsQuiet
    MaxLapses = 1
    MaxUpdates = 2
    MaxPackets = 2
INVARIANTS TypeOK SeqnoProvenance NoStrandedPacket RoutesAreTimed
PROPERTY SelfishForwardsNothing
CHECK_DEADLOCK FALSE
