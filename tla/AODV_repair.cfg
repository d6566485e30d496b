SPECIFICATION Spec
CONSTANTS
    n1 = n1
    n2 = n2
    n3 = n3
    n4 = n4
    Node <- Quartet
    Zero = n1
    Link <- LongLine
    INFINITY2 = 9
    NETWORK_DIAMETER = 4
    RREQ_RETRIES = 0
    AODV_LOCAL_REPAIR = TRUE
    Flows <- Three
    Egoists = {n3}
    None = None
    MaxSeqno <- OneBut4
    MaxRequests = 1
    MaxFailures = 2
    MaxPackets = 2
INVARIANTS SeqnoProvenance NoStrandedPacket
PROPERTY SelfishKeepsNothingNew
CHECK_DEADLOCK FALSE
