SPECIFICATION Spec
CONSTANTS
    n1 = n1
    n2 = n2
    n3 = n3
    n4 = n4
    Node <- Trio
    Zero = n3
    Link <- Triangle
    INFINITY2 = 9
    NETWORK_DIAMETER = 3
    RREQ_RETRIES = 0
    AODV_LOCAL_REPAIR = TRUE
    Flows <- BothWays
    Egoists = {}
    None = None
    MaxSeqno <- OneEach
    MaxRequests = 2
    MaxFailures = 2
    MaxPackets = 2
INVARIANTS HopOrder LoopFree  TypeOK
PROPERTY NeverOlder
SYMMETRY Sources
CHECK_DEADLOCK FALSE
