SPECIFICATION FairSpec
CONSTANTS
    TTL_START = 5
    TTL_THRESHOLD = 7
    TTL_INCREMENT = 2
    NETWORK_DIAMETER = 30
    RREQ_RETRIES = 3
    INFINITY2 = 255
    Hops <- SomeHops
    MaxQueued = 2
INVARIANT FloodsAreBounded
PROPERTIES RingExpands PacketsLeave
