CONSTANTS
    a = a
    b = b
    c = c
    x = x
    Addr <- OneAddr
    Content <- MCContent
    Endpoints <- OneClient
    MAX_CHANNEL = 1
    SEQ_MOD = 2
    MAX_CLIENT_QUEUE = 1
    MAX_RETRIES = 2
    REQUEST_TIMEOUT = 1
    TUNNEL_TIMEOUT = 1
    MAX_TUNNELS = 1
    EVENT_CHANNEL = 1
    MAX_EVENT_BACKLOG = 1
    CMD_CHANNEL = 1
    Answers = 1
    MaxEvents = 3
SPECIFICATION FairSpec
INVARIANTS
    TypeOK
    EventsInOrder
PROPERTIES
    RequestsAreSettled
    SenderGetsThrough
    EventsReachApplication
    StaleTunnelsAreFreed
    StopTakesEffect
