CONSTANTS
    a = a
    b = b
    c = c
    x = x
    Addr <- MCAddr
    Content <- MCContent
    Endpoints <- TwoClients
    MAX_CHANNEL = 2
    SEQ_MOD = 2
    MAX_CLIENT_QUEUE = 1
    MAX_RETRIES = 2
    REQUEST_TIMEOUT = 1
    TUNNEL_TIMEOUT = 1
    MAX_TUNNELS = 2
    EVENT_CHANNEL = 1
    MAX_EVENT_BACKLOG = 1
    CMD_CHANNEL = 1
    Answers = 1
    MaxEvents = 1
VIEW View
CONSTRAINT StopsAtOnce
ACTION_CONSTRAINT CommandsAtOnce
SPECIFICATION Spec
INVARIANTS
    ChannelsDistinct
    NothingLeftWaiting
PROPERTIES
    OnlyOwnFaultEndsTunnel
    OneFrameOnTheWire
    ClientsKeepApart
