CONSTANTS
    Sessions = 1
    Addr = {1}
    Content = {1, 2, 3}
    MAX_CHANNEL = 2
    SEQ_MOD = 2
    MAX_CLIENT_QUEUE = 1
    MAX_RETRIES = 2
    REQUEST_TIMEOUT = 1
    TUNNEL_TIMEOUT = 1
    auto_reconnect = TRUE
    MAX_TUNNELS = 2
    MAX_HEARTBEAT_FAILURES = 1
    CEMI_CHANNEL = 1
    MaxPayload = 1
    MaxIndication = 2
    MaxOnWire = 1
SPECIFICATION FairSpec
PROPERTY
    SendReturns
