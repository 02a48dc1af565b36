CONSTANTS
    Sessions = 2
    Addr = {1, 2}
    Content = {1, 2, 3}
    MAX_CHANNEL = 2
    SEQ_MOD = 2
    MAX_CLIENT_QUEUE = 1
    MAX_RETRIES = 2
    REQUEST_TIMEOUT = 1
    TUNNEL_TIMEOUT = 1
    auto_reconnect = TRUE
    MAX_TUNNELS = 1
    MAX_HEARTBEAT_FAILURES = 1
    CEMI_CHANNEL = 1
    MaxPayload = 2
    MaxIndication = 1
    MaxOnWire = 1
SPECIFICATION FairSpec
INVARIANT
    HandedOverInOrder
PROPERTIES
    Delivers
    WaitsOnlyForRoom
