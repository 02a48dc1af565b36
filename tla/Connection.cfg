CONSTANTS
    None = None
    Zero = zero
    Client = c
    Server = s
    Address = {zero, c, s}
    Apdu = {1, 2, 3}
    SEQ_MOD = 2
    MAX_REP_COUNT = 1
    CONNECTION_TIMEOUT = 2
    ACK_TIMEOUT = 1
    MaxPayload = 3
    MaxOnBus = 2
SPECIFICATION Spec
PROPERTY
    Delivers
