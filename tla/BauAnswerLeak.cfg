CONSTANTS
    zero = zero
    p = p
    q = q
    None = None
    Zero = zero
    Address <- MCAddress
    Peers <- MCPeers
    Apdu <- MCApdu
    SEQ_MOD = 3
    MAX_REP_COUNT = 1
    CONNECTION_TIMEOUT = 2
    ACK_TIMEOUT = 1
    MaxSessions = 2
SPECIFICATION Spec
INVARIANT
    AnswersStayOnTheirConnection
