CONSTANTS
    None = None
    Zero = zero
    Address = {zero, p, q}
    Apdu = {x, y}
    SEQ_MOD = 3
    MAX_REP_COUNT = 1
    CONNECTION_TIMEOUT = 2
    ACK_TIMEOUT = 1
SPECIFICATION TLFairSpec
INVARIANTS
    TypeOK
    TimersFollowState
    SavedFrameIsOutstanding
    TransmissionsBounded
PROPERTIES
    RetransmitsTheSame
    NoTakeover
    SilentPeerIsDropped
