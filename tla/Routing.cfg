SPECIFICATION FairSpec
CONSTANTS
    MAX_PACKETS_PER_SEC = 1
    WINDOW = 0
    Handle = {h1, h2}
    Waits = {1}
    EVENTS = 1
    COMMANDS = 1
    BROADCAST = 1
    MaxFrame = 2
    MaxOnSocket = 1
INVARIANTS RateIsKept OnlyLaggardsMiss
PROPERTIES SendReturns EndReachesEveryone
