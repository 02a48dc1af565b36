SPECIFICATION WireSpec
CONSTANTS
    Server <- MCServer
    Site <- MCSite
    MayBecome <- MCMayBecome
    Client <- MCClient
    Query <- MCQuery
    Telegram <- MCTelegram
    Chatter <- MCChatter
    MaxChanges = 1
    MaxDamage = 1
    MaxFound = 2
    MaxWritten = 2
    MaxChatter = 1
INVARIANTS
    FoundAsDescribed
    AnswersMatch
    TelegramsArrive
CHECK_DEADLOCK FALSE
