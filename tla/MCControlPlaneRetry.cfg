SPECIFICATION FairChatSpec
CONSTANTS
    Daemons = {alex, nathan}
    Conns = {c1, c2}
    RetryMax = 1
    Faults = {}
    MaxUsers = 3
    Peers <- FirstOnly
    MaxOpens = 1
    MaxDrops = 0
    MaxCrashes = 0
    MaxChallenges = 3
    WireCapacity = 2
    NoConn = NoConn
    Empty = Empty
    None = None
    NoUser = NoUser
    NoKey = NoKey
    BadName = BadName
    BadKey = BadKey
    BadSignature = BadSignature
INVARIANTS
    TypeOK
    FailedFreesClient
PROPERTIES
    NegotiationEnds
    ConversationRefined
CHECK_DEADLOCK FALSE
