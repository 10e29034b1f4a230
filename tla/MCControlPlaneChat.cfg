SPECIFICATION ChatSpec
CONSTANTS
    Daemons = {alex, nathan}
    Conns = {c1, c2}
    RetryMax = 0
    Faults = {}
    MaxUsers = 3
    Peers <- Anybody
    MaxOpens = 1
    MaxDrops = 0
    MaxCrashes = 0
    MaxChallenges = 2
    WireCapacity = 2
    NoConn = NoConn
    Empty = Empty
    None = None
    NoUser = NoUser
    NoKey = NoKey
    BadName = BadName
    BadKey = BadKey
    BadSignature = BadSignature
SYMMETRY Symmetry
PROPERTIES
    ConversationRefined
CHECK_DEADLOCK FALSE
