SPECIFICATION ChatSpec
CONSTANTS
    Daemons = {alex, nathan}
    Conns = {c1, c2}
    RetryMax = 0
    Faults = {"contact", "ice", "write", "connect", "unsent"}
    MaxUsers = 3
    Peers <- FirstOnly
    MaxOpens = 1
    MaxDrops = 1
    MaxCrashes = 0
    MaxChallenges = 3
    WireCapacity = 2
    NoConn = NoConn
    Empty = Empty
    None = None
    NoUser = NoUser
    NoKey = NoKey
    BadName = BadName
    BadKey = BadKey
    BadSignature = BadSignature
SYMMETRY ConnSymmetry
PROPERTIES
    ConversationRefined
    
CHECK_DEADLOCK FALSE
