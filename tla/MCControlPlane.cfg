SPECIFICATION FairSpec
CONSTANTS
    Daemons = {alex}
    Conns = {c1, c2}
    RetryMax = 1
    Faults = {"write"}
    MaxUsers = 2
    Peers <- Nobody
    MaxOpens = 0
    MaxDrops = 2
    MaxCrashes = 2
    MaxChallenges = 6
    WireCapacity = 2
    NoConn = NoConn
    Empty = Empty
    None = None
    NoUser = NoUser
    NoKey = NoKey
    BadName = BadName
    BadKey = BadKey
    BadSignature = BadSignature

    
PROPERTIES
    ServerRefined
    
CHECK_DEADLOCK FALSE
