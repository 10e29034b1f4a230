SPECIFICATION ChatSpec
CONSTANTS
    Daemons = {alex, nathan, sam}
    Conns = {c1, c2, c3}
    RetryMax = 0
    Faults = {}
    MaxUsers = 4
    Peers <- Crossing
    MaxOpens = 1
    MaxDrops = 0
    MaxCrashes = 0
    MaxChallenges = 3
    WireCapacity = 1
    NoConn = NoConn
    Empty = Empty
    None = None
    NoUser = NoUser
    NoKey = NoKey
    BadName = BadName
    BadKey = BadKey
    BadSignature = BadSignature
SYMMETRY ConnSymmetry
INVARIANT SpeaksWithAsked
CHECK_DEADLOCK FALSE
