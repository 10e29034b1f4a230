SPECIFICATION Spec
CONSTANTS
    Users = {alex, nathan, zoe}
    Keys = {k1, k2}
    Conns = {c1, c2}
    Types = {"chat_request", "ice_credentials"}
    Bodies = {body}
    MaxUsers = 2
    MaxChallenges = 3
    HelloOnce = TRUE
    Malformed = TRUE
    NoUser = NoUser
    NoKey = NoKey
    NoConn = NoConn
    BadName = BadName
    BadKey = BadKey
    BadSignature = BadSignature
    Empty = Empty
SYMMETRY Symmetry
INVARIANTS
    TypeOK
    AuthSound
    RelayOrigin
    RegistryBounded
    PresenceSound
    RelayAddressee
PROPERTIES
    FirstRegistrationWins
    OfflineOnlyByOwnClose
