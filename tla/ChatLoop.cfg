SPECIFICATION FairSpec
CONSTANTS
    SocketSize = 6
    BufferSize = 5
    Piped = FALSE
    MaxTyped = 3
    MaxPeer = 1
    Empty = Empty
INVARIANTS
    ObeyedInOrder
    ClosedAfterAll
PROPERTIES
    LeavingEnds
    TypedIsSent
    
CHECK_DEADLOCK FALSE
