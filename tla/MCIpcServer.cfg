SPECIFICATION FairSpec
CONSTANTS
    status = status
    chat1 = chat1
    chat2 = chat2
    other = other
    Clients = {status, chat1, chat2, other}
    Command <- MCCommand
    Backlog = 2
    None = None
INVARIANTS
    NoLeak
PROPERTIES
    Served
CHECK_DEADLOCK FALSE
