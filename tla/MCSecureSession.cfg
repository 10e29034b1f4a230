SPECIFICATION Spec
CONSTANTS
    short = short
    long = long
    wide = wide
    Texts = {short, long, wide}
    TooLong = {long}
    TooWide = {wide}
    QueueCapacity = 2
    MaxTexts <- OneWay
INVARIANTS
    TypeOK
    SecureAgreement
PROPERTIES
    StreamRefined
CHECK_DEADLOCK FALSE
