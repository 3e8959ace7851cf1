SPECIFICATION Spec
CONSTANTS
    HeaderSize = 2
    PingPeriod = 4
    Patience = 16
    DialLimit = 10
    MaxDelay = 1
    MaxSize = 2
    MaxFrames = 3
INVARIANTS
    TypeOK
    HealthyStaysOpen
    SilenceIsNoticed
    NothingLeft
PROPERTIES
    InOrder
CHECK_DEADLOCK FALSE
