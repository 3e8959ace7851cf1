SPECIFICATION Spec
CONSTANTS
    Peers = {a, b}
    None = None
    Requests <- SomeRequests
    MaxAsked = 3
INVARIANTS
    TypeOK
    PingFollowsTransport
PROPERTIES
    LaneKept
    WrittenOnce
    QueueDrains
