SPECIFICATION Spec
CONSTANTS
    Peers = {a}
    Slots = {s1}
    None = None
    Dangling = Dangling
    OwnKey = 2
    PublicKey <- Keys
    MaxMessages = 2
    MaxAsked = 2
    MaxIncoming = 0
    MaxOrphans = 1
    MaxSeconds = 1
CONSTRAINTS
    Bounds
    LaterSecond
INVARIANTS
    TypeOK
    OneWayOut
    WaitingShowsPending
    Accounted
    ReadWasAcked
PROPERTIES
    OutboxLeavesWhole
    MovesForward
