SPECIFICATION Spec
CONSTANTS
    Peers = {a}
    Slots = {s1}
    None = None
    Dangling = Dangling
    OwnKey = 2
    PublicKey <- Keys
    MaxMessages = 1
    MaxAsked = 1
    MaxIncoming = 0
    MaxOrphans = 0
    MaxSeconds = 0
CONSTRAINT Bounds
INVARIANT PendingIsNotGivenUp
