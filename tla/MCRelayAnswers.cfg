SPECIFICATION Spec
CONSTANTS
    Peers = {a}
    Slots = {s1}
    None = None
    Dangling = Dangling
    OwnKey = 2
    PublicKey <- Keys
    MaxMessages = 1
    MaxAsked = 2
    MaxIncoming = 1
    MaxOrphans = 0
    MaxSeconds = 0
CONSTRAINT Bounds
INVARIANT RelayAnswerIsOwn
