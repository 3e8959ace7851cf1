SPECIFICATION Spec
CONSTANTS
    Peers = {a, b}
    Slots = {s1}
    None = None
    Dangling = Dangling
    OwnKey = 2
    PublicKey <- Keys
    MaxMessages = 0
    MaxAsked = 2
    MaxIncoming = 0
    MaxOrphans = 0
    MaxSeconds = 0
CONSTRAINT Bounds
INVARIANT SessionsAreUnique
