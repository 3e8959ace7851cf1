SPECIFICATION Spec
CONSTANTS
    Peers = {a, b}
    Slots = {s1, s2, s3}
    None = None
    Dangling = Dangling
    OwnKey = 2
    PublicKey <- Keys
    MaxMessages = 0
    MaxAsked = 1
    MaxIncoming = 2
    MaxOrphans = 0
    MaxSeconds = 0
CONSTRAINTS
    Bounds
    LinkHolds
    OnePeerInCrowd
SYMMETRY Interchangeable
PROPERTY ChatsAreKept
