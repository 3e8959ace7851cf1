SPECIFICATION Spec
CONSTANTS
    Peers = {a}
    None = None
    Requests <- SomeRequests
    MaxAsked = 2
PROPERTIES
    RetryRetries
