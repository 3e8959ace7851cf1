SPECIFICATION Spec
CONSTANTS
    alice = alice
    bob = bob
    Nicks = {alice, bob}
    None = none
    MaxStarts = 2
    MaxAsked = 5
INVARIANTS
    OwnIdentity
