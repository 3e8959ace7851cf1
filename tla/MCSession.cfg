SPECIFICATION Spec
CONSTANTS
    alice = alice
    bob = bob
    Nicks = {alice, bob}
    None = none
    MaxStarts = 3
    MaxAsked = 5
SYMMETRY Accounts
INVARIANTS
    TypeOK
    ShownIsSaved
    RegistersOwnKey
PROPERTIES
    IdentityKept
