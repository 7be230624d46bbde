SPECIFICATION DSSpec
CONSTANTS
    Users = {u1, u2, u3}
    Passwords = {p1, p2}
    Bodies = {b1, b2}
    None = None
    MaxQueue = 2
SYMMETRY Permuted
INVARIANTS
    DSTypeOK
    UniqueProfiles
    UniqueEntries
    SignedInAreRegistered
PROPERTY
    ImplementsAccounts
