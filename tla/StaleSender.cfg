SPECIFICATION Spec
CONSTANTS
    None = None
    c1 = c1
    c2 = c2
    alice = alice
    bob = bob
    pA = pA
    pB = pB
    Clients = {c1, c2}
    Users = {alice, bob}
    Conns = {1, 2, 3, 4, 5, 6}
    MAX_CONCURRENCY_LIMIT = 6
    MAX_CONNS = 6
    FILE_CONNS = 1
    MayBlock = {}
    Lags = {}
    SlowUp = {}
    MayCrash = {}
    MaxRestarts = 0
    Persisted <- Registered
    Scripts <- OneFile
CHECK_DEADLOCK FALSE
INVARIANTS
    ResponseToSender
