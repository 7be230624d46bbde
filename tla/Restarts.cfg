SPECIFICATION Spec
CONSTANTS
    None = None
    c1 = c1
    c2 = c2
    alice = alice
    bob = bob
    pA = pA
    pB = pB
    Clients = {c1, c2}
    Users = {alice, bob}
    Conns = {1, 2, 3, 4, 5}
    MAX_CONCURRENCY_LIMIT = 5
    MAX_CONNS = 6
    FILE_CONNS = 0
    MayBlock = {}
    Lags = {}
    SlowUp = {}
    MayCrash = {}
    MaxRestarts = 1
    Persisted <- Registered
    Scripts <- RestartScripts
CHECK_DEADLOCK FALSE
INVARIANTS
    NoneForgotten
    DeliveredToRecipients
    OnceEachInOrder
PROPERTIES
    ServerImplementsAccounts
    RegistrationsLast
    RequestsEnd
