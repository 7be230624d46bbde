SPECIFICATION Spec
CONSTANTS
    None = None
    c1 = c1
    c2 = c2
    alice = alice
    bob = bob
    pA = pA
    pB = pB
    Clients = {c1, c2}
    Users = {alice, bob}
    Conns = {1, 2, 3, 4, 5, 6}
    MAX_CONCURRENCY_LIMIT = 3
    MAX_CONNS = 6
    FILE_CONNS = 0
    MayBlock = {"UI_MSG"}
    Lags = {2}
    SlowUp = {"SEND_TO"}
    MayCrash = {c2}
    MaxRestarts = 0
    Persisted <- OnlyAlice
    Scripts <- CrowdScripts
CHECK_DEADLOCK FALSE
INVARIANTS
    EntriesAreConnections
    NoneForgotten
    AccountsAreSound
    DeliveredToRecipients
    OnceEachInOrder
    SessionIsSignedIn
